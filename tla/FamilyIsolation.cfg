SPECIFICATION FairSpec
CONSTANTS
    ShardCount = 2
    Clients = {k1, k2}
    Cycles = 2
    Scenarios = {"matrix", "partial", "sameShard", "inflight", "exhaustion", "degradation", "supervision", "fairness"}
    Defects = {"none", "shared", "shardwide", "domainwide", "overclean", "doubled", "starved", "ignored", "uncounted", "overcounted", "stubborn", "eager", "hung", "unrecovered", "unreset", "leakLease", "leakWorker", "committed"}
INVARIANTS NoFalseAlarm AcceptedIsTrue
PROPERTY RunEnds
CHECK_DEADLOCK FALSE
