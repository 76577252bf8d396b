SPECIFICATION FairSpec
CONSTANTS
    Clients = {c1, c2}
    Targets = {c2}
    First = c1
    Domains = {d1, d2}
    Cycles = 2
    Scenarios = {"replyLoss", "storm", "saturation", "graceful"}
    MayMisbehave = TRUE
INVARIANTS NoFalseAlarm AcceptedIsTrue FaultsAreLifted
PROPERTY RunEnds
CHECK_DEADLOCK FALSE
