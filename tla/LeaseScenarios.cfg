SPECIFICATION FairSpec
CONSTANTS
    Clients = {c1, c2, c3}
    Operations = 2
    Rounds = 2
    Scenarios = {"contention", "waiter-races"}
    MayMisbehave = TRUE
INVARIANTS NoFalseAlarm AcceptedIsTrue
PROPERTY RunEnds
CHECK_DEADLOCK FALSE
