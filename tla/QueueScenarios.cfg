SPECIFICATION FairSpec
CONSTANTS
    Producers = {p1, p2}
    Drainers = {d1, d2}
    Operations = 3
    Wave = 2
    Partial = 2
    Scenarios = {"overload", "redelivery", "lifecycle", "fencing"}
    MayMisbehave = TRUE
INVARIANTS NoFalseAlarm AcceptedIsTrue
PROPERTY RunEnds
CHECK_DEADLOCK FALSE
