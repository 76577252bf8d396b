SPECIFICATION FairSpec
CONSTANTS
    MaxOps = 3
    LeaseSeconds = 2
    EmptyPolls = 3
INVARIANTS NoFalseAlarm AcceptedIsTrue
PROPERTY StopEnds
CHECK_DEADLOCK FALSE
