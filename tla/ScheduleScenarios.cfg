CONSTANTS
    Subscribers = {s1, s2}
    FiresOf <- MCFiresOf
    Lanes = 2
    Scenarios = {"delivery", "outage", "storm"}
    MayMisbehave = TRUE
    MaxCounted = 1
SPECIFICATION FairSpec
INVARIANTS NoFalseAlarm AcceptedIsExact NothingIsLeft
PROPERTY RunEnds
CHECK_DEADLOCK FALSE
