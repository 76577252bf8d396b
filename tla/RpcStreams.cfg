SPECIFICATION FairSpec
CONSTANTS
    Replicas = 2
    Frames = 2
    Scenarios = {"rpc-pressure", "rpc-stream-hose"}
    MayMisbehave = TRUE
INVARIANTS NoFalseAlarm AcceptedIsExact DrainedBetweenPhases
PROPERTY RunEnds
CHECK_DEADLOCK FALSE
