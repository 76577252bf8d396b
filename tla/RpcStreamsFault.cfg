SPECIFICATION Spec
CONSTANTS
    Replicas = 2
    Frames = 2
    Scenarios = {"rpc-stream-hose"}
    MayMisbehave = FALSE
INVARIANTS FaultsInterruptStreams
CHECK_DEADLOCK FALSE
