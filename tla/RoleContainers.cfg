SPECIFICATION FairSpec
CONSTANTS
    Replicas = 2
    Events = {"ready", "complete"}
    Flaky = {2}
PROPERTIES
    CallsReturn
    ImplementsWave
CHECK_DEADLOCK FALSE
