SPECIFICATION Spec
CONSTANTS
    Scenarios = 3
    Ports = {65533, 65534}
    MaxPort = 65535
    CleanupMayFail = TRUE
INVARIANTS ExitZeroMeansPassed ResultsAreTrue SuiteIsComplete
CHECK_DEADLOCK FALSE
