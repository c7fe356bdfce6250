SPECIFICATION Spec
CONSTANTS
    FailureModes <- AllFailureModes
    TestModes <- AllTestModes
    Faults = TRUE
CHECK_DEADLOCK FALSE
INVARIANTS
    SleepsOnlyIdle
    WorkerOutlivesPeerEndpoint
    ZeroExplained
PROPERTIES
    Terminates
