SPECIFICATION SafeSpec
CONSTANTS
    t1 = t1
    t2 = t2
    args = args
    none = none
    DefaultArgs = none
    Threads <- OneThread
    MaxCalls = 1
    Methods <- OneMethod
    Published <- OneMethod
    ArgValues <- OneArgs
    NFds = 1
    MaxCrashes = 0
    Fragmented = TRUE
    Interrupts = FALSE
    SerializeFails = FALSE
CHECK_DEADLOCK FALSE
INVARIANTS
    ExecutedAsSent
