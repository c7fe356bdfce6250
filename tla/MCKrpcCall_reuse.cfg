SPECIFICATION SafeSpec
CONSTANTS
    t1 = t1
    t2 = t2
    args = args
    none = none
    DefaultArgs = none
    Threads <- TwoThreads
    MaxCalls = 2
    Methods <- OneMethod
    Published <- OneMethod
    ArgValues <- NoArgs
    NFds = 2
    MaxCrashes = 0
    Fragmented = TRUE
    Interrupts = TRUE
    SerializeFails = TRUE
SYMMETRY Symmetry
CHECK_DEADLOCK FALSE
INVARIANTS
    AtMostOnce
    OpenSocketsAccountedFor
