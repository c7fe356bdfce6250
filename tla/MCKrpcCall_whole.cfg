SPECIFICATION Spec
CONSTANTS
    t1 = t1
    t2 = t2
    args = args
    none = none
    DefaultArgs = none
    Threads <- TwoThreads
    MaxCalls = 1
    Methods <- OneMethod
    Published <- OneMethod
    ArgValues <- AllArgs
    NFds = 2
    MaxCrashes = 1
    Fragmented = FALSE
    Interrupts = TRUE
    SerializeFails = FALSE
INVARIANTS
    OwnSocket
    AnswersOwnRequest
    CompleteAnswerProvesExecution
    SilentFailureHasNoEffect
PROPERTIES
    CallReturns
