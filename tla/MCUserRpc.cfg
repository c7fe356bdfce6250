SPECIFICATION Spec
CONSTANTS
    c1 = c1
    Clients <- OneClient
    MaxCalls = 2
    MaxStarts = 2
    SignBit = 2
    Operands <- SomeOperands
    Expected <- ExpectedSum
CHECK_DEADLOCK FALSE
INVARIANTS
    DispatchedAsCalled
    MergeOfPieces
    AnswersAgree
PROPERTIES
    SuccessIsReal
