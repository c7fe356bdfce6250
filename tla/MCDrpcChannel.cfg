SPECIFICATION Spec
CONSTANTS
    NFds = 2
    MaxConns = 2
    MaxCalls = 2
    MaxCancels = 1
    MaxRequest = 2
    MaxPieces = 2
CHECK_DEADLOCK FALSE
INVARIANTS
    VerdictMatchesController
    SuccessIsWholeStream
    DescriptorsSafeUnlessOverlap
PROPERTIES
    CallEndsWithStream
