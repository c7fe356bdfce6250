SPECIFICATION ConfigSpec
CONSTANTS
    Letters <- OneLetter
    MaxFile = 7
    BufSize = 6
CHECK_DEADLOCK FALSE
INVARIANTS
    FirstAssignmentWins
