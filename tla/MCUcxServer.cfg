SPECIFICATION Spec
CONSTANTS
    c1 = c1
    c2 = c2
    Clients <- TwoClients
    NumIterations = 3
    Types <- AllTypes
    Batch = TRUE
    Crashes = TRUE
    Fails = TRUE
CHECK_DEADLOCK FALSE
INVARIANTS
    HeldInOrder
    ClientVerdict
    ServerExitExplained
PROPERTIES
    ClientEnds
