SPECIFICATION SafeSpec
CONSTANTS
    k1 = k1
    k2 = k2
    k3 = k3
    w1 = w1
    w2 = w2
    Conns <- TwoConns
    Workers <- TwoWorkers
    NFds = 2
    MaxChunks = 1
    MaxQueue = 2
SYMMETRY Symmetry
CHECK_DEADLOCK FALSE
INVARIANTS
    NoOrphanSocket
    NoDeafConnection
    EachChunkOnce
    StopClosesClients
PROPERTIES
    ClosedOnlyForAHangup
