SPECIFICATION Spec
CONSTANTS
    k1 = k1
    k2 = k2
    k3 = k3
    w1 = w1
    w2 = w2
    Conns <- ThreeConns
    Workers <- OneWorker
    NFds = 2
    MaxChunks = 0
    MaxQueue = 1
CHECK_DEADLOCK FALSE
PROPERTIES
    StopReturns
    HangupNoticed
