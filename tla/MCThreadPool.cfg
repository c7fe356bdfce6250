SPECIFICATION Spec
CONSTANTS
    w1 = w1
    w2 = w2
    w3 = w3
    p1 = p1
    p2 = p2
    Workers <- MCWorkers
    Producers <- MCProducers
    MaxTasks = 4
INVARIANTS
    ExactlyOnce
    NoLostWakeup
    DrainedAtDestruction
PROPERTIES
    DestructorReturns
    ImplementsTaskPool
