SPECIFICATION FairSpec
CONSTANTS
    Workers = {w1, w2}
    Clients = {c1, c2}
    Owner = c1
    Task = {k1, k2, k3}
    NoTask = NoTask
    NoThread = NoThread
INVARIANTS
    FIFO
    NoLostWakeup
    DestructorDrains
PROPERTIES
    AcceptedRuns
    DestructorReturns
CHECK_DEADLOCK FALSE
