SPECIFICATION Spec
CONSTANTS
    MaxThreads = 2
    Conn = {c1, c2}
    NoConn = NoConn
    MaxFd = 2
    FdLimits = {1, 2}
    WakeCap = 1
    MaxReq = 2
    Pipeline = 2
    Closing = {c1}
    Fragmenting = {c2}
    Aborting = {c1}
    Slow = {}
INVARIANTS
    NoLostRegistration
    EventsMapped
    RequestsConserved
CHECK_DEADLOCK FALSE
