SPECIFICATION FairSpec
CONSTANTS
    MaxThreads = 2
    Conn = {c1, c2}
    NoConn = NoConn
    MaxFd = 2
    FdLimits = {2}
    WakeCap = 1
    MaxReq = 1
    Pipeline = 1
    Closing = {}
    Fragmenting = {}
    Aborting = {}
    Slow = {}
INVARIANTS
    CrashIsRace
PROPERTIES
    AcceptedIsServed
    RequestIsAnswered
    CloseIsNoticed
CHECK_DEADLOCK FALSE
