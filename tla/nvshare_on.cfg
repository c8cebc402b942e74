SPECIFICATION HSpec
CONSTANTS
    Clients = {c1, c2}
    Ctls = {ctl}
    Conns = {c1, c2, ctl}
    Threads = {t1}
    IdleChecks = TRUE
    HasNvml = TRUE
    SockBuf = 3
    Lsock = lsock
    MaxEvents = 3
    SigpipeFatal = TRUE
    EpollAddMayFail = FALSE
    CtlScript <- NoCommands
    MayCrash = TRUE
SYMMETRY Symmetry
INVARIANTS
    OneLock
    NoStrandedRequest
    NoLostRequest
    NoLiveClientDropped
    NoStaleEvent
PROPERTIES
    IdleBeforeRelease
CHECK_DEADLOCK FALSE
