SPECIFICATION HSpec
CONSTANTS
    Clients = {c1, c2}
    Ctls = {ctl}
    Conns = {c1, c2, ctl}
    Threads = {t1}
    IdleChecks = FALSE
    HasNvml = FALSE
    SockBuf = 5
    Lsock = lsock
    MaxEvents = 4
    SigpipeFatal = TRUE
    EpollAddMayFail = FALSE
    CtlScript <- OneCycle
    MayCrash = FALSE
SYMMETRY Symmetry
INVARIANTS
    OneOwnerWhenSettled
    NoStrandedRequest
    NoLostRequest
    ContextKnown
    StatusFirst
CHECK_DEADLOCK FALSE
