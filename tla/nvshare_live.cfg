SPECIFICATION LiveSpec
CONSTANTS
    Clients = {c1, c2}
    Ctls = {}
    Conns = {c1, c2}
    Threads = {t1}
    IdleChecks = FALSE
    HasNvml = FALSE
    SockBuf = 3
    Lsock = lsock
    MaxEvents = 3
    SigpipeFatal = TRUE
    EpollAddMayFail = FALSE
    CtlScript <- NoCommands
    MayCrash = FALSE
PROPERTIES
    WaiterGetsLock
CHECK_DEADLOCK FALSE
