SPECIFICATION BootedSpec
CONSTANTS
    Clients = {c1, c2}
    Ctls = {ctl}
    Conns = {c1, c2, ctl}
    Threads = {t1}
    IdleChecks = FALSE
    HasNvml = TRUE
    SockBuf = 3
    Lsock = lsock
    MaxEvents = 3
    SigpipeFatal = TRUE
    EpollAddMayFail = FALSE
    CtlScript <- NoCommands
    MayCrash = FALSE
SYMMETRY Symmetry
INVARIANTS
    OneProcessOnGpu
CHECK_DEADLOCK FALSE
