SPECIFICATION HSpec
CONSTANTS
    Clients = {c1, c2}
    Ctls = {ctl}
    Conns = {c1, c2, ctl}
    Threads = {t1}
    IdleChecks = FALSE
    HasNvml = TRUE
    SockBuf = 3
    Lsock = lsock
    MaxEvents = 3
    SigpipeFatal = TRUE
    EpollAddMayFail = FALSE
    CtlScript <- NoCommands
    MayCrash = TRUE
SYMMETRY Symmetry
INVARIANTS
    SchedulerSurvives
CHECK_DEADLOCK FALSE
