\* Three connection slots and the messages of clients only.
SPECIFICATION SteadySpec
CONSTANTS
    Conns = {c1, c2, c3}
    SockBuf = 1
    Lsock = lsock
    MaxEvents = 1
    SigpipeFatal = TRUE
    EpollAddMayFail = FALSE
    PeerMessages = {"REQ_LOCK", "LOCK_RELEASED"}
SYMMETRY Symmetry
PROPERTIES
    ImplementsLock
    DropOncePerQuantum
CHECK_DEADLOCK FALSE
