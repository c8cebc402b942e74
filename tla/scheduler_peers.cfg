\* Two connection slots, every message, EAGAIN after one unread message, and
\* the whole ready set in a batch.
SPECIFICATION HSpec
CONSTANTS
    Conns = {c1, c2}
    SockBuf = 1
    Lsock = lsock
    MaxEvents = 2
    SigpipeFatal = FALSE
    EpollAddMayFail = TRUE
    PeerMessages = {"REGISTER", "SCHED_ON", "SCHED_OFF", "REQ_LOCK", "LOCK_RELEASED", "SET_TQ", "OTHER"}
SYMMETRY Symmetry
INVARIANTS
    SchedTypeOK
    QueueSound
PROPERTIES
    OneGrantAtATime
    ImplementsLock
CHECK_DEADLOCK FALSE
