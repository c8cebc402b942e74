\* Two connection slots and the messages of clients only.
SPECIFICATION FairSpec
CONSTANTS
    Conns = {c1, c2}
    SockBuf = 1
    Lsock = lsock
    MaxEvents = 2
    SigpipeFatal = TRUE
    EpollAddMayFail = FALSE
    PeerMessages = {"REQ_LOCK", "LOCK_RELEASED"}
PROPERTIES
    HolderIsTold
CHECK_DEADLOCK FALSE
