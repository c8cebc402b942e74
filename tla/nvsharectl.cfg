\* int has 16 values, long 82; a message has 2 bytes, a buffer 3.
SPECIFICATION Spec
CONSTANTS
    IntMod = 16
    LongMax = 40
    ExtrasInit = 1
    Conns = {app, k1, k2}
    App = app
    MsgLen = 2
    Cap = 3
    FirstArgvs <- AllArgvs
    LaterArgvs <- PlainArgvs
    MaxRuns = 2
    DefaultTq = 3
INVARIANTS
    CtlTypeOK
    CommandLineMeaning
    ExtrasInBounds
    Framed
    TqPositive
PROPERTIES
    ConnectionsEnd
    ClientFollows
CHECK_DEADLOCK FALSE
