CONSTANTS
    Threads = {t1}
    Ptrs = {p1, p2, p3}
    Nodes = {n1, n2, n3, n4}
    Sizes = {1, 2, 15}
    Nil = Nil
    Total = 5
    Reserve = 2
    SizeMod = 16
    DriverCap = 7
    InfoMayFail = TRUE
SPECIFICATION MemSpec
INVARIANTS
    MemTypeOK
    ListComplete
    SumExact
    WithinLimit
