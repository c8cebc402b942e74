\* Two threads, a window of four kernels; the process may end while it starts.
CONSTANTS
    Threads = {t1, t2}
    WindowMax = 4
    Syncer = Syncer
    None = None
    Platforms <- SomePlatforms
SPECIFICATION HookSpec
INVARIANTS
    KernTypeOK
    Throttle
    Interposed
    NoNullCall
PROPERTIES
    HooksReturn
    EntryReturns
CHECK_DEADLOCK FALSE
