CONSTANTS
    c1 = c1
    c3 = c3
    c2 = c2
    Conns = {c1, c2, c3}
    num_threads_ = 2
    SndBuf = 1
    MsgLen = 1
    MaxSends = 0
    MaxArrivals = 0
    FdLimit = 2
    UserThreads = FALSE
    ServerDies = TRUE
SPECIFICATION Spec
SYMMETRY Symmetric
INVARIANTS NoAssertFails DestroyedIsDown RawPointersAlive Balanced
CHECK_DEADLOCK FALSE
