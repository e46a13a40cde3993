CONSTANTS
    c1 = c1
    c3 = c3
    c2 = c2
    Conns = {c1}
    num_threads_ = 1
    SndBuf = 1
    MsgLen = 1
    MaxSends = 0
    MaxArrivals = 0
    FdLimit = 1
    UserThreads = TRUE
    ServerDies = FALSE
SPECIFICATION Spec
INVARIANT DestructorAssertHolds
CHECK_DEADLOCK FALSE
