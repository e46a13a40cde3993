CONSTANTS
    c1 = c1
    c3 = c3
    c2 = c2
    Conns = {c1}
    num_threads_ = 0
    SndBuf = 1
    MsgLen = 1
    MaxSends = 0
    MaxArrivals = 0
    FdLimit = 1
    UserThreads = FALSE
    ServerDies = TRUE
SPECIFICATION Spec
INVARIANT RemoveAssertHolds
CHECK_DEADLOCK FALSE
