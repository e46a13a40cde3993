CONSTANTS
    c1 = c1
    c3 = c3
    c2 = c2
    Conns = {c1}
    num_threads_ = 0
    SndBuf = 1
    MsgLen = 2
    MaxSends = 2
    MaxArrivals = 1
    FdLimit = 1
    UserThreads = TRUE
    ServerDies = TRUE
SPECIFICATION FairSpec
INVARIANTS NoAssertFails WritingIffBuffered StreamInOrder FinComesLast
PROPERTIES PeerGoneIsCleanedUp ShutdownCompletes
CHECK_DEADLOCK FALSE
