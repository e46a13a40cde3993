CONSTANTS
    NoOne = no_one
    Owner = 0
    num_threads_ = 2
    Threads <- MCThreads
    Locks <- MCLocks
SPECIFICATION FairSpec
INVARIANTS StartedHasTid StartReturnsLoops ChildEndsFirst
PROPERTIES StartReturns DestructorReturnsIfLooping
CHECK_DEADLOCK FALSE
