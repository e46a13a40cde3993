CONSTANTS
    NoOne = no_one
    Owner = 0
    num_threads_ = 1
    Threads <- MCThreads
    Locks <- MCLocks
SPECIFICATION FairSpec
PROPERTY DestructorReturns
CHECK_DEADLOCK FALSE
