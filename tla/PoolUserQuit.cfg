CONSTANTS
    NoOne = no_one
    Owner = 0
    num_threads_ = 1
    Threads <- MCThreads
    Locks <- MCLocks
SPECIFICATION Spec
INVARIANT MutexFreeAtDestruction
CHECK_DEADLOCK FALSE
