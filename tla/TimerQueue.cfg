CONSTANTS
    p1 = p1
    p2 = p2
    NoTimer = no_timer
    Addrs = {p1, p2}
    Delays = {0, 2}
    Intervals = {0, 1}
    MaxTimers = 2
    MaxTime = 3
    MaxSteps = 1
SPECIFICATION FairSpec
INVARIANTS IndexesAgree OneOwner CancelSticks NoneLost AlarmCovers
PROPERTY DueTimerRuns
CHECK_DEADLOCK FALSE
