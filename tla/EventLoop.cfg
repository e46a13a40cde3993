CONSTANTS
    c1 = c1
    c2 = c2
    f1 = f1
    f2 = f2
    f3 = f3
    io = io
    LoopThread = loop_thread
    Callers = {c1, c2}
    Functors = {f1, f2, f3}
    WakeupChannel = wakeup_channel
    IOChannels = {io}
    EventfdMax = 2
SPECIFICATION FairSpec
INVARIANTS FifoExactlyOnce NoMissedWakeup
PROPERTIES QueuedRuns QuitStops MailboxSpec
