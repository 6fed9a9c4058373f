SPECIFICATION FairSpec
CONSTANTS
    Addrs = {1, 2}
    MaxTimers = 3
    MaxTime = 3
    Intervals = {0, 1}
INVARIANTS MemorySafe TimersAreScheduled
PROPERTIES CancelledStaysQuiet EveryTimerFires
CHECK_DEADLOCK FALSE
