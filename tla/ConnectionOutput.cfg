SPECIFICATION FairSpec
CONSTANTS
    Sizes = {0, 2}
    HighWater = 3
    MaxMessages = 3
INVARIANTS NothingOvertakes NothingDropped FullIsReleased
PROPERTIES EndFollowsShutdown ImplementsByteStream
CHECK_DEADLOCK FALSE
