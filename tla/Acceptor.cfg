SPECIFICATION FairSpec
CONSTANTS
    Peers = {p1, p2, p3}
    MaxFd = 2
INVARIANTS ClosesOnlyItsOwn NothingLeaks SpareKept
PROPERTY PeersAnswered
