SPECIFICATION FairSpec
CONSTANTS
    Channels = {c1, c2}
    Fds = {d1, d2}
    NoChannel = NoChannel
    NoFd = NoFd
    InitEventListSize = 1
INVARIANTS InterestListMirrorsChannels EpollCtlSucceeds
PROPERTY NoStarvation
