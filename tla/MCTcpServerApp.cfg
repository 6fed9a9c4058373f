SPECIFICATION FairSpec
CONSTANTS
    Conns = {c1}
    Base = base
    w1 = w1
    w2 = w2
    Workers = {w1}
    Pools <- NoneOrOne
    UpOps = {}
    MessageOps = {"send", "shutdown"}
    CompleteOps = {"shutdown"}
    ForeignOps = {"send", "shutdown"}
    MaxData = 1
    MaxForeign = 2
INVARIANTS LoopAssertsHold ReadOnlyWhileKnown
PROPERTIES PeerGoneIsForgotten PeerGoneIsDestroyed
