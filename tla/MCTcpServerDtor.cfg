SPECIFICATION Spec
CONSTANTS
    Conns = {c1}
    Base = base
    w1 = w1
    w2 = w2
    Workers = {w1}
    Pools <- NoneOrOne
    UpOps = {}
    MessageOps = {"shutdown"}
    CompleteOps = {}
    ForeignOps = {}
    MaxData = 1
    MaxForeign = 0
INVARIANT DestructorAssertHolds
