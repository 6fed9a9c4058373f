SPECIFICATION Spec
CONSTANTS
    Conns = {c1, c2}
    Base = base
    w1 = w1
    w2 = w2
    Workers = {w1, w2}
    Pools <- NoneOrTwo
    UpOps = {"send"}
    MessageOps = {"send"}
    CompleteOps = {}
    ForeignOps = {}
    MaxData = 1
    MaxForeign = 0
SYMMETRY Symmetry
INVARIANTS AssertsHold DiesUnregistered UpAndDownOnce
