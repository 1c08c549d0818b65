CONSTANTS
    p1 = p1
    p2 = p2
    p3 = p3
    c1 = c1
    c2 = c2
    b1 = b1
    b2 = b2
    b3 = b3
    d1 = d1
    d2 = d2
    Proc = {p1, p2, p3}
    Buf = {c1, c2}
    Block = {b1, b2, b3}
    Data = {d1, d2}
    NoProc = NoProc
    NoBuf = NoBuf
    NoBlock = NoBlock
    MAXPIN = 1
SPECIFICATION Spec
SYMMETRY Symmetry
INVARIANTS RefcntExact WaiterHasHolder
PROPERTIES CacheIsCells PanicsOnlyWhenFull
