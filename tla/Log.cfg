CONSTANTS
    p1 = p1
    p2 = p2
    p3 = p3
    b1 = b1
    b2 = b2
    b3 = b3
    b4 = b4
    d1 = d1
    d2 = d2
    Proc = {p1, p2, p3}
    InitProc = p1
    Block = {b1, b2, b3, b4}
    Data = {d1, d2}
    NoBuf = NoBuf
    NoBlock = NoBlock
    MAXOPBLOCKS = 2
    LOGBLOCKS = 4
    OPBLOCKS = 1
SPECIFICATION Spec
SYMMETRY Symmetry
VIEW Live
INVARIANTS NoPanic PinsBalanced SleeperHasWaker
PROPERTIES AtomicAcrossCrashes DurableAtReturn
