CONSTANTS
    b1 = b1
    b2 = b2
    b3 = b3
    d1 = d1
    d2 = d2
    Buf = {b1, b2, b3}
    Data = {d1, d2}
    NUM = 8
    UINT16 = 8
    NoBuf = NoBuf
    NoProc = NoProc
    Intr = Intr
SPECIFICATION Spec
SYMMETRY Symmetry
VIEW UpToRotation
INVARIANTS NoLostWakeup RequestNotLost
PROPERTIES DiskIsSynchronous
