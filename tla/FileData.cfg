CONSTANTS
    f1 = f1
    f2 = f2
    Proc = {1, 2}
    File = {f1, f2}
    Inum = {1, 2, 3}
    FSSIZE = 6
    NMETA = 1
    BSIZE = 2
    NDIRECT = 1
    NINDIRECT = 2
    MAXOPBLOCKS = 6
    MAXN = 5
    Writes <- MCWrites
    Reads <- MCReads
    IP <- MCIP
    Appends <- MCAppends
SPECIFICATION Spec
INVARIANTS BitmapExact NoHoles WithinReservation
