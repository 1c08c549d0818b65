CONSTANTS
    r1 = r1
    w1 = w1
    w2 = w2
    a = a
    b = b
    NoProc = NoProc
    NoByte = NoByte
    Reader = {r1}
    Writer = {w1, w2}
    Byte = {a, b}
    PIPESIZE = 2
    UINT = 4
    MAXN = 2
SPECIFICATION LiveSpec
CHECK_DEADLOCK FALSE
INVARIANTS NoLostWakeup FreedUnused
PROPERTIES PipeIsFifo PeerCloseUnblocks
