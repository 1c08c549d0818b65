SPECIFICATION LiveSpec
CONSTANTS
    r1 = r1
    r2 = r2
    w1 = w1
    w2 = w2
    Reader = {r1, r2}
    Writer = {w1, w2}
    INPUT_BUF_SIZE = 2
    UINT = 4
    Typed = {"a", "cr", "eof", "kill", "bs", "dump", "nul"}
    RXFIFO = 1
    Workloads <- MCWorkloads
    BUF = 2
    WLEN = 3
    RLEN = {1, 2}
    Handler = Handler
    NoProc = NoProc
CHECK_DEADLOCK FALSE
INVARIANTS ReaderSleepsOnEmpty
PROPERTIES LineDiscipline WriterProceeds
