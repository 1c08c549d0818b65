SPECIFICATION Spec
CONSTANTS
    p1 = p1
    p2 = p2
    Proc = {p1, p2}
    initproc = p1
    NPAGE = 17
    PGSIZE = 4
    FAN = 5
    LEVELS = 2
    USERSTACK = 1
    MAXARG = 3
    PTRSIZE = 1
    ALIGN = 2
    WORD = 7
    InitExec <- MCInitExec
    Execs <- MCExecs
    Calls <- MCCalls
    Budgets = {0, 1, 2, 3, 4, 5, 6, 7, 8, 9}
    Increments <- MCIncrements
    Stores = {18, 101}
VIEW
    UpToPageNames
CHECK_DEADLOCK FALSE
INVARIANTS PanicsOnlyPastTrapframe PagesOwnedOnce
PROPERTIES MemoryIsPrivate
