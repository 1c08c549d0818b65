SPECIFICATION LiveSpec
CONSTANTS
    Word = {"echo", "cat", "f", "g", "cd", "none"}
    Readers = {"cat"}
    Missing = {"none", "cd"}
    NPROC = 6
    NOFILE = 5
    NPIPE = 2
    MAXARGS = 3
    Scripts <- MCScripts
    LineName <- MCLineName
CHECK_DEADLOCK FALSE
INVARIANTS ParserIsGrammar WiredAsParsed Sequential
PROPERTIES ShellReturns
