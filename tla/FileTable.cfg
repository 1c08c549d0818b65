CONSTANTS
    p1 = p1
    p2 = p2
    Proc = {p1, p2}
    First = p1
    NFILE = 4
    NOFILE = 2
    Pipe = {1}
SPECIFICATION Spec
INVARIANTS RefExact PipeEndsExact
