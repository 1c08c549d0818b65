CONSTANTS
    p1 = p1
    p2 = p2
    Proc = {p1, p2}
    NINODES = 4
    NINODE = 3
    MAXGROUP = 2
    Name = {"a", "b"}
    Calls <- MCCalls
SPECIFICATION Spec
INVARIANTS RefsBalanced TableIsCoherent NoLockCycle NoDanglingNames
PROPERTIES OrphansReclaimed
