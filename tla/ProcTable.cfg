CONSTANTS
    NPROC = 3
    NCPU = 2
SPECIFICATION LiveSpec
INVARIANTS OneCpuPerProcess FreedStackIdle NoMissedExit
PROPERTIES ZombiesReaped
