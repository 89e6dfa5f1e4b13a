SPECIFICATION FairSpec
CONSTANTS
    Procs = {p1, p2}
    Ports = {A, B}
    Bits = {0, 1}
    MaxStarts = 2
    NoCall = NoCall
INVARIANTS TypeOK MutualExclusion SemaphoreIsKept
PROPERTIES OnlyTheBit LockIsGranted
CHECK_DEADLOCK FALSE
