SPECIFICATION Spec
CONSTANTS
    Threads = {t1, t2}
    Nodes = {n1, n2, n3}
    Blocks = {b1, b2, b3}
    Indices = {1, 2, 3}
    NULL = NULL
SYMMETRY ThreadsAlike
INVARIANTS TypeOK SortedUntilLost PlacesStay HeldIsAllocated
PROPERTIES FreedReadOnlyAfter ImplementsMap
CHECK_DEADLOCK FALSE
