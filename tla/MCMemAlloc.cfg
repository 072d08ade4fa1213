SPECIFICATION Spec
CONSTANTS
    Procs = {p1, p2}
    Addrs = {a1, a2}
    Sizes = {2, 3, 4, 7}
    PAGE_SIZE = 2
    Wrap = 8
    MaxDrift = 1
    NoProc = NoProc
SYMMETRY ProcSymmetry
CHECK_DEADLOCK FALSE
INVARIANTS
    PoolExact
    LastCloseFrees
PROPERTY
    ReleaseSafe
