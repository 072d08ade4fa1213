SPECIFICATION Spec
CONSTANTS
    Procs = {p1, p2}
    Majors = {240, 254}
    MaxDebt = 1
    SCC_MAJOR = 240
SYMMETRY ProcSymmetry
CHECK_DEADLOCK FALSE
INVARIANT
    NodeRemoved
PROPERTY
    UnloadSafe
