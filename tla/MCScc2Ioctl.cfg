SPECIFICATION Spec
CONSTANTS
    Procs = {p1, p2}
    NoProc = NoProc
    Parts = {x1}
    Values = {v1, v2}
    Zero = Zero
INVARIANTS
    Untorn
    DmaFreed
PROPERTY
    Returned
