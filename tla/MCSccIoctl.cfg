SPECIFICATION Spec
CONSTANTS
    Procs = {p1, p2}
    Slots = {s1, s2}
    Owners = {o1, o2}
    NoOwner = NoOwner
SYMMETRY Symmetry
INVARIANTS
    AreasFreed
    Truthful
