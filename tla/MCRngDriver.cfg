SPECIFICATION RngSpec
CONSTANTS
    Threads = {p1, p2}
    Files = {f1, f2}
    Ctxs = {c1, c2, c3}
    NoCtx = NoCtx
SYMMETRY Symmetry
CHECK_DEADLOCK FALSE
INVARIANTS
    ContextsExact
    BufferFreed
