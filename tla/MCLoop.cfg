CONSTANTS
    Chn <- LChn
    Node = {n1, n2}
    None <- LNone
    Order <- LOrder
    Source <- LSource
    NSEC_PER_MSEC = 2
    LOOP_TIMEOUT_DEFAULT = 1
    ECOUNT = 3
    MaxClock = 6
SPECIFICATION Spec
INVARIANTS TypeOK EpollExact BatchSafe Served ExitClean
