SPECIFICATION Spec
CONSTANTS
    Procs = {p, q}
    NFds = 2
    NSocks = 3
    SockQueue = 1
    SockBuf = 1
    NPaths = 1
    MaxIds = 4
    Workload = {}
INVARIANTS  StrangersOnlyAfterReuse PairsMutual
SYMMETRY Symmetry
CHECK_DEADLOCK FALSE
