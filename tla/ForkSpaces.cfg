SPECIFICATION Spec
CONSTANTS
    NFrames = 5
    NTables = 3
    NPages = 5
    ChunkPages = 2
    NObjects = 2
    MaxLen = 2
    ArenaBase = 3
    MaxTries = 2
    NProc = 3
    Images = {1}
    MaxBrk = 3
    Lens = {2}
    MaxOffset = 5
    Hints = {0}
    Workload = {"fork"}
INVARIANTS
    SpacesSeparate
CHECK_DEADLOCK FALSE
