SPECIFICATION VfsSpec
CHECK_DEADLOCK FALSE
CONSTANTS
    LastCluster = 4
    RootSlots = 2
    SubSlots = 1
    Names = {"A", "B"}
    MaxLen = 2
    MaxFaults = 1
    MaxWrites = 5
    Workload = {"badread"}
    CacheSlots = 2
    MaxFd = 3
    MaxComps = 4
    PosMod = 9
    MaxCount = 1
INVARIANTS
    ReadsFaithful
    
    
    
    CwdRestored
PROPERTIES
    
    ImplementsTree
