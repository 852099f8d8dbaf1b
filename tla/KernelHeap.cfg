SPECIFICATION HeapSpec
CONSTANTS
    MaxOrder = 2
    CacheSizes <- MCCacheSizes
    FrameSize = 8
    SlabHeader = 1
    PagePool = 1
    ObjCache = 2
    ObjRefill = 1
    Requests <- MCRequests
INVARIANTS ObjectsApart  MagicMeansSlab
