SPECIFICATION FairSpec
CONSTANTS
    NSlots = 5
    MaxPid = 4
    Workload = {}
PROPERTY
    WaitReturns
