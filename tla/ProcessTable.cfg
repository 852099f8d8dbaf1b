SPECIFICATION Spec
CONSTANTS
    NSlots = 5
    MaxPid = 4
    Workload = {"poll"}
INVARIANTS
    CurrentIsRunning
    ReadyCanResume
    CpuNeverLost
PROPERTY
    WaitReaps
