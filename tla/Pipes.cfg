SPECIFICATION Spec
CONSTANTS
    NProc = 2
    MaxFds = 3
    Std = 1
    NPipes = 1
    Cap = 1
    Wrap = 3
    Bytes = {x}
    MaxWrite = 1
    Flags = {FALSE}
    Workload = {}
INVARIANTS
    
    ReaderWaitsForAWriter
    

    
