SPECIFICATION Spec
CONSTANTS
    NProc = 1
    MaxFds = 3
    Std = 1
    NPipes = 1
    Cap = 2
    Wrap = 4
    Bytes = {x, y}
    MaxWrite = 3
    Flags = {TRUE, FALSE}
    Workload = {"readv"}
PROPERTY
    ImplementsChannels
