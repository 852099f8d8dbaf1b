SPECIFICATION Spec
CONSTANTS
    NProc = 3
    TlsValues = {"t1", "t2"}
INVARIANTS
    TypeOK
    FlowPreserved
    OwnKernelStack
    MarkedIffWaiting
