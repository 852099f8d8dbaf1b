SPECIFICATION FairSpec
CONSTANTS
    KeyBuf = 3
    RawBuf = 2
    MiceBuf = 2
    MaxX = 2
    MaxY = 2
    QSize = 16
    TxCount = 3
    Machines = {{"ps2"}, {"gpu"}, {"nic"}}
    Keys = {"c", "ctrl", "ctrl_up"}
    Flags = {8, 56}
    Moves = {1}
    MaxBytes = 5
    MaxPackets = 5
    Workload = {}
INVARIANTS  PacketsFramed AnswerIsOwn NoPacketOverwritten
 
