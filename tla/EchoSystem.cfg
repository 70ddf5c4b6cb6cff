CONSTANTS
    ClientNum = 2
    Clients = {1, 2}
    Capacity = 2
    ServerSock = 3
    Descriptors = {4, 5}
    MsgLen = 2
    RecvMax = 3
    SendMax = 3
    QueueMax = 1
    TotalLen = 4
    UShortMax = 7
SPECIFICATION Spec
INVARIANTS
    OnlySendBlocks
    Registered
PROPERTIES
    OnlyMutualWait
CHECK_DEADLOCK FALSE
