CONSTANTS
    cCount = 2
    Clients = {1, 2}
    tCount = 1
    Capacity = 2
    h1 = h1
    h2 = h2
    Cells = {h1, h2}
    MsgLen = 2
    RecvMax = 2
    Commands = {"CMD_LOGIN"}
    MsgBufSize = 3
    SendLen = 2
SPECIFICATION Spec
INVARIANTS
    CountOK
    RecvIsSafe
CHECK_DEADLOCK FALSE
PROPERTIES
    NewClientsTaken
