SPECIFICATION Spec
CONSTANTS
    SEND_BUF = 1
    SEND_LIMIT = 1
    RECV_LIMIT = 1
    MaxOut = 2
    MaxIn = 2
INVARIANTS AssertsHold
CHECK_DEADLOCK FALSE
