SPECIFICATION Spec
CONSTANTS
    HEAD = 2
    PACKAGE_MAX = 4
    RECV_BUF = 5
    Lengths = {2, 4, 6}
    Garbage = {0}
    MaxBytes = 10
INVARIANTS RoomForRecv CompleteDelivered
PROPERTIES ImplementsChannel ArrivedIsDelivered
CHECK_DEADLOCK FALSE
