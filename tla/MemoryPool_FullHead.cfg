SPECIFICATION Spec
CONSTANTS
    b0 = b0
    b1 = b1
    b2 = b2
    Blocks <- MCBlocks
    InitBlock = b0
    NULL = NULL
    USHRT_MAX = 65535
    InitUnitNum = 2
    GrowUnitNum = 2
    Payload = {0}
INVARIANTS FullHeadMeansAllFull
CHECK_DEADLOCK FALSE
