SPECIFICATION VarSpec
CONSTANTS
    POOL_NUM = 7
    unitSize <- MCUnitSize
    Sizes <- MCSizes
    PoolUnits = {1, 2}
    MaxHeld = 2
INVARIANTS BestFit InUseIsHeld
PROPERTY SearchEnds
CHECK_DEADLOCK FALSE
