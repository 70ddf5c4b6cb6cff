CONSTANTS
    ClientNum = 5
    ThreadNum = 2
SPECIFICATION MgrSpec
INVARIANTS
    ThreadsOwnClients
PROPERTIES
    StopEnds
CHECK_DEADLOCK FALSE
