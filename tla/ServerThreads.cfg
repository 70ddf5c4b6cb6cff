SPECIFICATION FairSpec
CONSTANTS
    Handlers = 2
    Descriptors = {3, 4}
    MaxConn = 3
INVARIANTS OwnDescriptor OnePlace WatchedAreClients TakenAreClosed OwnClientsSafe
PROPERTIES JoinIsServed CloseEnds
CHECK_DEADLOCK FALSE
