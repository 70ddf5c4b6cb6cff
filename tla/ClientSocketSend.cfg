SPECIFICATION FairSpec
CONSTANTS
    s1 = s1
    s2 = s2
    SEND_BUF = 2
    LIMIT = 1
    Lengths = {1, 3}
    Senders = {s1, s2}
    MaxMsgs = 3
INVARIANTS StreamInOrder CopiesFront UnitsAccounted BacklogBounded
PROPERTIES FreedWhenCopied QueuedIsSent
CHECK_DEADLOCK FALSE
