SPECIFICATION Spec
CONSTANTS
    p1 = p1
    p2 = p2
    c1 = c1
    c2 = c2
    n1 = n1
    n2 = n2
    n3 = n3
    NULL = NULL
    Producers = {p1, p2}
    Consumers = {c1}
    Nodes = {n1, n2, n3}
    MaxPush = 4
INVARIANTS FrontIsNext PopAfterHasData
PROPERTIES ImplementsChannel
