CONSTANTS
    c1 = c1
    c2 = c2
    c3 = c3
    Garbage = Garbage
    None = None
    Clients <- ThreeClients
    Crashers <- OneCrasher
SPECIFICATION FairSpec
INVARIANTS
    TypeOK
    Agreement
PROPERTIES
    AcceptedClientServed
    EveryClientServed
CHECK_DEADLOCK FALSE
