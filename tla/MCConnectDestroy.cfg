CONSTANTS
    c1 = c1
    c2 = c2
    c3 = c3
    Garbage = Garbage
    None = None
    Clients <- TwoClients
    Crashers <- OneCrasher
SPECIFICATION Spec
INVARIANTS
    SessionOutlivesCallback
CHECK_DEADLOCK FALSE
