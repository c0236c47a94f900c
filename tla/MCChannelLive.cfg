CONSTANTS
    A = A
    B = B
    a1 = a1
    a2 = a2
    a3 = a3
    b1 = b1
    None = None
    Msgs <- MsgsBothSides
    Requests <- RequestsBothSides
    WorkThreads = 2
    RecvDepth = 3
    Notices <- NoticesOneSided
SPECIFICATION FairSpec
PROPERTIES
    EveryRequestDelivered
CHECK_DEADLOCK FALSE
