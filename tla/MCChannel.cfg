CONSTANTS
    A = A
    B = B
    a1 = a1
    a2 = a2
    a3 = a3
    b1 = b1
    None = None
    Msgs <- MsgsOneSided
    Requests <- RequestsOneSided
    WorkThreads = 2
    RecvDepth = 3
    Notices <- NoticesOneSided
SYMMETRY Symmetric
SPECIFICATION Spec
INVARIANTS
    TypeOK
    IntactInOrder
    LocksAccounted
    NoLostWakeup
    ReceiverReady
PROPERTIES
    OutgoingStable
    BoundedOvertaking
    MailboxSpec
CHECK_DEADLOCK FALSE
