CONSTANTS
    c = c
    d = d
    c2 = c2
    d2 = d2
    Client = Client
    Server = Server
    Client2 = Client2
    b1 = b1
    b2 = b2
    b3 = b3
    b4 = b4
    x1 = x1
    x2 = x2
    x3 = x3
    x4 = x4
    None = None
    Ends <- OneEnds
    Peer <- OnePeer
    SessionOf <- OneSession
    Setups <- BarrierSetups
    Buffers <- FourBuffers
    Addr <- AddrFour
    Size <- SizeFour
    WorkThreads = 3
    SpuriousWakeups = FALSE
    LossyDestroy = FALSE
SPECIFICATION FairSpec
INVARIANTS
    SyncSound
    QuietAtClose
    CleanGoodbye
PROPERTIES
    ClosedIsFinal
    EverySendOver
    CloseEnds
    DestructorReturns
CHECK_DEADLOCK FALSE
