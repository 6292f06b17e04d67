SPECIFICATION FairSpec
CONSTANTS
    s1 = s1
    s2 = s2
    s3 = s3
    Sig = {s1, s2, s3}
    n1 = n1
    n2 = n2
    n3 = n3
    n4 = n4
    Note = {n1, n2, n3, n4}
    SigOf <- MCSigOf
    SlotOf <- MCSlotOf
    DedupSize = 2
    PingInterval = 2
    PongTimeout = 1
    MaxFrames = 5
    MaxInFlight = 2
    MaxConnections = 2
INVARIANTS
    NoDuplicateInWindow
    DedupIsWindow
    ArrivalsAreDelivered
    CursorIsLargestParsed
    PongTimeoutIsReal
PROPERTIES
    ImplementsFeed
    SilenceIsNoticed
CHECK_DEADLOCK FALSE
