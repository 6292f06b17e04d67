SPECIFICATION MCSpec
CONSTANTS
    t1 = t1
    t2 = t2
    t3 = t3
    Tx = {t1, t3}
    TxSlot <- MCGapTxSlot
    FailedTx = {}
    UndecodableTx = {}
    IndexFailedTxs = FALSE
    MaxSlot = 3
    ChunkSize = 2
    ChannelCapacity = 1
    StartSlot = 1
    MaxFetchFailures = 1
    MaxDisconnects = 1
    MaxRestarts = 1
INVARIANTS
    TypeOK
    HandoverCovers
    CleanExitMeansShutdown
    IndexIsFinal
    RestartsLeaveNoHole
PROPERTIES
    CursorNeverRewinds
    ShutdownReachesJoin
CHECK_DEADLOCK FALSE
