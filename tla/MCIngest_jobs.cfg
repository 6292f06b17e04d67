SPECIFICATION MCSpec
CONSTANTS
    t1 = t1
    t2 = t2
    t3 = t3
    t4 = t4
    Tx = {t1, t2, t3, t4}
    TxSlot <- MCTxSlot
    FailedTx = {t2}
    UndecodableTx = {}
    IndexFailedTxs = FALSE
    MaxSlot = 3
    ChunkSize = 2
    ChannelCapacity = 1
INVARIANTS
    IngestTypeOK
    CheckpointBacked
    BackfillPrefixIndexed
    OkMeansCovered
    CountedRowsExist
PROPERTIES
    BackfillCheckpointAdvances
    JobsEnd
CHECK_DEADLOCK FALSE
