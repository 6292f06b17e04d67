SPECIFICATION Spec
CONSTANTS
    t1 = t1
    t2 = t2
    t3 = t3
    Tx = {t1, t3}
    TxSlot <- MCTailTxSlot
    FailedTx = {}
    UndecodableTx = {}
    IndexFailedTxs = FALSE
    MaxSlot = 4
    ChunkSize = 2
    ChannelCapacity = 1
    StartSlot = 1
    MaxFetchFailures = 0
    MaxDisconnects = 0
    MaxRestarts = 0
INVARIANTS
    HandoffLeavesNoGap
CHECK_DEADLOCK FALSE
