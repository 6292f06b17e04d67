SPECIFICATION MCSpec
CONSTANTS
    Base = 4
    ScalarSize <- MCScalarSize
    LenSize = 1
    DiscSize = 2
    MaxDecodeDepth = 4
    NonFinite <- MCNonFinite
    Computed <- MCComputed
    MaxBytes = 4
    MaxPayload = 4
    Request <- MCRequest
    DefaultPageSize = 2
    MaxPageSize = 3
    Chains <- PageChains
    Program = "program"
    Idl <- MCIdl
    IndexFailedTxs = FALSE
    IndexRange = 4
    MaxBuckets = 2
    BucketSize = 4
    MaxTypeResolutionDepth = 2
    Sanitize <- MCSanitize
    PgSize <- MCPgSize
    FilterValue = {0, 1, 7, 8}
    RetryMinDelay = 1
    RetryMaxDelay = 2
    RetryTimeout = 2
    MaxGetBlocksRange = 2
    MaxU64 = 4
    Produced = {0, 1, 3, 4}
    a1 = a1
    a2 = a2
    Account <- MCAccount
    Content <- MCContent
    Closed <- MCClosed
    DecodeAccount <- MCDecodeAccount
    Storable <- Extractable
    FetchBatch = 1
    WriteBatch = 1
    MaxSlot = 2
    MaxCalls = 2
INVARIANTS
    WalkServesEveryRow
CHECK_DEADLOCK FALSE
