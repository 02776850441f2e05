CONSTANTS
    BITS = 12
    BYTE = 2
    powLimit = 960
    nPowTargetTimespan = 8
    DifficultyAdjustmentInterval = 2
    Blocks <- MCBlocks
    Genesis = "g"
    ChainOf <- MCChainOf
    NoBlock = NoBlock
    randomx_epoch_blocks = 2
    randomx_epoch_lag = 1
    commitment_period = 2
    redownload_buffer_size = 2
    m_max_commitments = 3
    m_minimum_required_work = 90
    InitialIndex <- MCInitialIndex
    HonestTip = "a6"
    HonestFirstTip = "a4"
    m_opts_max_headers_result = 2
    MaxRequests = 2
    OtherHeaders = {"a2"}
    Headers <- MCHeaders
SPECIFICATION Spec
CHECK_DEADLOCK FALSE
INVARIANT
    HeadersSound
PROPERTIES
    SyncStepSound
    HonestChainStored
