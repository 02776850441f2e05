CONSTANTS
    p = p
    q = q
    Txs <- MCTxs
    PayingCoinbases = {2}
    MaxBlockTxs = 2
    MaxHeight = 3
    MaxTips = 3
    recent_blocks = 2
    None = None
SPECIFICATION Spec
INVARIANTS
    CatalogMatchesTip
    SnapshotConsistent
PROPERTY ScanEnds
