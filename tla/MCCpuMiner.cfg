CONSTANTS
    MaxThreads = 2
    MaxNonce = 2
    MaxTip = 2
    MaxRound = 2
    MaxStarts = 2
SPECIFICATION FairSpec
INVARIANTS
    StatusTrue
    BlocksEarned
    NoncesCovered
PROPERTY
    MinerStops
