CONSTANTS
    Branches = {b1, b2}
    Keys <- MCKeys
    Threads = {}
    None = None
    MaxClock = 8
    MaxHeight = 6
    randomx_epoch_blocks = 3
    randomx_epoch_lag = 2
SPECIFICATION Spec
SYMMETRY Symmetry
INVARIANTS
    KeyAnnounced
PROPERTY CurrentDatasetKept
\* m_clock, and the tip with it, stop at MaxClock.
CHECK_DEADLOCK FALSE
