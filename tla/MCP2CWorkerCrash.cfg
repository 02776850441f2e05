CONSTANTS
    Outpoints = {o1, o2}
    Destinations = {m, x}
    Mine = {m}
    RewardAddresses = {None, x}
    Fees = {1}
    Threads = {t1}
    MAX_PENDING_CLAIMS = 1
    None = None
    MaxCalls = 2
    MaxCrashes = 1
    MaxSaveFailures = 0
SPECIFICATION HistorySpec
SYMMETRY Symmetry
INVARIANTS
    SavedStateLoads
    PayoutAuthorised
PROPERTIES
    SubmitsDurably
    ConnectsDurably
    ImplementsLedger
