CONSTANTS
    Outpoints = {o1}
    Destinations = {m}
    Mine = {m}
    RewardAddresses = {None}
    Fees = {1}
    Threads = {t1, t2}
    MAX_PENDING_CLAIMS = 1
    None = None
    MaxCalls = 1
    MaxCrashes = 0
    MaxSaveFailures = 1
SPECIFICATION Spec
SYMMETRY Symmetry
PROPERTIES
    ConnectsDurably
