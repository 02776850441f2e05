CONSTANTS
    Keys = {k1, k2, k3}
    Threads = {t1, t2}
    None = None
    MaxClock = 3
SPECIFICATION CacheSpec
INVARIANTS
    OutstandingBuildsBounded
    HashUsesItsKey
PROPERTY
    EveryHashEnds
