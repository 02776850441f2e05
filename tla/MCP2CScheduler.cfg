CONSTANTS
    Threads = {t1, t2}
    Bounties = {1, 2, 3}
    Domains = {1, 2}
    DomainOf <- MCDomainOf
    MaskOf <- MCMaskOf
    Reward <- MCReward
    Limit <- MCLimit
    Observations <- MCObservations
    MAX_MONEY = 3
    HIGH = 4
    LOW = 1
    MIN_P2C_EXPECTED_RETURN = 8
    MAX_PENDING_CLAIMS = 1
    DNS_REFRESH = 1
    Watched = 2
    None = None
    Policies = {p1, p2, p3}
    MAX_POLICIES = 2
    BOOTSTRAP_STARTS = 2
    BOOTSTRAP_INTERVAL = 1
    RECOVERY_INTERVAL = 2
    Tokens = {k1, k2}
    MaxTime = 5
    NoReservation = NoReservation
    SECOND = 2
    Rates <- MCRates
    MaxClock = 7
    MaxStarts = 7
SPECIFICATION SchedulingSpec
SYMMETRY Symmetry
INVARIANTS
    ScheduleSound
    NoDomainForgotten
    NextEnds
    FairTurn
    StartsPaced
    RateKept
    CadenceKept
