CONSTANTS
    Threads = {t1, t2, t3}
    Policies = {p1}
    MAX_POLICIES = 2
    BOOTSTRAP_STARTS = 2
    BOOTSTRAP_INTERVAL = 1
    RECOVERY_INTERVAL = 2
    MaxTime = 0
    MaxToken = 2
    Tokens <- MCTokens
    NoReservation = NoReservation
SPECIFICATION FairAdmissionSpec
CHECK_DEADLOCK FALSE
INVARIANTS
    HeadHasDeadline
    AdmissionSound
PROPERTY
    JoinReturns
