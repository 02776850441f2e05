CONSTANTS
    Coins = {c1, c2}
    Contested = {c1}
    Addresses = {x, y}
    MaxTransactions = 2
    ALL = ALL
    RSA = RSA
    None = None
    Wallet = Wallet
    Probes <- MCProbes
    MaxActiveProbes = 1
SPECIFICATION Spec
CHECK_DEADLOCK FALSE
INVARIANTS
    CreationSound
    ReservationsSound
PROPERTIES
    UserLocksKept
    ImplementsBatch
    CommitsWhatWasShown
    CreationProceeds
    ReservationsReturn
