SPECIFICATION Spec
SYMMETRY HolderSymmetry
CONSTANTS
    Holders = {alice, bob}
    Treasuries = {t1}
    Resolvers = {r1}
    Peers = {t1, r1}
    NoAddr = NoAddr
    MaxMarkets = 1
    MaxTime = 3
    MaxFees = 3
    MaxSets = 7
    MinSeed = 4
    MaxBatch = 2
    OracleRing = 2
    SeedChoices = {4}
    ProbChoices = {6000}
    CloseChoices = {1}
    AmountChoices = {1, 2, 3}
    LimitChoices = {1000, 9000}
    DeadlineChoices = {0}
    PauseChoices = {}
    NewTreasuries = {}
    NewResolvers = {}
    FeeChoices = {1000}
    ShareChoices = {0}
    HorizonChoices = {1}
    BreakerChoices <- NoBreakers
INVARIANTS
    OpenBacked
    OutstandingCountsShares
    Solvent
PROPERTIES
    PaysWhatItClears
    ProductNeverFalls
