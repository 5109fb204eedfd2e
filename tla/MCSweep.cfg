SPECIFICATION Spec
CONSTANTS
    Holders = {alice}
    Treasuries = {t1}
    Resolvers = {r1}
    Peers = {t1}
    NoAddr = NoAddr
    MaxMarkets = 1
    MaxTime = 1
    MaxFees = 1
    MaxSets = 6
    MinSeed = 4
    MaxBatch = 2
    OracleRing = 2
    SeedChoices = {4}
    ProbChoices = {5000}
    CloseChoices = {1}
    AmountChoices = {2}
    LimitChoices = {9000}
    DeadlineChoices = {0}
    PauseChoices = {}
    NewTreasuries = {}
    NewResolvers = {}
    FeeChoices = {1000}
    ShareChoices = {0}
    HorizonChoices = {0}
    BreakerChoices <- NoBreakers
INVARIANTS
    ClosedHoldsNothing
