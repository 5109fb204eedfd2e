SPECIFICATION Spec
CONSTANTS
    Holders = {alice}
    Treasuries = {t1, t2}
    Resolvers = {r1, r2}
    Peers = {t2, r2}
    NoAddr = NoAddr
    MaxMarkets = 2
    MaxTime = 1
    MaxFees = 1
    MaxSets = 6
    MinSeed = 4
    MaxBatch = 2
    OracleRing = 2
    SeedChoices = {4}
    ProbChoices = {5000}
    CloseChoices = {1}
    AmountChoices = {2}
    LimitChoices = {9000}
    DeadlineChoices = {0}
    PauseChoices = {TRUE, FALSE}
    NewTreasuries = {t1, t2}
    NewResolvers = {r2}
    FeeChoices = {1000}
    ShareChoices = {10000}
    HorizonChoices = {0}
    BreakerChoices <- Breakers
ACTION_CONSTRAINT OneConcern
INVARIANTS
    SweepsReachFrozenRecipient
PROPERTIES
    ClosedPaysNothing
