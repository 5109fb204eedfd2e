SPECIFICATION TapeSpec
CONSTANTS
    Holders = {alice}
    Treasuries = {t1}
    Resolvers = {r1}
    Peers = {t1, r1}
    NoAddr = NoAddr
    MaxMarkets = 1
    MaxTime = 3
    MaxFees = 0
    MaxSets = 11
    MinSeed = 4
    MaxBatch = 2
    OracleRing = 2
    SeedChoices = {5}
    ProbChoices = {5000}
    CloseChoices = {3}
    AmountChoices = {2}
    LimitChoices = {9000}
    DeadlineChoices = {2}
    PauseChoices = {}
    NewTreasuries = {}
    NewResolvers = {}
    FeeChoices = {0}
    ShareChoices = {0}
    HorizonChoices = {4}
    BreakerChoices <- Breakers
INVARIANTS
    ObserveIsExact
    BandHolds
    ViewsForetellTrades
