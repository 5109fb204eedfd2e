SPECIFICATION MCSpec
CONSTANTS
    Depth <- BatchDepth
    VirtualShares = 2
    VirtualAssets = 1
    BucketSeconds = 2
    Buckets = 3
    CreationBuckets = 2
    Agents = {a1, a2, a3}
    FirstAgent = a1
    MaxAgents = 2
    MinDelay = 2
    NoPending = NoPending
    Genesis <- TheGenesis
    GenesisPrices <- TheBand
    GenesisCreation <- TheCreation
    MaxTime = 6
    Configs <- TheConfigs
    Policies <- ThePolicies
    PricePolicies <- TheBands
    CreationPolicies <- TheCreations
    Delays = {2, 3}
    Cores = {"core1", "core2"}
    Ids = {0, 1}
    MaxOpenMarkets = 2
    None = None
    Owners = {"admin", "bob"}
    Admin = "admin"
    Wallet = 30
    InitialIdle = 100
    MinDeposit = 20
    Drawdown <- TheDrawdown
    FeeBps = 500
    FeeShare = 5000
    MaxTickets = 2
    MaxYield = 32
    DepositChoices = {30}
    BurnChoices = {90}
    SeedChoices = {40}
    ProbChoices = {5000}
    CloseChoices = {3}
    BuyChoices = {20}
    SellChoices = {10}
    LimitChoices = {5000, 9000}
    OtherTrades = {40}
    YieldCaps = {30}
    YieldAmounts = {30, 31}
    PayChoices = {20}
    DrawdownChoices <- OtherDrawdowns
CHECK_DEADLOCK FALSE
SYMMETRY AgentSymmetry
INVARIANTS
    EveryReturnRecorded
