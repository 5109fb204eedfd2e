SPECIFICATION MCSpec
CONSTANTS
    Depth <- TheDepth
    Network = "net"
    ZeroSalt = "zero"
    MaxDecimals = 3
    MaxTwapSamples = 4
    MaxWeighted = 2
    Core = "core"
    Commands <- TheCommands
    Rules <- TheRules
    Envelopes <- TheEnvelopes
    Placeholder <- ThePlaceholder
    Committees = {1}
    Periods = {0, 2}
    MaxMarkets = 2
    MaxEpoch = 2
    Agents = {"alice", "bob"}
    Keys = {"k1", "k2"}
    Consumers = {"c1"}
    Hashes = {"h1", "h2"}
    Genesis = Genesis
    Actions <- TheActions
    MaxTraces = 3
    MaxNow = 2
    MaxKeys = 1
    MaxFlags = 2
    MaxPage = 2
    NoMarket = NoMarket
    Nobody = Nobody
    Configured = TRUE
    MaxTrades = 2
    Requests = {"r1", "r2", "r3"}
    MaxCrashes = 2
CHECK_DEADLOCK FALSE
INVARIANTS
    RevealedIsCommitted
    PrintedIsRevealable
    CompoundFlowsAreWhole
    ChainsAreComplete
    IndexesAgree
    SignaturesStayAttributable
PROPERTY
    BehavesAsPurchase
