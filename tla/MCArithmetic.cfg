SPECIFICATION MCSpec
CONSTANTS
    MaxReserve = 12
    MaxAmount = 12
    FeeChoices = {0, 200, 1000}
    MaxLookback = 2
    MaxSamples = 3
    MaxInt = 200
    Period = 2
    Slots = {0, 1, 2, 3, 4}
    Prices = {0, 2, 5}
    MaxProofLen = 3
    MaxLevels = 3
    MaxLeaves = 5
    FirstName = 10
    Roots = {20}
    Constructor = 31
INVARIANTS
    NoRoundTripProfit
    SellSharesIsGreatest
    OracleReadsAreExact
    InclusionIsExact
    VersionsKeepPromises
