CONSTANTS
    CENT = 5
    MaxMint = 32
    MaxMintV10 = 19
    TargetLimit = 2000
    Targets <- MCTargets
    TargetOf <- MCTargetOf
    nIssuanceEpochLength = 144
    nIssuancePoWSplitBasisPoints = 5000
    fIssuanceCarryRemainder = TRUE
    PowLimit <- MCPowLimit
    RewardCoinYear = 3335
    YearNum = 1
    YearDen = 3
    InflationNum = 1
    InflationDen = 2
    CoinAges = {0, 4}
    Costs = {0, 1, 2}
    Mints <- MCMints
    Outputs = {0, 2}
    Fees = {0, 1}
    MaxOutputs = 2
    MaxHeight = 3
SPECIFICATION RewardSpec
INVARIANTS
    RewardIsRoot
    SplitExact
    ClaimsWithinBudget
    OwnBlockAllowed
PROPERTIES
    Returns
    CoinStakeEnds
