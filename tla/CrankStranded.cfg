\* crank.ts on the claimer's base account, while the platform account stays
\* frozen.
CONSTANTS
    h1 = h1
    c1 = c1
    Holders = {h1}
    Threshold = 20
    FeePercentage = 40
    ExitFeeBps = 200
    InitialSupply = 1
    CurveAmounts = {20}
    CurveBase = 1
    CurveFee = 1
    LpFees = {}
    Gifts = {}
    Seizures = {}
    Faults = {"platformDown"}
    U64Max = 1000
    FixedPointOne = 64
    MaxCurveTrades = 1
    MaxLpFees = 0
    MaxGifts = 0
    MaxBaseGifts = 1
    MaxSeized = 0
    Crankers = {c1}
    MinCurveFee = 1
    MinLpFee = 2
    MinBurn = 1
    MaxActions = 2
    ReadsMayFail = FALSE
    DirectCalls = FALSE
SPECIFICATION FairCrankSpec
PROPERTIES
    ClaimerBaseBurned
