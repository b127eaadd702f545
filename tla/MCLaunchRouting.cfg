\* Where harvested quote goes: payee faults, donations, LP fees, both versions.
CONSTANTS
    h1 = h1
    Holders = {h1}
    Threshold = 20
    FeePercentage = 40
    ExitFeeBps = 200
    InitialSupply = 3
    CurveAmounts = {20, 21}
    CurveBase = 2
    CurveFee = 1
    LpFees = {5}
    Gifts = {2}
    Seizures = {}
    Faults = {"platformDown", "creatorDown"}
    U64Max = 1000
    FixedPointOne = 64
    MaxCurveTrades = 1
    MaxLpFees = 5
    MaxGifts = 2
    MaxBaseGifts = 0
    MaxSeized = 0
SPECIFICATION Spec
INVARIANTS
    QuoteConserved
    CountersReconcile
    FeeRouting
    InitialFloorDelivered
