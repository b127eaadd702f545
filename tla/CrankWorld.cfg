\* One operator among direct callers; the platform account is closed or frozen at
\* times, LP fees accrue, reads fail.
CONSTANTS
    h1 = h1
    c1 = c1
    Holders = {h1}
    Threshold = 20
    FeePercentage = 40
    ExitFeeBps = 200
    InitialSupply = 1
    CurveAmounts = {20}
    CurveBase = 1
    CurveFee = 1
    LpFees = {3}
    Gifts = {}
    Seizures = {}
    Faults = {"platformClosed", "platformDown"}
    U64Max = 1000
    FixedPointOne = 64
    MaxCurveTrades = 1
    MaxLpFees = 3
    MaxGifts = 0
    MaxBaseGifts = 0
    MaxSeized = 0
    Crankers = {c1}
    MinCurveFee = 1
    MinLpFee = 2
    MinBurn = 1
    MaxActions = 2
    ReadsMayFail = TRUE
    DirectCalls = TRUE
SPECIFICATION CrankSpec
INVARIANTS
    CrankTypeOK
    SkippedWasDone
