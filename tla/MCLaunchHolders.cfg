\* Two holders trade on the curve, in the pool and in a foreign pool, give base
\* away and redeem; no faults.  u64 counters so small that harvests and redemptions
\* fill them.
CONSTANTS
    h1 = h1
    h2 = h2
    Holders = {h1, h2}
    Threshold = 20
    FeePercentage = 40
    ExitFeeBps = 200
    InitialSupply = 5
    CurveAmounts = {10}
    CurveBase = 2
    CurveFee = 1
    LpFees = {3}
    Gifts = {2}
    Seizures = {}
    Faults = {}
    U64Max = 3
    FixedPointOne = 64
    MaxCurveTrades = 3
    MaxLpFees = 3
    MaxGifts = 2
    MaxBaseGifts = 1
    MaxSeized = 0
SPECIFICATION Spec
SYMMETRY Symmetry
INVARIANTS
    TypeOK
    SupplyAccounted
PROPERTIES
    FloorNeverDecreases
    ReportedFloorNeverDrops
    OnlyRedemptionPays
    CountersOnlyGrow
