\* The issuer of the quote token pauses it, freezes vault and transit and seizes
\* quote from the vault; payees may never be payable; redemption must still open.
CONSTANTS
    h1 = h1
    Holders = {h1}
    Threshold = 20
    FeePercentage = 40
    ExitFeeBps = 200
    InitialSupply = 3
    CurveAmounts = {20}
    CurveBase = 2
    CurveFee = 1
    LpFees = {}
    Gifts = {2}
    Seizures = {2}
    Faults = {"paused", "vaultFrozen", "transitFrozen", "platformDown", "creatorDown"}
    U64Max = 1000
    FixedPointOne = 64
    MaxCurveTrades = 1
    MaxLpFees = 0
    MaxGifts = 2
    MaxBaseGifts = 0
    MaxSeized = 4
SPECIFICATION FairSpec
INVARIANTS
    LatchesAgree
PROPERTIES
    PromiseKept
    RedemptionOpens
