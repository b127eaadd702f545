\* Vaults smaller and larger than the supply, where rounding bites, at exit fees of
\* 0, 2% and 5%; three trades on each venue; names of six characters, one of them odd;
\* three presses or moves of others around the token page; a multiplier that
\* switches once; a chart of two swaps and two candles.
CONSTANTS
    Vaults = {0, 1, 2, 3, 5, 7, 11, 12, 40}
    Supplies = {1, 2, 3, 4, 5, 6}
    FeeChoices = {0, 200, 500}
    One = 256
    MinSqrtPrice = 16
    MaxSqrtPrice = 1024
    FeeDenominator = 100
    MaxFeeNumerator = 99
    Amounts = {1, 9}
    MaxTrades = 3
    MaxElapsed = 2
    CodePoints = {0, 1, 26, 28, 31, 33}
    Odd = {0, 28}
    MaxLength = 6
    MaxBytes = 14
    Rates = {5, 7, 8}
    Routing = TRUE
    MaxEvents = 3
    MaxDescription = 2
    Multipliers = {1, 3}
    MaxTime = 1
    Prices = {1, 2, 3}
    Interval = 2
    MaxCandles = 2
    MaxSwaps = 2
SPECIFICATION MCSpec
INVARIANTS NoSplitBeatsOne ShownHolds
PROPERTIES KeptFeeRaisesFloor NothingPaidInVain
\* A run of redemptions ends when nothing is left to redeem, a client with its answer.
CHECK_DEADLOCK FALSE
