\* Listings of two signatures, one fetch per refresh, two events per pool: every
\* limit is reached.
CONSTANTS
    MaxSignatures = 2
    MaxTxPerRefresh = 1
    MaxEvents = 2
    MaxAttempts = 2
    Landing = {"create", "buy", "failedBuy", "migrate", "migrateAndTrade", "trade"}
    MaxTxs = 4
    MaxEvictions = 1
SPECIFICATION FairSpec
INVARIANTS
    TypeOK
    NothingLost
    FullChartIsFull
    FinalIsComplete
PROPERTIES
    CurveHistorySettles
