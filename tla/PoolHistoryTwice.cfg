\* events.ts on trades counted twice; every kind of transaction, no evictions.
CONSTANTS
    MaxSignatures = 3
    MaxTxPerRefresh = 2
    MaxEvents = 2
    MaxAttempts = 2
    Landing = {"create", "buy", "failedBuy", "harvest", "migrate", "migrateAndTrade", "harvestAndTrade", "trade"}
    MaxTxs = 4
    MaxEvictions = 0
SPECIFICATION Spec
INVARIANTS
    TradesDrawnOnce
