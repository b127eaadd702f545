\* Two launches and three things that go wrong in the app, two for
\* the command; two presses of a button; a map of one
\* key and windows of two; three changes of a node; two runs of the faucet;
\* one read of the chain that fails; files of four blocks.
CONSTANTS
    MaxLaunches = 2
    MaxFaults = 3
    MaxCliFaults = 2
    MaxCalls = 2
    MaxSends = 3
    Keys = {"a", "b"}
    Limit = 2
    GlobalLimit = 3
    Window = 2
    MaxKeys = 1
    MaxTime = 5
    Ttl = 1
    StaleAfter = 2
    MaxChanges = 3
    Wallets = {"u", "v"}
    MaxRuns = 2
    MaxFailures = 1
    ImageRetry = 1
    MaxBlocks = 4
SPECIFICATION MCSpec
INVARIANTS
    MCTypeOK
    BuysOnceUnlessLate
    ShownHolds
    UploadsGuarded
PROPERTIES
    LaunchesComplete
    FlowsTold
    PricesHonest
    ClusterKnown
    FaucetServes
\* Calls, commands and requests end.
CHECK_DEADLOCK FALSE
