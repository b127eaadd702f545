\* Two wallets, one of which gets SPYx, and a fee that is a fraction of the plan's buffer:
\* 7 transactions at most.  Two run directories and two approvals; two things
\* that go wrong.  Three binaries, the longest two chunks longer than the shortest.  The node
\* behind the URL replaced once.
CONSTANTS
    N = 2
    Holders = {1}
    SolTarget = 3
    SpyxTarget = 4
    Purses = {3, 27}
    MinDeployer = 5
    AtaRent = 1
    TxFee = 1
    FeeBuffer = 7
    TestSize = 2
    Slack = 1
    Premium = 1
    Margin = 1
    Deployers = {5050}
    MaxRuns = 2
    MaxMarkers = 2
    MaxFaults = 2
    Binaries <- MCBinaries
    Block = 2
    Deposits = {345, 700}
    MaxChanges = 2
    MaxReplaced = 1
SPECIFICATION MCSpec
INVARIANTS SpendsOnlyNeeded RunsGuarded SendsGuarded
PROPERTY RunsComplete
\* Commands end.
CHECK_DEADLOCK FALSE
