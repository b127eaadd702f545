------------------------------- MODULE MCApp -------------------------------
(***************************************************************************)
(* The programs around the chain on small instances.  They share no state, *)
(* so a behaviour exercises one of them, part.                             *)
(***************************************************************************)
EXTENDS AppLaunch

CONSTANTS
    MaxCliFaults,                                          \* CliLaunch
    MaxCalls, MaxSends,                                    \* TxPanel
    Keys, Limit, GlobalLimit, Window, MaxKeys, MaxTime,    \* RateLimiter
    Ttl, StaleAfter,                                       \* PriceCache
    MaxChanges,                                            \* ClusterCache
    Wallets, MaxRuns, MaxFailures,                         \* Faucet, LaunchDirectory
    ImageRetry,                                            \* LaunchDirectory
    MaxBlocks                                              \* ImageFiles

\* A price is labelled later than it is read again (ttlMs 30 s, STALE_AFTER_MS 5 min).
ASSUME AppAssumption ==
    /\ {MaxCliFaults, MaxCalls, MaxSends, GlobalLimit, MaxKeys, MaxTime, Ttl, StaleAfter} \subseteq Nat
    /\ {MaxChanges, MaxRuns, MaxFailures, ImageRetry, MaxBlocks} \subseteq Nat
    /\ {Limit, Window} \subseteq Nat \ {0} /\ Ttl <= StaleAfter
    /\ IsFiniteSet(Keys) /\ IsFiniteSet(Wallets)

VARIABLES
    part,
    cliChain, cliPlans, cliTransit, cliLate, cliFaults,
    files, cli, resized,                                   \* CliLaunch
    panel, busy, calls, shownFlow, overtaken,              \* TxPanel
    now, hits, global, lastSweep, granted, crowdedOut,     \* RateLimiter
    cached, begun, served, polling,                        \* PriceCache
    site, node, asked, probe, info, shown, steady, changes, \* ClusterCache
    balance, supply, runs, failures, disturbed,            \* Faucet
    stage, allowed, imitations, launchByMint, metadata, imageRetryAt, gateway, requests, misses, \* LaunchDirectory
    file, taken                                            \* ImageFiles

Cli == INSTANCE CliLaunch WITH
          chain <- cliChain, plans <- cliPlans, transit <- cliTransit, late <- cliLate, faults <- cliFaults,
          MaxFaults <- MaxCliFaults
Panel == INSTANCE TxPanel WITH flow <- shownFlow
Limiter == INSTANCE RateLimiter
Prices == INSTANCE PriceCache
Cluster == INSTANCE ClusterCache
Fund == INSTANCE Faucet
Directory == INSTANCE LaunchDirectory WITH served <- gateway, failures <- misses
Images == INSTANCE ImageFiles

Parts == {"app", "cli", "panel", "limiter", "prices", "cluster", "faucet", "directory", "images"}

cliVars == <<cliChain, cliPlans, cliTransit, cliLate, cliFaults, files, cli, resized>>
panelVars == <<panel, busy, calls, shownFlow, overtaken>>
limiterVars == <<hits, global, lastSweep, granted, crowdedOut>>
priceVars == <<cached, begun, served, polling>>
clusterVars == <<site, node, asked, probe, info, shown, steady, changes>>
faucetVars == <<balance, supply, runs, failures, disturbed>>
directoryVars == <<stage, allowed, imitations, launchByMint, metadata, imageRetryAt, gateway, requests, misses>>
imageVars == <<file, taken>>

MCInit ==
    /\ part \in Parts
    /\ Init /\ Cli!CliInit /\ Panel!Init /\ Limiter!Init /\ Prices!Init /\ Cluster!Init /\ Fund!Init
    /\ Directory!Init /\ Images!Init
    /\ part # "panel" => panel = "redeem"
    /\ part # "cluster" => node = "down" /\ site.loopback /\ site.flag /\ site.env
    /\ part # "faucet" => balance = <<>>
    /\ part # "directory" => allowed = Directory!Launches
    /\ part # "directory" \/ allowed # Directory!Launches => imitations = {}
    /\ gateway <=> imitations # {}
    /\ part # "images" => file.format = "png"

MCNext ==
    /\ UNCHANGED part
    /\ \/ part = "app" /\ Next
          /\ UNCHANGED <<cliVars, panelVars, now, limiterVars, priceVars, clusterVars, faucetVars, directoryVars, imageVars>>
       \/ part = "cli" /\ Cli!CliNext
          /\ UNCHANGED <<vars, panelVars, now, limiterVars, priceVars, clusterVars, faucetVars, directoryVars, imageVars>>
       \/ part = "panel" /\ Panel!Next
          /\ UNCHANGED <<vars, cliVars, now, limiterVars, priceVars, clusterVars, faucetVars, directoryVars, imageVars>>
       \/ part = "limiter" /\ Limiter!Next
          /\ UNCHANGED <<vars, cliVars, panelVars, priceVars, clusterVars, faucetVars, directoryVars, imageVars>>
       \/ part = "prices" /\ Prices!Next
          /\ UNCHANGED <<vars, cliVars, panelVars, limiterVars, clusterVars, faucetVars, directoryVars, imageVars>>
       \/ part = "cluster" /\ Cluster!Next
          /\ UNCHANGED <<vars, cliVars, panelVars, now, limiterVars, priceVars, faucetVars, directoryVars, imageVars>>
       \/ part = "faucet" /\ Fund!Next
          /\ UNCHANGED <<vars, cliVars, panelVars, now, limiterVars, priceVars, clusterVars, directoryVars, imageVars>>
       \/ part = "directory" /\ Directory!Next
          /\ UNCHANGED <<vars, cliVars, panelVars, now, limiterVars, priceVars, clusterVars, faucetVars, imageVars>>
       \/ part = "images" /\ Images!Next
          /\ UNCHANGED <<vars, cliVars, panelVars, now, limiterVars, priceVars, clusterVars, faucetVars, directoryVars>>

MCvars == <<part, vars, cliVars, panelVars, now, limiterVars, priceVars, clusterVars, faucetVars, directoryVars, imageVars>>

\* A part that is not exercised stays as it began, where none of these is enabled.
MCSpec ==
    /\ MCInit /\ [][MCNext]_MCvars
    /\ Fairness /\ Cli!CliFairness /\ Prices!Fairness /\ Cluster!Fairness /\ Fund!Fairness
    /\ Directory!Progress
    /\ \A r \in Directory!Requests : WF_directoryVars(part = "directory" /\ Directory!Begin(r))

-----------------------------------------------------------------------------

\* The type invariants of the parts.
MCTypeOK ==
    TypeOK /\ Cli!CliTypeOK /\ Panel!TypeOK /\ Limiter!TypeOK /\ Prices!TypeOK /\ Cluster!TypeOK /\ Fund!TypeOK
    /\ Directory!TypeOK

\* AppLaunch, CliLaunch: what is shown as done is on chain; the keypairs of what is on
\* chain are in a session file; a command that exits without an error leaves a
\* complete launch.  LaunchDirectory: a token page shows the launch that owns the mint's
\* pool, and does show it, and a list shows no imitation of the brand.
ShownHolds ==
    /\ ShownIsTrue /\ Cli!NothingOrphaned /\ Cli!ExitMeansComplete
    /\ Directory!OnlyOwnersShown /\ Directory!OwnerFound /\ Directory!ImitationsUnlisted

\* AppLaunch, CliLaunch: a launch that is retried or resumed is completed or dropped; the
\* command, too, buys once, but for a first buy that was sold again, landed after it was
\* given up, or could not be read.
LaunchesComplete == RetryCompletes /\ Cli!ResumedUntilComplete /\ Cli!BuysOnce

\* TxPanel: nothing is shown as running when every call has returned, success is shown
\* of transactions that landed, and a late callback moves no finished flow backwards.
FlowsTold ==
    /\ [](Panel!NoOrphanSpinner /\ Panel!SuccessIsTrue) /\ Panel!NeverBackwards

\* RateLimiter: no interval brings more than two limits, and a new key is refused for
\* want of room only for a window or two.  ImageFiles: nothing rides behind an image.
UploadsGuarded ==
    /\ Limiter!BurstsBounded /\ Limiter!RefusedOnlyWhileRecent
    /\ Images!NothingAppended

\* PriceCache: an old price is labelled, nobody is served an older read after a newer
\* one, the reference table does not replace what was read, and what is outdated is
\* read again.  LaunchDirectory: so is an image that was missing.
PricesHonest ==
    /\ []Prices!UnlabelledIsRecent /\ Prices!NeverOlder /\ Prices!ReferenceIsLast /\ Prices!ReadAgain
    /\ Directory!ImageComes

\* ClusterCache: without both switches nothing is sent to mainnet, and a node started
\* later is found.
ClusterKnown == []Cluster!MainnetNeedsBoth /\ Cluster!NodePickedUp

\* Faucet: balances add up to the supply, and a failed run does not block the queue.
FaucetServes == []Fund!SupplyMatches /\ Fund!EveryRunEnds

=============================================================================
