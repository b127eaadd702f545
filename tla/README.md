# StockFloor in TLA+

StockFloor launches tokens with a *floor*: part of what a token raises is locked in
a vault, and any holder may burn tokens for a pro-rata share of that vault. The
repository holds the Solana program that owns the vault (`programs/stockfloor`), the
SDK with the crank that keeps a launch going (`packages/sdk`), a web application
(`app`) and operational scripts (`scripts`). This directory models the program, the
crank, the SDK's arithmetic and checks, the parts of the application that keep state,
and the scripts that move money. All of it is checked with TLC on small instances; the
program, the safety of the crank, the price history, the application's programs around
the chain, its pages and form, the SDK's instructions and its checks of a config, the send
guards, the funding and the guards of the demo run are also proved with TLAPS for every
value of the constants.

## 1. Inventory

### 1.1 The program (`programs/stockfloor/src`)

State: one `Launch` account per DBC config (`state.rs`): version, three one-way flags
(`migration_fee_harvested`, `surplus_harvested`, `migrated`), the registered pool, and
seven informational saturating counters. Token accounts: the *vault* (owned by a PDA
that signs only payouts), the *transit* (the claimer PDA's quote account, through which
version 3 splits go), the claimer's base account, the platform's and the creator's
quote accounts. The program reads, but does not own, the DBC `VirtualPool` and
`PoolConfig`, the DAMM v2 positions and the two mints.

Ten instructions, all callable by anyone except that `create_launch` needs the
creator's signature and `redeem` the holder's:

| instruction | effect |
| --- | --- |
| `create_launch` | validates the DBC config and creates the Launch (version 3) |
| `register_pool` | records the DBC pool, unless its name is reserved |
| `harvest_curve_fees` | partner curve fees: v3 to the platform or fail, v2 to the vault; burns the claimer's base |
| `harvest_migration_fee` | partner migration fee, once: platform 5% and creator 5% of the raise, rest to the vault |
| `harvest_surplus` | partner surplus, once, to the vault |
| `sync_migration` | latches "migrated" |
| `harvest_lp_fees` | LP fees of any claimer position: creator 50%, platform 20%, vault the rest; burns base |
| `burn_claimer_base` | burns base somebody sent to the claimer |
| `redeem` | burns base, pays `floor(V*A/S)` minus the exit fee |
| `floor` | read-only view |

Hard behaviours: anybody interleaves anything; the quote issuer can pause, freeze and
seize; a payee's account may be closed, frozen or refuse transfers, and must block
neither harvest nor redemption; quote may be donated to vault or transit at any time,
base to the claimer; fee, surplus and migration happen in any order; rounding
accumulates over redemptions; two layout versions live under one program.

What makes it correct: the floor never decreases, quote leaves the vault only to
redeemers at no more than their share, the promised floor is delivered, no quote is
lost, redemption opens and stays open.

### 1.2 The crank (`packages/sdk/src/crank.ts`, `launchState.ts`, `sender.ts`)

State of a run: the launch state read last, the set of failed action keys, the number
of transactions sent. `fetchLaunchState` reads in two to many requests; `planCrank`
lists what is due; `runCrank` sends the first action, reads again, and plans again. After an
error it plans from a fresh read: still due is *failed* (not tried again this run), no
longer due is *skipped*. Hard behaviours: other operators, keepers and callers act
between any two requests; a confirmation may be lost; an action may fail in every run.
What makes it correct: it converges, never gives up on what is not done, and nothing
that fails keeps something else from being done.

### 1.3 The chart history (`app/src/lib/chart/history.ts`)

State: per pool of a launch (the DBC curve and, after migration, the DAMM v2 pool) a
history: swap events, the newest signature listed, the signatures still to be fetched,
attempts per signature, and the flags `capped` (something is missing) and `final` (never
refresh again); per mint the last answer, a cached miss and a build in flight. A request
reads the launch, refreshes both histories by a bounded amount of RPC work, and answers
with what there is. Hard behaviours: the launch and the two listings are read at different
moments while trades and the migration go on; fetches fail, are retried and given up; every
list is cut at a limit; histories are evicted. What makes it correct: a chart that is not
marked partial shows everything, and nothing is lost between two listings unmarked.

### 1.4 Everything else

| component | state | interacts with | hard part | what makes it correct |
| --- | --- | --- | --- | --- |
| SDK arithmetic, DBC port, presets (`dbc/`, `damm/`, `presets.ts`, `trade.ts`) | none | DBC, DAMM v2 | roundings that must agree with the programs | whoever holds can sell, the promised floor is not overstated |
| config checks (`validateLaunch.ts`, `launch_config.rs`) | the launch on its way to the chain | DBC | two ports of one rule, judged at different moments | what the SDK passes is never refused after it was paid for |
| reserved names (`reservedNames.ts`, `reserved_names.rs`) | none | Metaplex | the rule exists twice, over strings and over bytes | both give one verdict, nothing is stranded |
| instruction builders | none | the programs | the account of another launch in one slot | what is built is accepted, nothing accepted moves what belongs to another launch |
| launch flow, app (`launch.ts`, `chainActions.ts`, `CreateLaunchForm`) | sessions, form, flow | chain, wallet | a lost confirmation, a late transaction, a reload | no step done twice unless it landed late, what is shown is true |
| launch flow, command (`create-launch.ts`, `launchSession.ts`) | session file | chain | dying between two steps | no keypair is lost, exit means complete |
| create form, upload route (`upload/`) | fields, upload, storage | HTTP | a retry after the form was edited | what is launched is what the form shows |
| flows and panels (`txFlow.ts`, the panels) | step status, pending flag | chain, wallet | a call that is overtaken and reports late | no spinner for ever, success only of what landed |
| token page (`TokenPanels`, `tradeQuote.ts`, `metrics.ts`) | last poll, calls | chain, RPC | the chain moves between poll and transaction | no less is received than was shown |
| launch directory (`launchState.ts`, `data/chain.ts`) | three caches | chain, gateway | interleaved requests that share caches; accounts that imitate | a mint's page shows the owner of its pool |
| amounts and multipliers (`math.ts`, `format.ts`) | none | issuer | a multiplier that switches between two reads | Max is held, a threshold is worth what was asked |
| chart series (`extract.ts`, `series.ts`) | none | the history | several trades in a second, two reads | the line is in order and draws all volume |
| price and cluster caches (`prices.ts`, `cluster.ts`) | cached answer, call in flight | HTTP, RPC | failed and late answers | staleness is labelled, failures are retried |
| faucet (`faucet/fund.ts`) | a queue | local network | read-modify-write over waits | balances add up |
| upload rate limiter, image check | windows per client | HTTP | window edges, full map, appended bytes | limits hold, nothing rides behind an image |
| send guard (`guard.ts`, `cli.ts`, `libfund.ts`) | the last look | RPC | the node behind the URL is replaced | real money moves only when asked for |
| funding (`c2/fund.ts`) | state file | chain, Jupiter | dying anywhere, stale reads, late swaps | nothing is sent or bought twice |
| demo run (`c2/run.sh`, `preflight.ts`, `checks.ts`) | state file, approval marker, deploy buffer | chain | dying anywhere, `--resume`, `--from`, rebuilt binaries | one approval, one run; what was rehearsed is deployed |
| events, errors, landing page, spike program, tests | none, or presentation | | | |

## 2. Plan

In the order of importance to holders, and written in this order: the program and the
promise it implements; the crank on top of it; the price history; the launch
transactions, on which the app and the command line rely; the other programs around
the chain; the operator's scripts. Components that share no state are composed by three
modules, `MCSdk`, `MCApp` and `MCOps`, whose behaviours exercise one component each
(`part`); components that do share state are one module (`Crank` extends
`StockfloorLaunch`, `AppLaunch` and `CliLaunch` extend `LaunchTxs`).

The abstract specifications: `FloorVault`, what holders are promised, which
`StockfloorLaunch` implements; and `TxFlow`, the reducer as the specification of what
a user is shown, which `AppLaunch` and `TxPanel` instantiate.

Everything planned is modelled and checked, and the safety of every run but
`sdk_arithmetic` is proved. Left are proofs about the pages, the curve arithmetic, the
config and the name checks of `MCSdk`.

## 3. Modules

### FloorMath

Operators for `math.rs` and the two fee functions of `external.rs`, over naturals. The
code computes products in u128 and converts back with checks; for amounts not above
the supply the results fit, so the errors for overflow are not modelled, while
`Redeemable` holds exactly when `compute_redeem` returns a quote (positive amount,
positive supply, amount within supply, valid fee, `net > 0`).

### RedeemSplits

A vault, a supply, and any sequence of `apply_redeem` with nothing flowing in.

### FloorVault

Three variables: `vault`, `supply`, `open`. `Issue` (mint once), `Fund` (vault up,
supply down, may open), `Pay` (open; base burned; at most the share), `Seize` (the
issuer). Redemption never closes.

### StockfloorLaunch

| variable | code |
| --- | --- |
| `launch` | the flags and version of `Launch`; version 0 = no account |
| `totals` | the counters of `Launch`, in `0..U64Max` |
| `dbc` | `VirtualPool`: reserve, partner fee, the two withdrawn flags, migration progress; `reservedName` stands for the metadata `register_pool` checks |
| `lp` | pending fees of claimer positions, one on the launch's pool, one on a foreign pool |
| `quote` | vault, transit, platform, creator; all wallets together |
| `bal`, `base`, `supply` | base of holders; of claimer, curve, DAMM pool; the mint |
| `faults` | what the issuer and payees have made impossible at present |
| `past` | history for stating conservation; read by guards only as a bound |

Each instruction is an action of its name; a transaction is atomic, so one whose checks
fail is simply not enabled. `Distribution` is `SplitAccounts::distribute`, `Deposit` the
transfers it makes, `CountersAfter` the saturating counters of every harvest,
`BurnAllSigned` the burn that ends a claim. `RedeemTo` has the post-condition
`floor_not_decreased` as a guard, as the code has; `RedeemKeepsFloor` proves that it
never refuses anything.

DBC, DAMM v2, holders, donors and the issuer are external: modelled from how the
program and its tests use them. `MigrateToDamm` lets any part of the unsold base go to
the pool; surplus is any amount up to what exceeds the threshold; a version 2 launch is
an initial state, as the present program makes only version 3.

A closed platform account (`platformClosed`) differs from a frozen one (`platformDown`)
in that anybody can open it again. The checks of `validate_launch_config` are in
`LaunchConfigs`; account delegates and close authorities after a CPI are not modelled.

### Crank

`crank[c]` is the local state of operator `c`: `pc` names the request it awaits, `view`
what it has read, `failed`, `action`, `threw` and `sent` the locals of `runCrank`. The Launch
account, then all other accounts of one slot, then the positions are separate steps, so a view
may mix several moments. `Due` is `planCrank` with `PlanOrder` for its order; `Decide`
joins the bookkeeping after a fetch with the choice of the next action, since nothing
else happens between them. `SendConfirmed`, `SendUnconfirmed` and `SendFails` are the three
outcomes of `send`. `Instruction` is `buildCrankAction`; for version 3 `CurveFeesTx` first opens a
closed platform account, in the same transaction.

Actions keep what the plan tells apart: base fees on the curve are absent (the config
collects fees in quote only) and one position on the launch's own pool stands for all.
`minLpFeeBase`, `includeForeignPositions` and `skipMigration` have their default values.

### PoolHistory

| variable | code |
| --- | --- |
| `chain` | the kinds of the confirmed transactions that touch the launch's pools |
| `histories` | `PoolHistory` per pool; `EmptyHistory` when not in memory |
| `build` | the build in flight: what it waits for, the launch it read, the curve's history |
| `cache`, `missed` | the last answer and the cached miss, while fresh |

A transaction is its position in `chain`. It holds at most one swap, which is its event, and
has a slot of its own, so that a list of events is a set and the newest are the highest.
One refresh of one pool (`Listed`, then `Fetched`) is one step: signatures are listed
against the history of that pool only, nothing else writes it meanwhile (requests for a mint
share one build), and a transaction that lands between two pages is one that lands after
the refresh. Which transactions were tried before the deadline (a prefix of the batch) and
which of those missed is open. `Frozen` and the answer depend on the launch as `ReadLaunch`
saw it, not on the chain now; so does `EventsOf`, which keeps no event of the DAMM pool
while the launch has none. `Expire` is the end of any time to live, `Evict` the LRU at work
for other launches. `asOf` dates the launch that was read and is only compared by properties.

The model takes for granted that the RPC node's index of signatures does not lag behind the
accounts it serves, and never reorders confirmed transactions. The mock data source is left out.

### MCLaunch

Model values, the symmetry of holders, and `SupplyAccounted`, whose sum over holders is a fold of the
community modules.

### LaunchTxs, AppLaunch, CliLaunch

`LaunchTxs` has what the app and the command share: `chain` (per launch the Launch account, the
registered pool, how often the creator has bought), `plans` (what the launch was planned with: a set
of labels, of which `FirstOf` is sent next), `transit` (a transaction sent and not confirmed, which
lands late or expires), `late`, and a bound `faults`.

`AppLaunch` is `createLaunch` with the session map of the page (`sessions`), the form that keeps the
retry handle (`form`), the call in progress (`run`) and the flow (`flow`, by `TxFlow`). Preparing,
checking whether a step was already done, sending and giving up are separate steps; a reload loses
the memory and leaves the chain.

`CliLaunch` is `create-launch.ts`: the session file is written before anything is sent, a crash loses
the command and not the file, `--resume` plans anew, at another priority fee too (`resized`), from the creator's
balance, which counts as none when it cannot be read (`unread`). Its
operators are called `CliInit`, `CliNext` and so on, so that one module may extend both.

### TxFlow, TxPanel, TokenPage, CreateForm, LaunchDirectory

`TxFlow` has no variables: the reducer's events as operators on a flow. `TxPanel` is a panel with its
`busy` flag and the `calls` it has made; a call that was overtaken (`RedeemPanel` lets the amount be edited meanwhile) goes on
and reports to the same flow. `TokenPage` sets the calls against the poll: quotes are taken from the page's copy, the call
reads again before it signs, and others trade, harvest and graduate the launch in between; slippage is a
quarter, a price is a rate, a form's contents are chosen when its button is pressed. `CreateForm` has the fields
by what the properties tell apart (lengths for texts, one value for all that is invalid in a way), the upload with
its storage, and `createLaunch` as one call. `LaunchDirectory` is `resolveLaunchByBaseMint` and the list request,
which interleave and share the caches; `real` alone may own the pool, and which account is called so does not matter. A list
waits for the accounts, for the documents of images that are due, for the metadata accounts and for their documents, each of
them a step; a failure of the first or third read of its own fails it, and launches whose name imitates the brand (`imitations`) are taken out
at the end, by the name that was read: a launch without metadata goes by the start of its mint, which imitates nothing.

### ImageFiles, RateLimiter, PriceCache, ClusterCache, Faucet

Small modules with one hazard each. An image is a sequence of blocks. The limiter has the key windows, the
global window, the map's bound and its sweep. The price cache shares one refresh between its callers and labels
what it serves; the cluster cache probes in three reads, each of which another node may answer. The faucet
patches a balance and the mint's supply that it read several requests before.

### CurveMath, Swaps, Trading, LaunchConfigs, ReservedNames, LaunchAccounts, QuoteAmounts, ChartSeries

`CurveMath` and `Swaps` are operators: the fixed-point arithmetic with every rounding, at a resolution `One` that is
small; range checks of u64 and u128, dynamic fees, referrals and the creator's share of fees are left out. `Trading` is
a launch traded by anybody, from a preset's curve to the DAMM v2 pool. `LaunchConfigs` takes one set of
parameters through the SDK's checks, DBC's `create_config` and the program's `create_launch`: built as a whole launch
(`BuildLaunch`, which names the accounts itself), as parameters alone (`Build`, which leaves fee claimer, leftover receiver and quote mint
to the program, as `presets.ts:683` says), or without the SDK. The port itself takes what its caller knows as an argument (`SdkChecks(p, opts)`).
`ReservedNames` has code points numbered anew and a table of a few ranges; `SDK` and program fold and search on their own.
`LaunchAccounts` fills the slots of each instruction with the SDK's addresses or with those of another launch;
addresses are tuples of their seeds. In `QuoteAmounts` a raw unit keeps its worth while the issuer's multiplier changes;
floating point is left out. `ChartSeries` goes from trades to candles, in seconds and at a few prices.

### FundRun, C2Run, Preflight, SendGuards

`FundRun` is `fund.ts` step by step: what a step decides comes from balances that may be those before the last
transaction (`prev`), a swap is recorded before and after it is made, a run may die anywhere and is run again. Every transaction, one that fails on chain too, takes its base and
priority fee (`TxFee`) from the deployer, besides what it moves and the rent of the account it opens. One unit of SPYx is
worth one unit of SOL.

`C2Run` is `run.sh` with `--resume` and `--from`: `runs` are the run directories, each with its state file and with
what has landed of its steps, `marker` the version of the approval, `pass` the command that runs, `price` what Jupiter would
tell. A run is started asked or unasked (`Ways`: `--yes`, or a dry run without `--confirm`) and its later passes are like the first; an operator who
is asked skips what has landed, where nobody is asked the step is sent again. The amounts are planned once, at the price of the moment, and a price that has moved
(`Drifted`) stops every step that is sized by it, money moved or not; a price that cannot be read stops only a run that has moved none. SPYx is counted in
percent of the threshold, SOL in thousandths; what sales and redemptions bring is left out.

`Preflight` has the rows of the table and the deploy they are for: a binary is a sequence of bytes and is its own hash,
it is written into the buffer byte by byte, and may be rebuilt meanwhile. A later step takes from its wallet first and is recorded
after that (`RecordStep`); a pass that dies in between leaves it `unrecorded`, and then the row of its wallet may be NO-GO until the wallet is
topped up, or the buy is sent again by a pass that asks nobody. The deploy command and the loader are
external. At most one of the things the table looks at elsewhere is disturbed at a time.

`SendGuards` is the guard as three kinds of command use it: what was read when, and how long it is relied on. A blockhash
names the ledger it is of.

### MCSdk, MCApp, MCOps

Compositions of components that share no state. A part that is not exercised stays as it began, at one of its initial
states. Each property of a run is a conjunction over the parts, named for what the parts have in common.

## 4. Runs

| run | properties | question |
| --- | --- | --- |
| `launch_routing` | `QuoteConserved`, `CountersReconcile`, `FeeRouting`, `InitialFloorDelivered` | does quote go where it should under payee faults and donations? |
| `launch_holders` | `TypeOK`, `SupplyAccounted`, `FloorNeverDecreases`, `ReportedFloorNeverDrops`, `OnlyRedemptionPays`, `CountersOnlyGrow` | can holders, trading and redeeming, hurt each other, and what happens at the limit of the counters? |
| `launch_issuer` | `LatchesAgree`, `PromiseKept`, `RedemptionOpens` | does the promise survive the issuer, and can a payee keep redemption shut? |
| `crank_opens` | `RedemptionOpens`, `CrankConverges`, `NothingStranded` | is one crank enough, and is nothing left that could be collected? |
| `crank_world` | `CrankTypeOK`, `SkippedWasDone` | does a run stay within its limit, and may it forget what it skipped, whatever others do? |
| `chart_history` | `TypeOK`, `NothingLost`, `FullChartIsFull`, `FinalIsComplete`, `CurveHistorySettles` | may a chart be believed that is not marked partial, and does the curve's history settle? |
| `sdk_arithmetic` | `NoSplitBeatsOne`, `KeptFeeRaisesFloor`, `ShownHolds`, `NothingPaidInVain` | does any rounding, in redemptions or trades, take from those who stay; is what is shown what is signed; is what the SDK passes refused later? |
| `app_programs` | `MCTypeOK`, `BuysOnceUnlessLate`, `ShownHolds`, `UploadsGuarded`, `LaunchesComplete`, `FlowsTold`, `PricesHonest`, `ClusterKnown`, `FaucetServes` | do the programs around the chain survive retries, crashes, late answers and full maps? |
| `operations` | `SpendsOnlyNeeded`, `RunsGuarded`, `SendsGuarded`, `RunsComplete` | can a script that dies anywhere pay twice, and does it come to its end? |
| `crank_stranded` | `ClaimerBaseBurned` (violated) | crank.ts, "nothing is stranded" |
| `launch_rebuys` | `FinishedNotSentAgain` (violated) | types.ts, "finished transactions are not sent again" |
| `chart_twice` | `TradesDrawnOnce` (violated) | events.ts, "a trade is never counted twice" |

### What the three violations show

- `crank_stranded`. A planned curve-fee harvest suppresses the standalone burn, because
  it burns the account itself. While the platform account is frozen that harvest is
  planned and fails in every run, and base given to the claimer stays. With a payable
  platform account it is burned (`NothingStranded`).
- `launch_rebuys`. Before a step is sent again, `alreadyDone` asks the chain whether it has landed, but for
  the first buy it answers "no": there is no account to ask for. A first buy whose confirmation was lost and which
  landed is sent again by the retry. It takes a late transaction, and the model counts them: `BuysOnceUnlessLate`.
- `chart_twice`. Each history keeps the events of both pools, and the answer joins the two
  lists as they are. A transaction that touches the curve (it migrates or harvests it) and
  trades on the new pool is in both listings, so its trade is drawn twice, with twice its
  volume in the candle. Prices are not affected.

### Other differences between text and code

Found while modelling. Each is a definition of a module or a reservation in a property, so that the
passing runs do not claim what the text says.

- `redeem` refuses only the vault as its destination, so that the version 3 transit, which
  `docs/architecture.md:677` says is empty after every instruction, may be paid into; the next split sweeps it.
- A burn that leaves the plan because a harvest became due is recorded as "done concurrently" (`crank.ts:321-326`).
- A retry handle is gone after a reload and after an error before the session was looked up (`HandleKept`,
  `types.ts:123`); a command resumed at another priority fee may exit without the first buy (`ResumeSendsMissing`,
  `create-launch.ts:17-18`).
- What `RedeemPanel` shows after an edit is not always of the newest call (`FlowOfNewest`).
- The reference table of prices is served, too, when Jupiter answers and has no price for the mint
  (`ReferenceOnlyUnread`, `prices.ts:22-23`).
- A threshold is computed with the multiplier read last and a price read earlier: a switch between the two makes the
  launch as much too large or small as the switch (`ThresholdAsked`).
- A description with line breaks may pass the form and be refused by the route (`OnlyTheseAreRefused`).
- The runbook's "the missing transfers are sent" (`docs/c2-runbook.md:244`) does not hold after a stale read (`OnlyMissingSent`),
  and the deploy money may be dipped into by the rent of the holders' accounts and by the fees of the transactions after the swap
  (`NeverDipsBelow`, `fund.ts:1562`): `fund.ts:1099` lets the swap leave the minimum to the lamport, and the fee buffer of
  `libfund.ts:84` is only part of the plan. `DeployKept` says by how much.
- A balance that cannot be read counts as none (`create-launch.ts:118`), so that a resumed command may make a first buy
  again that landed (`BuysOnce` has this reservation).
- "One failed document must not hide a launch" (`chain.ts:240`) holds of the documents; a read of the metadata accounts that fails (`chain.ts:229`)
  fails the whole list, and imitations of the brand are on none (`impersonation.ts:8`): `OwnerFound` and `ImitationsUnlisted` say so.
- `validateLaunch.ts:9-11` wants to spare its caller a `create_launch` that is refused after the config was paid for; of parameters built
  without `buildLaunchTransactions` this holds but for the accounts (`NothingPaidInVain`).
- "Every failure leaves a resumable run" (`docs/c2-runbook.md:378`): a buy that landed unrecorded makes the
  preflight of the resume say NO-GO, or the phase guard of the second buy; a deployer funded with the documented 5.05 SOL
  has too little for the same row after the deploy, until it is topped up; `--from` with a step that is already done skips all
  that follow; a new run that is refused leaves a directory that `--resume latest` picks. `RunsComplete` therefore assumes an operator who
  names the run and tops up. A run whose price has left the plan for good cannot be completed at all before its last buy, not even after money has
  moved (`checks.ts:107`; `HeldUp`), unless `--max-price-drift-pct` or `--skip-price-guard` is given, which the abort names and the model leaves out.
- With `--yes`, and in a dry run without `--confirm`, nobody is asked at a resumed step (`run.sh:412-417`): a buy that landed unrecorded is
  sent again. `SentOnce` speaks of runs whose operator is asked; the rent of the program is paid once in either.
- A buffer of another authority or capacity blocks the deploy too, besides one with a different binary
  (`docs/c2-runbook.md:401`).

### Bounds

`Threshold = 20`, `FeePercentage = 40` are the smallest values for which each graduation
share is 1 and the vault's is positive (fee 8, split 1/1/6). One completing curve trade of 20
or 21 reaches or overshoots the threshold (surplus 0 or 1); the holders' run uses trades of 10 so
that both holders trade and can sell back. `InitialSupply` of 3 to 5 leaves two holders
tokens to redeem in several parts, with rounding in each and supply left on the curve. LP fees of 3 and 5
give every rounding case of the 50/20/30 split (5: 2/1/2; 3: 1/0/2). Gifts of 2, once, reach
vault or transit before or after any split. `U64Max = 1000` is never reached; in the
holders' run it is 3, which the first harvest passes. `MaxCurveTrades`, `MaxLpFees`, `MaxGifts`,
`MaxBaseGifts`, `MaxSeized` bound what comes from outside; the program's own
steps are unbounded. The crank runs use `MaxActions = 2`, so that a plan is longer than a run.
In `crank_world` the races come from direct callers, who may send any instruction at any
moment, a second operator's included. Wallets other than redeemers' are irrelevant, so two
holders suffice; they are symmetric (symmetry is used only in a run without liveness).

For the chart, `MaxSignatures = 2`, `MaxTxPerRefresh = 1` and `MaxEvents = 2` are reached by
four transactions (`MaxTxs`): a listing is cut, a backlog outlives a refresh and is cut, events are
dropped. `MaxAttempts = 2` allows one retry before a transaction is given up, and one
eviction empties either history between any two steps.

`MCSdk.cfg`: vaults smaller and larger than the supply; `One = 256` is coarse enough that every division of the
curve rounds, and trades of 1 and 9 cross a point of the curve, fill it, and complete it within `MaxTrades = 3`; fee
schedules of two periods run out within `MaxElapsed`. Up to two parameters deviate from the defaults at a time, to each side of
each limit. Names have six characters, one more than the reserved word as it is folded. Three presses or
moves of others around the token page reach a graduation between quote and call; one multiplier switch, now or later; two
swaps and two candles reach a gap, a shared second and a truncated range.

`MCApp.cfg`: two launches and three faults (a lost confirmation, its late landing and a reload in the middle), two for
the command; two presses of one button; a map of one key with windows of two, over five instants; three changes of a node;
two runs of the faucet; one read of the directory that fails, one mint whose name may imitate the brand, a gateway that may serve from the start; a file of four blocks, one more than a whole image.

`MCOps.cfg`: two wallets, one of which gets SPYx; a fee that is a fraction of the buffer, which is what the most transactions a
run can need cost (7); two prices that are too far from each other; each run asked or unasked from its first pass to its last; two run directories and two approvals, so that a used approval meets a
second run; wallets that begin with none, some or all of their SOL; a purse below the deploy money and one that just suffices to fund empty wallets, so that the deploy money is dipped into, and leaves enough for a second try with others; two faults, so that a resume is interrupted too; binaries that differ in length and in a zero in the middle; one
replacement of the node.

### Fairness

`FairSpec` assumes weak fairness of `RegisterPool`, `HarvestMigrationFee` and
`MigrateToDamm` only: they are permissionless and the crank (or Meteora's keeper for the
migration) sends each while it is due. Nothing is assumed of holders, donors, payees, the creator or the
issuer; that the issuer stops blocking is a premise of the property.

`FairCrankSpec` replaces that assumption by the crank: every operator keeps taking steps
(the crank is run in a loop), and a transaction the chain would accept, sent again and again, is
confirmed at some time (strong fairness of `SendConfirmed` per action kind). Keepers and
other callers owe nothing. `ReadsMayFail` is FALSE in the liveness run: an RPC
that fails every second read for ever keeps any client from finishing; in the safety
run reads may fail at any time.

`FairSpec` of `PoolHistory` assumes that somebody keeps looking at the chart (weak fairness of
`Request` and `Expire`), that a refresh that can run does (weak fairness of
`RefreshSomeDamm`), and, strongly fair, that a launch read again and again is read at some
time (`ReadLaunch`) and that a curve listed again and again is at some time listed with time
left to try a transaction (`FetchCurve`). Nothing is assumed of the fetches: every one may
fail, and the attempts then run out. Without requests nothing is refreshed at all, by design.

The app and the command: a call that can go on does (weak), somebody presses Retry on a failed form, and a launch whose
command failed is resumed (strong, because a resume may be killed again; the faults are bounded). An open page polls and its calls
end; requests to the directory end and time passes; uploads and the call of `createLaunch` end; Jupiter answers at
some time if it is asked again and again (strong); a probe of the cluster ends; each run of the faucet goes on. Nothing is assumed of
users otherwise.

The scripts: a command that runs goes on, a preflight is run again; the operator resumes the run on the right
cluster and tops up what a row misses (strong: the need may come and go; nothing is assumed of the price, so that a run held up by it is exempt), closes a refused buffer, rehearses
a binary that was rebuilt; a pause of the mint ends. In `MCOps` these hold for the part that is exercised; a part that is
not has no step to be fair to.

Deadlock checking is off in `sdk_arithmetic`, `app_programs`, `operations` and `launch_rebuys`: a run of redemptions, a command
and a request come to their end.

## 5. Proofs

All theorems hold for every value of the constants that the named assumptions admit (`SplitsAssumption`, `SdkAssumption`,
`LaunchAssumption`, `HistoryAssumption`, `LaunchTxsAssumption`, `AppAssumption`, `OpsAssumption`, `FundAssumption`): any finite sets of
holders, launches, keys and wallets, any
amounts, any bounds on faults and runs, any subset of the faults, any limits of the chart service and the rate
limiter, any binaries. The assumptions say what
the code's types say: amounts are naturals, fees are within 10,000 basis points, bounds are numbers. `FundAssumption` adds that a swap of the
test size brings something however much it slips, as the code's slippage of a few percent does; `AppAssumption`, that a
price is labelled no earlier than it is read again (`ttlMs` is 30 seconds, `STALE_AFTER_MS` 5 minutes: without it a price served from the
cache could be older than the label allows), and that the limit and the window of the rate limiter are positive; `SdkAssumption`,
that multipliers and rates are positive and that the rates have a largest.

| module | theorem | statement |
| --- | --- | --- |
| `Arithmetic_proofs` | `RedeemKeepsFloor` | a redemption `compute_redeem` accepts pays at most the share and keeps the floor |
| `MCSdk_proofs` | `SplitsNeverWin` | `Spec => [](TypeOK /\ FloorOutlastsRun /\ NoSplitBeatsOne)` |
| | `KeptFeeTheorem` | `Spec => KeptFeeRaisesFloor` |
| | `SplitsImplemented` | `MCSpec => Spec`: the composition implements `RedeemSplits`, hence `SplitsAmongParts` |
| | `ShownTheorem` | `MCSpec => []ShownHolds` |
| | `PortsTheorem` | of `NothingPaidInVain`: `[](Launches!PortsAgree /\ Launches!VaultShareKept)`, `Launches!NothingPaidInVain` |
| | `RetryTheorem` | of `NothingPaidInVain`: `Form!RetryUploadsNothing` |
| `StockfloorLaunch_proofs` | `TypeInvariant`, `LatchesInvariant` | `Spec => []TypeOK`, `[]LatchesAgree` |
| | `FloorTheorem`, `ReportedFloorTheorem` | `Spec => FloorNeverDecreases`, `ReportedFloorNeverDrops` |
| | `PaymentTheorem` | `Spec => OnlyRedemptionPays` |
| | `PromiseTheorem` | `Spec => PromiseKept` (the refinement of `FloorVault`) |
| | `ConservationTheorem`, `ReconcileTheorem` | `Spec => []QuoteConserved`, `[]CountersReconcile` |
| | `RoutingTheorem` | `Spec => []FeeRouting` |
| | `SupplyTheorem` | `Spec => []SupplyAccounted` |
| | `CountersTheorem`, `GraduationTheorem` | `Spec => CountersOnlyGrow`, `[]InitialFloorDelivered` |
| `Crank_proofs` | `CrankTypesTheorem` | `CrankSpec => []CrankTypeOK` |
| | `SkippedTheorem` | `CrankSpec => []SkippedWasDone` |
| `PoolHistory_proofs` | `HistoryTypes` | `Spec => []TypeOK`, the limits on memory included |
| | `NothingLostTheorem`, `FullChartTheorem`, `FinalTheorem` | `Spec => []NothingLost`, `[]FullChartIsFull`, `[]FinalIsComplete` |
| `LaunchFlow_proofs` | `AppTypesTheorem`, `BuysTheorem`, `ShownTheorem` | `Spec => []TypeOK`, `[]BuysOnceUnlessLate`, `[]ShownIsTrue` of `AppLaunch` |
| | `CliTypesTheorem`, `OrphanTheorem`, `ExitTheorem`, `BuysOnceTheorem` | `CliSpec => []CliTypeOK`, `[]NothingOrphaned`, `[]ExitMeansComplete`, `BuysOnce` |
| `MCApp_proofs` | `TypesTheorem`, `ShownTheorem`, `UploadsTheorem` | `MCSpec => []MCTypeOK`, `[]ShownHolds`, `[]UploadsGuarded` |
| | `FlowsTheorem`, `OneBuyTheorem` | `MCSpec => FlowsTold`, `[]BuysOnceUnlessLate` |
| | `PricesTheorem` | the safety part of `PricesHonest`: `[]Prices!UnlabelledIsRecent`, `Prices!NeverOlder`, `Prices!ReferenceIsLast` |
| | `ClusterTheorem`, `SupplyTheorem` | the safety parts of `ClusterKnown`, `FaucetServes`: `[]Cluster!MainnetNeedsBoth`, `[]Fund!SupplyMatches` |
| `MCOps_proofs` | `GuardTypesTheorem`, `SendsTheorem` | `Spec => []TypeOK`, `[]SendsGuarded` of `SendGuards` |
| | `RunsTheorem` | `MCSpec => []RunsGuarded`, that is `C2Run!RunsGuarded` and `Preflight!Guarded` with the types of both |
| | `FundingTheorem` | `MCSpec => []SpendsOnlyNeeded`, that is `FundRun!SpendsOnlyNeeded` with its types |

*The launch.* The inductive invariant is `IInv == TypeOK /\ Latches`.
`TypeOK` alone is inductive, because every subtraction has a guard or is bounded by
arithmetic: `Net <= vault` and `platform + creator <= received` are lemmas of
`Arithmetic_proofs`. `LatchesAgree` is not inductive: that "migrated" implies a migrated
pool needs that a pool which left bonding exists and has a complete curve, and that
nothing is minted before the pool exists; `Latches` adds these. They are also what the refinement
needs: `CreatePool` maps to `Issue` only if the supply is still 0 and redemption is not open.

Every step is then summarised by one of four facts about vault, supply and history: quote came in
(`Inflow`), base was issued (`Issued`), a redeemer was paid (`Paid`), the issuer took
(`Taken`). The floor, payment and promise theorems follow from the summary without
looking at the actions again, and `ReportedFloorNeverDrops` from `QuotientMonotone`: the floor the program reports is the
same quotient, rounded down. `QuoteConserved` and `CountersReconcile` are preserved together
(`Books`), each harvest through the lemma that a distribution pays out exactly what was
received and swept; `FeeRouting` says of each counter what a distribution may have put there, case by case of the payees' faults.
`InitialFloorDelivered` needs that the vault's share is
`VaultAtGraduation` at least, whatever payees fail, and that the vault only shrinks by
seizures before the first redemption.

`SupplyAccounted` is a sum over all holders. What a sum over a finite set is, the library does not say, and its induction theorems
take an operator as a parameter. `Arithmetic_proofs` therefore derives induction in set form (`NatSetInduction`: a set of naturals with
0 and closed under successor holds them all) from `NatLessThanWellFounded`, and from it that a sum does not depend on the order of
its terms (`SumOrdered`), is a natural (`SumNat`), changes by as much as one term does (`SumChanged`), is taken term by term (`SumTogether`) and over parts that are
apart (`SumApart`), and grows with the set (`SumGrows`). The inductive invariant
is `Accounted`: the equation, with `DammEmpty`, that there is nothing in the DAMM pool before `MigrateToDamm` says what is.

*The splits.* `NoSplitBeatsOne` follows from the floor: `FloorOutlastsRun` bounds what
can have been paid, and `ProRataFloor` is the largest natural below that bound. `KeptFeeRaisesFloor` is strict: a fee of one raw unit
that stays outweighs the rounding.

*The SDK and the pages.* The invariant of `MCSdk` is `SdkInv`: the part that is exercised keeps its own invariant, the others stay as they
began.

- Token page: `NeverBelowShown` speaks of a transaction when it lands, the invariant of every call at every stage (`Sound`): a trade that is about to be
  sent has a minimum no lower than the one shown, and a redemption showed what it would pay at a floor that has only risen since. The copy on the page is
  an earlier chain, whose floor was no higher (`PageInv`); that the chain's only rises is `RedeemKeepsFloor` again.
- Form: while the form is locked its values are those of the upload and of the session (`LaunchShown`), the upload a retry needs is still the one that
  was stored (`UriKnown`), and what was stored the route has judged (`Judged`).
- Amounts: every bound is about one division and its remainder, so the lemmas are about `DivBounds`; that a multiplier may have been switched between
  reading and showing is in the invariant as the pair of the page's multiplier and that of the price.
- Accounts: addresses are tuples, so that two seeds give two addresses. `LaunchFits` says which accounts a Launch
  holds, and `AccountsInv` that two pools never share a base mint and two positions never an NFT; from it follow both directions, that what is built is accepted (one lemma per
  instruction) and that nothing that is accepted moves another launch's accounts (`MovesItsOwn`).
- Configs: `Verdicts` compares the two lists of checks one by one, the port's given all the program knows, for any parameters of the right types and not only for those the run deviates to; two
  lists that fail at the same places, with the same names, tell the same error (`SameError`), which needs the least element of a set of naturals
  (`LeastOf`). What the SDK has built passes each of its checks; of a whole launch the accounts are those the program asks for, and of parameters alone they are what
the program's first failing check can be about. `ShareKept` is the arithmetic of both roundings: the fee is at least 40% less a unit, the cuts at most 5% each.

*The crank.* `SkippedWasDone` is not inductive: an operator's view mixes moments. The invariant says that what a view shows as done
is done (`Sound`), that what made the action due still holds of the chain (`WasDue`), and that a view read after the action
threw shows that too (`Reread`); so if the action is no longer due, it is because it was done. That others may act between any two
requests is one lemma: whoever takes a step, the chain only goes on (`Onward`), and what a run relies on carries over.

*The chart.* The lemmas about `Newest` say that cutting a set at a limit keeps it within the
limit and changes nothing below it (`NewestWhole`, `NewestBounded`). With them, `ListedTracked` and
`FetchedTracked` say what one refresh does to one history: if it accounted for the swaps of
its pool, it still does, and for all those listed now. `FullChartIsFull` is not inductive: an answer joins a history read now with
one kept from the step before, so the invariant adds what the build in progress has been
told (`BuildOK`: the curve's history shows all curve trades up to `asOf`; with no DAMM pool
there are none of its trades up to `asOf`), and `FinalOK`, that a final history belongs to a migrated
curve, which takes no more trades.

*The launch flows.* `BuysOnceUnlessLate` is not inductive. A session that remembers its buy accounts for one; one that does not must have no buy on chain
but those that were late (`BuysAgree`); a first buy in the pool's own transaction lands as often as the pool, that is once. It needs that
a session remembers only what landed (`SessionsAgree`), that the run in progress belongs to a session (`RunAgrees`) and that only planned
transactions are under way (`PlannedOnly`). `ShownIsTrue` adds `FlowAgrees`: at each stage of a run the flow is exactly the plan
with the session's steps done. For the command, `CliAgrees` says that every planned transaction is on chain or still to be sent, unless the launch was
resumed at another fee, which gives `ExitMeansComplete`; a command that could read the balance does not plan a buy that is in the wallet, so that one that
buys again could not (`BuysOnce`); `PlansAgree`, that a file precedes everything on chain, gives `NothingOrphaned`.

*The programs around the chain.* The invariant of `MCApp` is `AppInv`, the conjunction of one inductive invariant for each part. The
parts share no state, so a step of one leaves the invariants of the others (`...Rests`) and keeps its own (`...Steps`). The exception is the clock,
which the rate limiter and the price cache both read: a tick of one is a tick of the other, so each invariant is also shown to
survive time that passes while its part rests; for the limiter this needs that nothing has been refused in a part that never ran
(`crowdedOut`). The launch flows come from `LaunchFlow_proofs` through the substitutions of `MCApp` (`Page`, `Flow`).

- Panels: `NoOrphanSpinner` is not inductive. What is not done of a trade that is shown as running is what its call has still to do
  (`TradeRuns`); between two transactions of a crank no step is active, and the call knows those that failed (`CrankRuns`), so that its end leaves nothing
  open; a redemption, whose call may be overtaken, has some call under way and one with its transaction ahead while the step
  is open (`RedeemRuns`). But for redemptions, at most the newest call is not over (`Lone`). `NeverBackwards` follows from what each event
  of the reducer does to a flow (`Onward`), whatever the call.
- Rate limiter: `BurstsBounded` speaks of every interval as long as the window, the invariant of every window: what was granted since its
  start is its count, and nothing as long before it had more than a limit less one (`WindowHolds`; `RestHolds` for a key without a window). An
  interval meets two windows at most, and the sums over it split there (`GotParts`, on `SumApart`). The sweep enters
  only because it drops windows that are over, and a map that refuses has just been swept (`SweepHolds`).
- Price cache: the refresh in flight began no earlier than the read that is cached, and what was served is no newer than it; so a later answer is
  never an older one.
- Cluster cache: what the probe has read is true of the node as long as it is not replaced, and an answer that allows sending without the switches
  is cached, so that no probe begins after it.
- Faucet: one run at a time is under way (`FundQueued`), and what it has read and patched is still so (`Told`): between its two writes the balances
  hold one more than the supply.
- Launch directory: only the account that owns the mint's pool is remembered for it, and each stage of a request keeps what it has found out
  (`PageServes`, `ListHolds`; once the metadata accounts have been asked for, what is summarised with a name is judged by it), while the launch may be created, get its pool and be registered between any two requests.
- Images: a file was well-formed first at its last block, or at its declared size.

The proofs led to changes of form in the models: `granted` of the rate limiter counts the grants per key and instant, what `runCrank`
sends is one operator (`CrankSends`), records of accounts and of a stored config are joined by comprehension (TLC's `@@` is opaque to the
provers), and what the SDK's fixed-point arithmetic and the chart promise is a part of `NothingPaidInVain` (`TradesHold`).

*The send guards.* `Probed` (what the probe has read so far is true of the node, unless it was replaced meanwhile), `Relied` (where
no further look is due, the last one holds, of the node or of the ledger of the blockhash) and `Cleared` (what the funding command found at its start).

*The demo run.* `SentOnce` needs that, where the operator is asked, a step which is about to be sent has not landed (`PassOK`), which rests on the prompt before each resumed
step and on an operator who answers it as the recovery notes say; that the rent was not paid while the program is absent (`RentOnce`); `OneRunPerMarker` needs that two runs never
hold the same approval, and that what was spent under an old one was spent by the run that holds it or a newer one since (`MarkersApart`). For the preflight,
`FoundByTable` keeps what GO has said true until the deploy ends: each byte of the buffer is the binary's or 0, the purse covers the cost, the image is
the local binary. From it follows, through `SequenceTheorems`, that the program deployed is the image followed by zeros (`DeployedIsLocal`). `WalletsTell` knows only
two balances a wallet may have, what it is supplied with and what its step leaves of it, and the first for certain while its step was not sent; with the
rows of steps that are recorded or still to be sent these are not NO-GO.

*The funding.* `SpendsOnlyNeeded` is not inductive in any of its four parts. That no wallet gets more than its target needs that what a run has
read to be missing still is when it is sent (`SolPlan`, `RunSpyx`). That all swaps together buy the shortfall and at most the excess of one (`NotOver`)
needs that the shortfall a run computed at its start is right until it begins to hand SPYx out (`run.needed + Given = Wanted`: giving moves from the
bag to the wallets what it adds to the sum), and that a swap is only for what the bag lacks of it; the equation is `MissingIsRest`, a sum of
differences, by `SumTogether`. The records are true because a stage is recorded as pending, with the bag before it, before its swap is
sent (`RecordsSo`); once the bag is being emptied the bag no longer tells, but then nothing is left to buy. The deploy money is kept
because the plan at the start sets aside all the SOL still to be sent and the rent of the bag (`SolServed`: a wallet served leaves that much
less to send), and a swap leaves it; only the holders' accounts and the fees paid are not in it (`KeptNow`, `KeptRoom`, `KeptLess`: whatever the transaction, the purse
has fallen by what it moved and one fee per transaction paid). How many fees that can be is a count over the stages (`Served`, `MostAt`, `Paying`): each wallet
is paid for once, each swap once, each holder twice, and the bag once. After a reading that was not the last only the types are kept.

Only model-checked:

- liveness, which is out of the prover's reach: `RedemptionOpens`, `CrankConverges`, `NothingStranded`, `CurveHistorySettles`, `RunsComplete`,
  the buttons and forms that come back in `NothingPaidInVain`, `RetryCompletes` and `ResumedUntilComplete` in `LaunchesComplete` (its third part, that the command buys once, is proved of
  `CliLaunch`), `ReadAgain` and `ImageComes` in `PricesHonest`, `NodePickedUp` in `ClusterKnown`, `EveryRunEnds` in `FaucetServes`;
- `TradesHold` in `NothingPaidInVain`: the curve's fixed-point arithmetic is about products and quotients of expressions that are not
  linear, summed by recursion over the curve's points, and the series is a recursion over the trades;
- what recursive functions and folds compute (the name rule in `NothingPaidInVain`, the candles of the chart): induction over data.

## 6. Not modelled

Byte layouts and their decoding, signatures; logs and events; compute budgets and priority fees other than their effect on a plan; account delegates
and close authorities after a CPI; dynamic fees, referrals and market-cap schedules; requests to Jupiter; retries of single requests
inside the RPC client; the build-time guard and the allowlist, which are checks of constants; reports, rehearsals and receipts of the scripts; texts, layout and the landing
page with its simulation; the spike program. `PROJECT.json` gives the reason for each component.

## 7. Running

```
tlc -workers 2 -config MCLaunchRouting.cfg MCLaunch
tlc -workers 2 -config MCSdk.cfg MCSdk
tlc -workers 2 -config MCOps.cfg MCOps
tlapm StockfloorLaunch_proofs.tla
tlapm MCApp_proofs.tla
tlapm MCSdk_proofs.tla
tlapm MCOps_proofs.tla
```
