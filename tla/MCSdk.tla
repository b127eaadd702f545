------------------------------- MODULE MCSdk -------------------------------
(***************************************************************************)
(* The arithmetic of a redemption, the SDK's ports and checks and the      *)
(* app's pages on small instances.  They share no state, so a behaviour    *)
(* exercises one, part.                                                    *)
(***************************************************************************)
EXTENDS RedeemSplits, Swaps, TLC

CONSTANTS
    MaxTrades, MaxElapsed, Amounts,      \* Trading
    MaxLength, MaxBytes, CodePoints, Odd,     \* ReservedNames
    Rates, Routing, MaxEvents,           \* TokenPage
    MaxDescription,                      \* CreateForm
    Multipliers, MaxTime,                \* QuoteAmounts, ChartSeries
    Prices, Interval, MaxCandles, MaxSwaps \* ChartSeries

\* What the issuer sets is positive; the page's prices have a largest.
ASSUME SdkAssumption ==
    /\ Multipliers \subseteq Nat \ {0}
    /\ Rates \subseteq Nat \ {0} /\ \E r \in Rates : \A q \in Rates : q <= r
    /\ MaxDescription \in Nat \ {0} /\ MaxTime \in Nat /\ MaxEvents \in Nat

VARIABLES
    part,
    cfg, pool, sold, damm, elapsed, trades,    \* Trading
    params, stage, checked, error,             \* LaunchConfigs
    name, nameStage, vetted,                   \* ReservedNames
    chain, purse, page, pending, presses, moves, \* TokenPage
    values, market, submit, uploaded, session, storage, \* CreateForm
    now, config, price, quoteVault, quoteSupply, seen, balance, typed, \* QuoteAmounts
    time, swaps, reading, body,                \* ChartSeries
    terms, launches, pools, positions          \* LaunchAccounts

Ratio(num, den) == [num |-> num, den |-> den]
Schedule(exponential, cliff, periods, frequency, reduction) ==
    [exponential |-> exponential, cliff |-> cliff, periods |-> periods, frequency |-> frequency,
     reduction |-> reduction]
Point(sqrtPrice, liquidity) == [sqrtPrice |-> sqrtPrice, liquidity |-> liquidity]

Market == INSTANCE Trading WITH
    Raises <- {[usd |-> 10, price |-> Ratio(5, 2), multiplier |-> Ratio(1, 1)],
               [usd |-> 13, price |-> Ratio(2, 1), multiplier |-> Ratio(1, 1)]},
    Guesses <- {100}, SupplyTarget <- 40, VaultShares <- {50}, DammFee <- 10,
    Ratios <- {Ratio(6, 5), Ratio(21, 20)},
    Curves <- {[start |-> 100, curve |-> <<Point(104, 40000), Point(110, 30000), Point(1024, 9000)>>]},
    Schedules <- {Schedule(FALSE, 10, 0, 0, 0), Schedule(FALSE, 30, 2, 1, 10), Schedule(TRUE, 40, 2, 1, 3000)}

\* What a client may ask for instead of the defaults.
Deviations ==
    [exitFee |-> {0, 500, 501}, quoteMint |-> {"other"}, feeClaimer |-> {"other"},
     leftoverReceiver |-> {"other"}, creatorMigrationFee |-> {1}, migrationFee |-> {0, 39, 40, 70, 71},
     threshold |-> {0, 1, 2, 3, 4, 19}, partnerLocked |-> {0, 50, 90}, partnerLiquidity |-> {10, 50},
     creatorLocked |-> {10}, creatorLiquidity |-> {50}, partnerVesting |-> {TRUE}, creatorVesting |-> {TRUE},
     lockedVesting |-> {{"frequency"}, {"cliffDuration"}, {"frequency", "cliffUnlockAmount"},
                        {"frequency", "amountPerPeriod", "numberOfPeriod"}, {"frequency", "numberOfPeriod"}},
     collectFeeMode |-> {1}, migrationOption |-> {0}, tokenType |-> {1}, fixedSupply |-> {TRUE},
     creatorTradingFee |-> {1}, baseFeeMode |-> {1, 2}, cliffFee |-> {2499999, 200000000, 200000001},
     schedule |-> {{"periods"}, {"periods", "frequency", "reduction"}}, minFee |-> {-1, 100},
     dynamicFee |-> {TRUE}, migratedCollectFeeMode |-> {1, 2}, migrationFeeOption |-> {2},
     migratedPoolFeeBps |-> {0, 99, 1001}, migratedBaseFeeMode |-> {1, 2, 3}, compoundingFeeBps |-> {100},
     marketCapScheduler |-> {TRUE}, migratedDynamicFee |-> {1}, firstSwapMinFee |-> {TRUE},
     tokenUpdateAuthority |-> {0, 3}, poolCreationFee |-> {1, 1000000}, tokenDecimal |-> {9, 10}]

Launches == INSTANCE LaunchConfigs
Names == INSTANCE ReservedNames
Page == INSTANCE TokenPage
Form == INSTANCE CreateForm
Quotes == INSTANCE QuoteAmounts WITH
    Unit <- 10, Scale <- 2, Worth <- 7, Asked <- 5, ExitFee <- 500, Ttl <- 1,
    Bought <- {[paid |-> 4, tokens |-> 1], [paid |-> 9, tokens |-> 2]},
    vault <- quoteVault, supply <- quoteSupply, page <- seen, form <- typed
Chart == INSTANCE ChartSeries WITH
    Offsets <- {0, 1}, MaxTrades <- MaxSwaps, MaxTime <- 4 * MaxTime, now <- time, trades <- swaps

Term(creator, base, quote) ==
    [creator |-> <<"key", creator>>, base |-> <<"key", base>>, quote |-> <<"key", quote>>]
Accounts == INSTANCE LaunchAccounts WITH
    Terms <- {[c \in {<<"config", 1>>, <<"config", 2>>} |->
                  IF c = <<"config", 1>> THEN Term("first", "token", "stock") ELSE Term("second", base, quote)] :
                 base \in {"token", "other"}, quote \in {"stock", "wrapped"}},
    Wallets <- {<<"key", "third">>}

splitVars == <<start, vault, supply>>
marketVars == <<cfg, pool, sold, damm, elapsed, trades>>
configVars == <<params, stage, checked, error>>
nameVars == <<name, nameStage, vetted>>
pageVars == <<chain, purse, page, pending, presses, moves>>
formVars == <<values, market, submit, uploaded, session, storage>>
amountVars == <<now, config, price, quoteVault, quoteSupply, seen, balance, typed>>
chartVars == <<time, swaps, reading, body>>
accountVars == <<terms, launches, pools, positions>>

\* A part that is not exercised stays as it began.
MCInit ==
    /\ part \in {"splits", "market", "configs", "names", "page", "form", "amounts", "chart", "accounts"}
    /\ part # "splits" => start = CHOOSE s \in [vault : Vaults, supply : Supplies, bps : FeeChoices] : TRUE
    /\ part # "market" => cfg = CHOOSE c \in Market!Configs : TRUE
    /\ part # "configs" => params = Launches!Standard
    /\ Market!Init /\ Launches!Init /\ Names!Init /\ Page!Init /\ Form!Init
    /\ Quotes!Init /\ Chart!Init /\ Accounts!Init /\ Init
    /\ part # "page" => chain.phase = "presale"
    /\ part # "form" => storage
    /\ part # "accounts" => terms[<<"config", 2>>] = Term("second", "token", "stock")
    /\ part # "amounts" => seen.multiplier = CHOOSE m \in Multipliers : TRUE

MCNext ==
    /\ UNCHANGED part
    /\ \/ part = "splits" /\ Next /\ UNCHANGED <<marketVars, configVars, nameVars, pageVars, formVars, amountVars, chartVars, accountVars>>
       \/ part = "market" /\ Market!Next /\ UNCHANGED <<splitVars, configVars, nameVars, pageVars, formVars, amountVars, chartVars, accountVars>>
       \/ part = "configs" /\ Launches!Next /\ UNCHANGED <<splitVars, marketVars, nameVars, pageVars, formVars, amountVars, chartVars, accountVars>>
       \/ part = "names" /\ Names!Next /\ UNCHANGED <<splitVars, marketVars, configVars, pageVars, formVars, amountVars, chartVars, accountVars>>
       \/ part = "page" /\ Page!Next /\ UNCHANGED <<splitVars, marketVars, configVars, nameVars, formVars, amountVars, chartVars, accountVars>>
       \/ part = "amounts" /\ Quotes!Next
          /\ UNCHANGED <<splitVars, marketVars, configVars, nameVars, pageVars, formVars, chartVars, accountVars>>
       \/ part = "chart" /\ Chart!Next
          /\ UNCHANGED <<splitVars, marketVars, configVars, nameVars, pageVars, formVars, amountVars, accountVars>>
       \/ part = "accounts" /\ Accounts!Next
          /\ UNCHANGED <<splitVars, marketVars, configVars, nameVars, pageVars, formVars, amountVars, chartVars>>
       \/ part = "form" /\ Form!Next /\ UNCHANGED <<splitVars, marketVars, configVars, nameVars, pageVars, amountVars, chartVars, accountVars>>

MCSpec ==
    /\ MCInit /\ [][MCNext]_<<part, splitVars, marketVars, configVars, nameVars, pageVars, formVars, amountVars, chartVars, accountVars>>
    /\ Page!Fairness /\ Form!Fairness

-----------------------------------------------------------------------------

\* TokenPage: a trade or a redemption pays what the page showed, and what is told of it
\* is what it paid.  CreateForm: what is launched is what the form shows, and its metadata
\* was taken by the route, which takes what the form lets pass.  QuoteAmounts: amounts are
\* not overstated, a threshold is worth what was asked, a loss stays within what was
\* told.  LaunchAccounts: what the SDK builds is accepted, and nothing accepted moves
\* what belongs to another launch.
ShownHolds ==
    /\ part = "page" =>
          Page!TypeOK /\ Page!NeverBelowShown /\ Page!OfferedIsOpen /\ Page!ToldIsReceived
    /\ part = "form" =>
          Form!TypeOK /\ Form!LaunchedAsShown /\ Form!UriResolves /\ Form!OnlyTheseAreRefused
    /\ part = "amounts" =>
          Quotes!TypeOK /\ Quotes!MaxIsHeld /\ Quotes!ThresholdAsked /\ Quotes!LossBound
    /\ part = "accounts" =>
          /\ Accounts!TypeOK /\ Accounts!RegisteredIsCanonical /\ Accounts!BuiltIsAccepted
          /\ Accounts!EveryPositionFound /\ Accounts!OnlyItsOwn

\* Trading: whoever holds tokens can sell them, whoever wants some is quoted a fair
\* price, and the curve pays for the pool and the floor that were promised.
\* ChartSeries: a chart draws every trade once, in order, up to the last price.
TradesHold ==
    /\ part = "market" => Market!TypeOK /\ Market!TradesSound
    /\ part = "chart" => Chart!TypeOK /\ Chart!LineHolds /\ Chart!EndsHold /\ Chart!CandlesHold

\* Trading, ChartSeries: a market that was paid for serves its traders and draws their
\* trades (TradesHold).  LaunchConfigs, ReservedNames: a launch that the SDK has built
\* the program never refuses later, both give the same verdict, and what is registered may
\* be listed.
\* TokenPage: a button that was pressed comes back, and a redemption that is open is
\* offered.  CreateForm: so does its button, and a retry uploads nothing.
NothingPaidInVain ==
    /\ [](TradesHold /\ Launches!PortsAgree /\ Launches!VaultShareKept
          /\ Names!TypeOK /\ Names!RegisteredIsListable)
    /\ Launches!NothingPaidInVain /\ Names!NoneStranded
    /\ Page!ButtonsComeBack /\ Page!RedeemGetsOffered
    /\ Form!RetryUploadsNothing /\ Form!FormComesBack
=============================================================================
