--------------------------- MODULE LaunchConfigs ---------------------------
(***************************************************************************)
(* The way of a launch's parameters to the chain: the SDK checks them      *)
(* against its ports of DBC's create_config and of the program's           *)
(* create_launch, DBC stores a config (and is paid for it), and only then  *)
(* create_launch judges what DBC stored.  Who builds the parameters alone  *)
(* names the accounts of the config, who builds a launch does not; whoever *)
(* does not use the SDK starts at DBC.                                     *)
(***************************************************************************)
EXTENDS Sequences, FiniteSets, FloorMath

CONSTANTS
    Deviations    \* field |-> other values it may have; bound: two fields deviate at once

VARIABLES
    params,   \* ConfigParameters, the accounts of create_config and the launch's exit fee
    stage,    \* "form", "built", "stored", "launched", "refused"
    checked,  \* what the SDK has built of them: "none", "params" or the "launch"
    error     \* the error of the check that refused them

configVars == <<params, stage, checked, error>>

\* What buildDbcConfigParams fills in, with a vault share of half; the accounts are
\* those create_launch wants: the quote mint of the "launch", its "claimer" PDA.
Standard ==
    [exitFee |-> 200, quoteMint |-> "launch", feeClaimer |-> "claimer", leftoverReceiver |-> "claimer",
     creatorMigrationFee |-> 0, migrationFee |-> 60, threshold |-> 1000, partnerLocked |-> 100,
     partnerLiquidity |-> 0, creatorLocked |-> 0, creatorLiquidity |-> 0, partnerVesting |-> FALSE,
     creatorVesting |-> FALSE, lockedVesting |-> {}, collectFeeMode |-> 0, migrationOption |-> 1,
     tokenType |-> 0, fixedSupply |-> FALSE, creatorTradingFee |-> 0, baseFeeMode |-> 0,
     cliffFee |-> 2500000, schedule |-> {}, minFee |-> 2500000, dynamicFee |-> FALSE,
     migratedCollectFeeMode |-> 0, migrationFeeOption |-> 6, migratedPoolFeeBps |-> 100,
     migratedBaseFeeMode |-> 0, compoundingFeeBps |-> 0, marketCapScheduler |-> FALSE,
     migratedDynamicFee |-> 0, firstSwapMinFee |-> FALSE, tokenUpdateAuthority |-> 1,
     poolCreationFee |-> 0, tokenDecimal |-> 6]

\* The first check that fails, or "none".
FirstError(checks) ==
    LET failed == {i \in DOMAIN checks : checks[i][2]}
    IN  IF failed = {} THEN "none"
        ELSE checks[CHOOSE i \in failed : \A j \in failed : i <= j][1]

-----------------------------------------------------------------------------

\* The parts of locked vesting, and of a liquidity vesting, that are not zero.
LockedVestingParts == {"amountPerPeriod", "cliffUnlockAmount", "numberOfPeriod", "frequency", "cliffDuration"}
TotalVests(parts) == "cliffUnlockAmount" \in parts \/ {"amountPerPeriod", "numberOfPeriod"} \subseteq parts

(***************************************************************************)
(* validateDbcConfigParams up to the curve: create_config's checks on the  *)
(* parameters, in its order.  What the port does not cover it refuses.     *)
(***************************************************************************)
\* schedule: the factors of the fee schedule that are not zero; minFee: what it ends at,
\* below 0 when a linear one underflows.
MinBaseFee(p) == IF p.schedule = {} THEN p.cliffFee ELSE SmallerOf(p.minFee, p.cliffFee)

\* The pool migrated to has a fee of its own with option 6 and none with another.
InvalidMigratedPoolFee(p) ==
    IF p.migrationFeeOption # 6
    THEN \/ p.migratedCollectFeeMode # 0 \/ p.migratedDynamicFee # 0 \/ p.migratedPoolFeeBps # 0
         \/ p.compoundingFeeBps # 0 \/ p.migratedBaseFeeMode # 0 \/ p.marketCapScheduler
    ELSE \/ p.migratedPoolFeeBps \notin 10..1000
         \/ p.migratedCollectFeeMode = 2 /\ p.compoundingFeeBps \notin 1..10000
         \/ p.migratedCollectFeeMode # 2 /\ p.compoundingFeeBps # 0
         \/ p.migratedDynamicFee > 1
         \/ p.migratedBaseFeeMode = 2
         \/ p.migratedBaseFeeMode < 2 /\ p.marketCapScheduler

DbcChecks(p) ==
    << <<"DeprecatedBaseFeeMode", p.baseFeeMode = 2>>,
       <<"InvalidBaseFeeMode", p.baseFeeMode > 2>>,
       <<"InvalidFeeScheduler", p.schedule \notin {{}, {"periods", "frequency", "reduction"}}>>,
       <<"MathOverflow", MinBaseFee(p) < 0>>,
       <<"InvalidFee", p.cliffFee >= 1000000000>>,
       <<"ExceedMaxFeeBps", MinBaseFee(p) < 2500000 \/ p.cliffFee > 990000000>>,
       <<"InvalidCreatorTradingFeePercentage", p.creatorTradingFee > 100>>,
       <<"InvalidMigratorFeePercentage",
         p.migrationFee > 99 \/ p.creatorMigrationFee > (IF p.migrationFee = 0 THEN 0 ELSE 100)>>,
       <<"InvalidCollectFeeMode", p.collectFeeMode > 1>>,
       <<"InvalidMigrationOption", p.migrationOption > 1>>,
       <<"InvalidMigrationFeeOption", p.migrationFeeOption > 6>>,
       <<"InvalidTokenType", p.tokenType > 1>>,
       <<"DeprecatedMigrationOption", p.migrationOption = 0>>,
       <<"InvalidCollectFeeMode",
         p.migrationFeeOption = 6 /\ p.migratedPoolFeeBps \in 10..1000 /\ p.migratedCollectFeeMode > 2>>,
       <<"InvalidMigratedPoolFee", InvalidMigratedPoolFee(p)>>,
       <<"UnsupportedByPort",
         p.migratedBaseFeeMode \in {3, 4} \/ p.partnerVesting \/ p.creatorVesting>>,
       <<"InvalidTokenAuthorityOption", p.tokenUpdateAuthority \notin {0, 1, 2}>>,
       <<"InvalidTokenDecimals", p.tokenDecimal \notin 6..9>>,
       <<"InvalidFeePercentage",
         p.partnerLocked + p.partnerLiquidity + p.creatorLocked + p.creatorLiquidity # 100>>,
       <<"InvalidQuoteThreshold", p.threshold = 0>>,
       <<"InvalidVestingParameters",
         p.lockedVesting # {} /\ ~("frequency" \in p.lockedVesting /\ TotalVests(p.lockedVesting))>>,
       <<"InvalidPoolCreationFee", p.poolCreationFee > 0 /\ p.poolCreationFee < 1000000>>,
       <<"InvalidMigrationLockedLiquidity", (p.partnerLocked + p.creatorLocked) * 100 < 1000>> >>

-----------------------------------------------------------------------------

\* What only the options tell, and what the program calls a config with other accounts.
ConfigAccounts == {"quoteMint", "feeClaimer", "leftoverReceiver"}
AccountErrors == {"QuoteMintMismatch", "FeeClaimerMismatch", "LeftoverReceiverMismatch"}

(***************************************************************************)
(* validateLaunchConfigParams: the SDK's port of the program's checks, on  *)
(* the parameters.  given: the options its caller passes; what is not      *)
(* given is not checked.                                                   *)
(***************************************************************************)
SdkChecks(p, given) ==
    << <<"ExitFeeTooHigh", "exitFee" \in given /\ p.exitFee > MaxExitFeeBps>>,
       <<"QuoteMintMismatch", "quoteMint" \in given /\ p.quoteMint # "launch">>,
       <<"FeeClaimerMismatch", "feeClaimer" \in given /\ p.feeClaimer # "claimer">>,
       <<"LeftoverReceiverMismatch", "leftoverReceiver" \in given /\ p.leftoverReceiver # "claimer">>,
       <<"CreatorMigrationFeeNotZero", p.creatorMigrationFee # 0>>,
       <<"MigrationFeePercentageOutOfRange",
         p.migrationFee \notin MinMigrationFeePercentage..MaxMigrationFeePercentage>>,
       <<"MigrationQuoteThresholdTooSmall", VaultAtGraduation(p.threshold, p.migrationFee) = 0>>,
       <<"LiquidityNotFullyPartnerLocked",
         p.partnerLocked # 100 \/ p.partnerLiquidity # 0 \/ p.creatorLocked # 0 \/ p.creatorLiquidity # 0>>,
       <<"LiquidityVestingNotAllowed", p.partnerVesting \/ p.creatorVesting>>,
       <<"LockedVestingNotAllowed",
         p.lockedVesting \cap {"amountPerPeriod", "cliffUnlockAmount", "numberOfPeriod"} # {}>>,
       <<"CollectFeeModeNotQuote", p.collectFeeMode # 0>>,
       <<"MigrationOptionNotDammV2", p.migrationOption # 1>>,
       <<"BaseTokenTypeNotSplToken", p.tokenType # 0>>,
       <<"FixedTokenSupplyNotAllowed", p.fixedSupply>>,
       <<"CreatorTradingFeeTooHigh", p.creatorTradingFee > 0>>,
       <<"CurveFeeTooHigh", p.baseFeeMode > 1 \/ p.cliffFee > 200000000>>,
       <<"DynamicFeeNotAllowed", p.dynamicFee>>,
       <<"MigratedCollectFeeModeNotQuote", p.migratedCollectFeeMode # 0>>,
       <<"MigratedPoolFeeInvalid",
         \/ p.migrationFeeOption # 6 \/ p.migratedPoolFeeBps # 100 \/ p.migratedBaseFeeMode # 0
         \/ p.compoundingFeeBps # 0 \/ p.marketCapScheduler>>,
       <<"MigratedDynamicFeeNotAllowed", p.migratedDynamicFee # 0>>,
       <<"FirstSwapWithMinFeeNotAllowed", p.firstSwapMinFee>>,
       <<"TokenUpdateAuthorityNotImmutable", p.tokenUpdateAuthority # 1>>,
       <<"PoolCreationFeeNotZero", p.poolCreationFee # 0>> >>

(***************************************************************************)
(* What DBC stores of the parameters, where it differs from them, and      *)
(* validate_launch_config on it.                                           *)
(***************************************************************************)
Stored(p) ==
    LET stored ==
            [vestings |-> {x \in {"partner", "creator"} :
                              IF x = "partner" THEN p.partnerVesting ELSE p.creatorVesting},
             fixedSupplyFlag |-> IF p.fixedSupply THEN 1 ELSE 0,
             dynamicFeeInitialized |-> IF p.dynamicFee THEN 1 ELSE 0,
             baseFeeBytes |-> IF p.marketCapScheduler THEN 1 ELSE 0,
             firstSwapFlag |-> IF p.firstSwapMinFee THEN 1 ELSE 0,
             liquidity |-> <<p.partnerLocked, p.partnerLiquidity, p.creatorLocked, p.creatorLiquidity>>]
    IN  [f \in DOMAIN stored \cup DOMAIN p |-> IF f \in DOMAIN stored THEN stored[f] ELSE p[f]]

ProgramChecks(c) ==
    << <<"ExitFeeTooHigh", c.exitFee > MaxExitFeeBps>>,
       <<"QuoteMintMismatch", c.quoteMint # "launch">>,
       <<"FeeClaimerMismatch", c.feeClaimer # "claimer">>,
       <<"LeftoverReceiverMismatch", c.leftoverReceiver # "claimer">>,
       <<"CreatorMigrationFeeNotZero", c.creatorMigrationFee # 0>>,
       <<"MigrationFeePercentageOutOfRange",
         c.migrationFee < MinMigrationFeePercentage \/ c.migrationFee > MaxMigrationFeePercentage>>,
       <<"MigrationQuoteThresholdTooSmall", VaultAtGraduation(c.threshold, c.migrationFee) = 0>>,
       <<"LiquidityNotFullyPartnerLocked", c.liquidity # <<100, 0, 0, 0>> >>,
       <<"LiquidityVestingNotAllowed", c.vestings # {}>>,
       <<"LockedVestingNotAllowed", ~(c.lockedVesting \subseteq {"frequency", "cliffDuration"})>>,
       <<"CollectFeeModeNotQuote", c.collectFeeMode # 0>>,
       <<"MigrationOptionNotDammV2", c.migrationOption # 1>>,
       <<"BaseTokenTypeNotSplToken", c.tokenType # 0>>,
       <<"FixedTokenSupplyNotAllowed", c.fixedSupplyFlag # 0>>,
       <<"CreatorTradingFeeTooHigh", c.creatorTradingFee > 0>>,
       <<"CurveFeeTooHigh", c.baseFeeMode > 1 \/ c.cliffFee > 200000000>>,
       <<"DynamicFeeNotAllowed", c.dynamicFeeInitialized # 0>>,
       <<"MigratedCollectFeeModeNotQuote", c.migratedCollectFeeMode # 0>>,
       <<"MigratedPoolFeeInvalid",
         <<c.migrationFeeOption, c.migratedPoolFeeBps, c.migratedBaseFeeMode, c.compoundingFeeBps,
           c.baseFeeBytes>> # <<6, 100, 0, 0, 0>> >>,
       <<"MigratedDynamicFeeNotAllowed", c.migratedDynamicFee # 0>>,
       <<"FirstSwapWithMinFeeNotAllowed", c.firstSwapFlag # 0>>,
       <<"TokenUpdateAuthorityNotImmutable", c.tokenUpdateAuthority # 1>>,
       <<"PoolCreationFeeNotZero", c.poolCreationFee # 0>> >>

-----------------------------------------------------------------------------

\* Parameters with up to two fields as ways says.
Deviating(ways) ==
    UNION {{[Standard EXCEPT ![f] = x, ![g] = y] : x \in ways[f], y \in ways[g]} : f, g \in DOMAIN ways}

Init ==
    /\ params \in {Standard} \cup Deviating(Deviations)
    /\ stage = "form" /\ checked = "none" /\ error = "none"

Advance(checks, next) ==
    /\ error' = FirstError(checks)
    /\ stage' = IF error' = "none" THEN next ELSE "refused"

\* buildDbcConfigParams: of the options it gives the exit fee, "fee claimer and leftover
\* receiver are checked against the claimer PDA by the program, not here".
Checked(p) == Advance(DbcChecks(p) \o SdkChecks(p, {"exitFee"}), "built")

\* Its caller names the accounts.
Build ==
    /\ stage = "form"
    /\ Checked(params)
    /\ checked' = "params" /\ UNCHANGED params

\* buildLaunchTransactions: the config's claimer PDA is both receivers, and one quote mint
\* goes to create_config and to create_launch.
BuildLaunch ==
    /\ stage = "form"
    /\ params' = [params EXCEPT !.quoteMint = "launch", !.feeClaimer = "claimer", !.leftoverReceiver = "claimer"]
    /\ Checked(params')
    /\ checked' = "launch"

\* DBC's create_config; what the port does not cover DBC may accept.
CreateConfig ==
    /\ stage \in {"form", "built"}
    /\ \/ Advance(DbcChecks(params), "stored")
       \/ FirstError(DbcChecks(params)) = "UnsupportedByPort" /\ Advance(<<>>, "stored")
    /\ UNCHANGED <<params, checked>>

CreateLaunch ==
    /\ stage = "stored"
    /\ Advance(ProgramChecks(Stored(params)), "launched")
    /\ UNCHANGED <<params, checked>>

Next == Build \/ BuildLaunch \/ CreateConfig \/ CreateLaunch

-----------------------------------------------------------------------------

\* "A preset that drifts from what the program accepts fails in the SDK instead of in
\* create_launch after the DBC config was paid for" (validateLaunch.ts): a launch that the
\* SDK has built is never refused later; parameters it has built alone are refused only for
\* the accounts their caller named, which it leaves to the program (presets.ts).
NothingPaidInVain ==
    [][checked # "none" /\ stage \in {"built", "stored"} /\ stage' = "refused" =>
          /\ checked = "params"
          /\ error' \in AccountErrors]_configVars

\* "Each failure carries the program's error name": of a config that DBC has stored, the
\* port, given what the program knows, and the program have the same verdict.
PortsAgree ==
    stage = "stored" =>
        FirstError(SdkChecks(params, {"exitFee"} \cup ConfigAccounts)) = FirstError(ProgramChecks(Stored(params)))

\* A launch has 30% of its raise for the vault, whatever the rounding of both splits.
VaultShareKept ==
    stage = "launched" => VaultAtGraduation(params.threshold, params.migrationFee) >= (params.threshold * 30) \div 100

=============================================================================
