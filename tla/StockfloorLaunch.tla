-------------------------- MODULE StockfloorLaunch --------------------------
(***************************************************************************)
(* One launch on chain: the Launch account and the ten instructions of the *)
(* stockfloor program, with the token accounts they move, and the parts of *)
(* the outside world they depend on: the DBC bonding curve pool, the DAMM  *)
(* v2 positions the launch earns fees from, the holders, and the issuer of *)
(* the quote token.                                                        *)
(*                                                                         *)
(* A transaction is atomic, so each instruction is one action; an          *)
(* instruction whose checks fail changes nothing and is a disabled action. *)
(* Anybody may send any instruction at any time, so there are no callers.  *)
(***************************************************************************)
EXTENDS FloorMath, FiniteSets

CONSTANTS
    Holders,          \* wallets that trade and redeem
    Threshold,        \* DBC migration_quote_threshold (raw quote)
    FeePercentage,    \* DBC migration_fee_percentage
    ExitFeeBps,       \* exit fee of the launch
    InitialSupply,    \* base tokens DBC mints when it creates the pool
    CurveAmounts,     \* quote amounts of a trade on the curve
    CurveBase,        \* base tokens such a trade moves
    CurveFee,         \* partner fee a curve trade leaves in DBC
    LpFees,           \* LP fees (quote) a DAMM v2 trade may leave
    Gifts,            \* quote amounts somebody may donate
    Seizures,         \* quote amounts the issuer may take from the vault
    Faults,           \* faults that may occur: subset of AllFaults
    U64Max,           \* largest value of the u64 counters
    FixedPointOne,    \* 1.0 as the floor view reports it (2^64 in the program)
    MaxCurveTrades, MaxLpFees, MaxGifts, MaxBaseGifts, MaxSeized   \* bounds of a run

Versions == {2, 3}
Progress == {"bonding", "lockedVesting", "createdPool"}
Positions == {"own", "foreign"}

\* paused: the mint is paused or has an active transfer hook.
\* vaultFrozen, transitFrozen: the issuer froze that token account.
\* platformClosed: the treasury closed its quote account; anybody may open it
\* again.  platformDown, creatorDown: that payee's quote account cannot be
\* paid (frozen, requires memos, refuses non-confidential credits; for the
\* creator also closed).
IssuerFaults == {"paused", "vaultFrozen", "transitFrozen"}
PayeeFaults == {"platformClosed", "platformDown", "creatorDown"}
AllFaults == IssuerFaults \cup PayeeFaults

ASSUME LaunchAssumption ==
    /\ IsFiniteSet(Holders)
    /\ Threshold \in Nat
    /\ FeePercentage \in 0..100
    /\ ExitFeeBps \in 0..BpsDenominator
    /\ InitialSupply \in Nat \ {0}
    /\ CurveAmounts \subseteq Nat \ {0}
    /\ CurveBase \in Nat /\ CurveFee \in Nat
    /\ LpFees \subseteq Nat /\ Gifts \subseteq Nat /\ Seizures \subseteq Nat
    /\ Faults \subseteq AllFaults
    /\ U64Max \in Nat \ {0} /\ FixedPointOne \in Nat
    /\ MaxCurveTrades \in Nat /\ MaxLpFees \in Nat
    /\ MaxGifts \in Nat /\ MaxBaseGifts \in Nat /\ MaxSeized \in Nat

VARIABLES
    launch,   \* the Launch account; version 0 while it does not exist
    totals,   \* its informational counters
    dbc,      \* the DBC VirtualPool of the committed base mint
    lp,       \* unclaimed DAMM v2 fees of the positions the claimer PDA holds
    quote,    \* quote tokens per account; "holders" is all wallets together
    bal,      \* base tokens of each holder
    base,     \* base tokens of the claimer PDA, the curve and the DAMM pool
    supply,   \* supply of the base mint
    faults,   \* faults present now
    past      \* history: what came in from outside, and how often

state == <<launch, totals, dbc, lp, quote, bal, base, supply>>
vars == <<launch, totals, dbc, lp, quote, bal, base, supply, faults, past>>

U64 == 0..U64Max

Launches == [version : {0} \cup Versions, registered : BOOLEAN,
             migrationFeeHarvested : BOOLEAN, surplusHarvested : BOOLEAN,
             migrated : BOOLEAN]
Counters == [harvestedQuote : U64, burnedBase : U64, redeemedBase : U64,
             redeemedQuote : U64, exitFees : U64, platformQuote : U64,
             creatorQuote : U64]
Pools == [exists : BOOLEAN, reservedName : BOOLEAN, reserve : Nat, trades : Nat,
          partnerFee : Nat, feeWithdrawn : BOOLEAN, surplusWithdrawn : BOOLEAN,
          progress : Progress]
PositionFees == [quote : Nat, base : Nat]
QuoteAccounts == [vault : Nat, transit : Nat, platform : Nat, creator : Nat,
                  holders : Nat]
BaseAccounts == [claimer : Nat, curve : Nat, damm : Nat]
Histories == [curveFees : Nat, taken : Nat, vaultGifts : Nat, transitGifts : Nat,
              baseGifts : Nat, seized : Nat, lpFees : Nat]

TypeOK ==
    /\ launch \in Launches
    /\ totals \in Counters
    /\ dbc \in Pools
    /\ lp \in [Positions -> PositionFees]
    /\ quote \in QuoteAccounts
    /\ bal \in [Holders -> Nat]
    /\ base \in BaseAccounts
    /\ supply \in Nat
    /\ faults \subseteq Faults
    /\ past \in Histories

-----------------------------------------------------------------------------
(* Checks and conversions shared by the instructions.                      *)

\* Mutants: a counter that overflows its width, one that wraps around.
SaturatingAddUnbounded(x, y) == x + y
SaturatingAddWrapping(x, y) == (x + y) % (U64Max + 1)

SaturatingAdd(x, y) == SmallerOf(x + y, U64Max)

FeeSplitEnabled == launch.version >= 3

QuoteMintTransferable == "paused" \notin faults
VaultNotFrozen == "vaultFrozen" \notin faults
TransitNotFrozen == "transitFrozen" \notin faults
PlatformPayable == faults \cap {"platformClosed", "platformDown"} = {}
CreatorPayable == "creatorDown" \notin faults

IsCurveComplete == dbc.reserve >= Threshold
IsMigrationComplete == dbc.progress = "createdPool"

\* Mutant: redemption counts as open only while the vault can pay.
RedeemOpenWhilePayable ==
    /\ launch.migrationFeeHarvested
    /\ launch.migrated \/ IsMigrationComplete
    /\ VaultNotFrozen

RedeemOpen ==
    /\ launch.migrationFeeHarvested
    /\ launch.migrated \/ IsMigrationComplete

LatchMigratedForgotten == UNCHANGED launch   \* Mutant: the latch is not stored.

LatchMigrated == launch' = [launch EXCEPT !.migrated = TRUE]

\* Mutant: the vault gets its own share and the sweep, but no unpaid share.
DistributionDropsUnpaid(received, split) ==
    IF FeeSplitEnabled
    THEN [platform |-> IF PlatformPayable THEN split.platform ELSE 0,
          creator |-> IF CreatorPayable THEN split.creator ELSE 0,
          transit |-> 0, vault |-> quote.transit + split.vault]
    ELSE [platform |-> 0, creator |-> 0, transit |-> quote.transit,
          vault |-> received]

\* What one harvest of `received` does to the quote accounts.  A v3 split
\* pays the payees that can be paid; the vault takes everything left in the
\* transit, so unpaid shares and quote that was there before are swept into
\* it.  A v2 harvest goes straight into the vault.
Distribution(received, split) ==
    IF FeeSplitEnabled
    THEN LET platform == IF PlatformPayable THEN split.platform ELSE 0
             creator  == IF CreatorPayable THEN split.creator ELSE 0
         IN  [platform |-> platform, creator |-> creator, transit |-> 0,
              vault |-> quote.transit + received - platform - creator]
    ELSE [platform |-> 0, creator |-> 0, transit |-> quote.transit,
          vault |-> received]

Deposit(d) ==
    quote' = [quote EXCEPT !.vault = @ + d.vault,
                           !.platform = @ + d.platform,
                           !.creator = @ + d.creator,
                           !.transit = d.transit]

\* Mutant: the vault counter takes what was received, not what the vault got.
CountersAfterGross(d, burned) ==
    [totals EXCEPT !.harvestedQuote = SaturatingAdd(@, d.vault + d.platform + d.creator),
                   !.platformQuote = SaturatingAdd(@, d.platform),
                   !.creatorQuote = SaturatingAdd(@, d.creator),
                   !.burnedBase = SaturatingAdd(@, burned)]

\* The counters after a harvest that paid d and burned `burned` base tokens.
CountersAfter(d, burned) ==
    [totals EXCEPT !.harvestedQuote = SaturatingAdd(@, d.vault),
                   !.platformQuote = SaturatingAdd(@, d.platform),
                   !.creatorQuote = SaturatingAdd(@, d.creator),
                   !.burnedBase = SaturatingAdd(@, burned)]

\* Mutant: only what was in the account before the claim is burned.
BurnAllSignedEarly(amount) ==
    /\ supply' = supply - base.claimer
    /\ base' = [base EXCEPT !.claimer = 0]

\* Burn `amount` more base tokens together with all the claimer holds; the
\* token program burns no more than there is.
BurnAllSigned(amount) ==
    /\ base.claimer + amount <= supply
    /\ supply' = supply - (base.claimer + amount)
    /\ base' = [base EXCEPT !.claimer = 0]

-----------------------------------------------------------------------------
(* Instructions.                                                           *)

\* The config checks that involve amounts; the rest of validate_launch_config
\* fixes the shape of the DBC config, which this module takes as given.
ConfigAccepted ==
    /\ ExitFeeBps <= MaxExitFeeBps
    /\ FeePercentage \in MinMigrationFeePercentage..MaxMigrationFeePercentage
    /\ VaultAtGraduation(Threshold, FeePercentage) > 0

CreateLaunch ==
    /\ launch.version = 0
    /\ ConfigAccepted
    /\ launch' = [launch EXCEPT !.version = 3]
    /\ UNCHANGED <<totals, dbc, lp, quote, bal, base, supply, faults, past>>

\* Mutant: the pool is registered by its address, before DBC has made it.
RegisterPoolUnmade ==
    /\ launch.version # 0
    /\ ~launch.registered
    /\ ~dbc.reservedName
    /\ launch' = [launch EXCEPT !.registered = TRUE]
    /\ UNCHANGED <<totals, dbc, lp, quote, bal, base, supply, faults, past>>

RegisterPool ==
    /\ launch.version # 0
    /\ ~launch.registered
    /\ dbc.exists /\ ~dbc.reservedName
    /\ launch' = [launch EXCEPT !.registered = TRUE]
    /\ UNCHANGED <<totals, dbc, lp, quote, bal, base, supply, faults, past>>

\* Mutant: an earlier rule, curve fees of every version go into the vault.
CurveDistributionToVault ==
    [platform |-> 0, creator |-> 0, vault |-> dbc.partnerFee, transit |-> quote.transit]

\* Curve fees: v3 pays the platform or fails, v2 pays the vault.
CurveDistribution ==
    IF FeeSplitEnabled
    THEN [platform |-> dbc.partnerFee, creator |-> 0, vault |-> 0,
          transit |-> quote.transit]
    ELSE [platform |-> 0, creator |-> 0, vault |-> dbc.partnerFee,
          transit |-> quote.transit]

\* `platformReady`: whether the platform account can be paid when the claim runs.
ClaimCurveFees(platformReady) ==
    /\ launch.registered
    /\ QuoteMintTransferable
    /\ IF FeeSplitEnabled THEN platformReady ELSE VaultNotFrozen
    /\ Deposit(CurveDistribution)
    /\ BurnAllSigned(0)
    /\ totals' = CountersAfter(CurveDistribution, base.claimer)
    /\ dbc' = [dbc EXCEPT !.partnerFee = 0]
    /\ past' = [past EXCEPT !.curveFees = @ + dbc.partnerFee,
                            !.taken = @ + dbc.partnerFee]
    /\ UNCHANGED <<launch, lp, bal>>

HarvestCurveFees ==
    /\ ClaimCurveFees(PlatformPayable)
    /\ UNCHANGED faults

\* Mutant: both payees must be payable.
DbcPreflightPayees ==
    /\ QuoteMintTransferable
    /\ VaultNotFrozen
    /\ IsCurveComplete
    /\ PlatformPayable /\ CreatorPayable

DbcPreflight ==
    /\ QuoteMintTransferable
    /\ VaultNotFrozen
    /\ IsCurveComplete

\* External: DBC pays the partner migration fee once per pool, to whoever is
\* its fee claimer, after the curve is complete and before or after migration.
WithdrawMigrationFee ==
    /\ ~dbc.feeWithdrawn
    /\ dbc' = [dbc EXCEPT !.feeWithdrawn = TRUE]

MigrationFeeLpSplit(received) == LpFeeSplit(received)   \* Mutant: the wrong split.

MigrationFeeSplit(received) == GraduationSplit(Threshold, received)

HarvestMigrationFee ==
    LET received == PartnerMigrationFee(Threshold, FeePercentage)
        d == Distribution(received, MigrationFeeSplit(received))
    IN  /\ launch.registered
        /\ ~launch.migrationFeeHarvested
        /\ DbcPreflight
        /\ FeeSplitEnabled => TransitNotFrozen
        /\ WithdrawMigrationFee
        /\ Deposit(d)
        /\ totals' = CountersAfter(d, 0)
        /\ launch' = [launch EXCEPT !.migrationFeeHarvested = TRUE,
                                    !.migrated = @ \/ IsMigrationComplete]
        /\ past' = [past EXCEPT !.taken = @ + received]
        /\ UNCHANGED <<lp, bal, base, supply, faults>>

\* External: DBC pays the partner's share of the surplus once per pool.
PartnerWithdrawSurplus ==
    /\ ~dbc.surplusWithdrawn
    /\ dbc' = [dbc EXCEPT !.surplusWithdrawn = TRUE]

HarvestSurplus ==
    \E amount \in 0..(dbc.reserve - Threshold) :
        /\ launch.registered
        /\ ~launch.surplusHarvested
        /\ DbcPreflight
        /\ PartnerWithdrawSurplus
        /\ quote' = [quote EXCEPT !.vault = @ + amount]
        /\ totals' = [totals EXCEPT !.harvestedQuote = SaturatingAdd(@, amount)]
        /\ launch' = [launch EXCEPT !.surplusHarvested = TRUE,
                                    !.migrated = @ \/ IsMigrationComplete]
        /\ past' = [past EXCEPT !.taken = @ + amount]
        /\ UNCHANGED <<lp, bal, base, supply, faults>>

SyncMigrationUnchecked ==   \* Mutant: does not look at the DBC pool.
    /\ launch.registered
    /\ LatchMigrated
    /\ UNCHANGED <<totals, dbc, lp, quote, bal, base, supply, faults, past>>

\* Succeeds without a change when the migration is latched already.
SyncMigration ==
    /\ launch.registered
    /\ launch.migrated \/ IsMigrationComplete
    /\ LatchMigrated
    /\ UNCHANGED <<totals, dbc, lp, quote, bal, base, supply, faults, past>>

\* Does not need a registered pool, only the mint (which DBC creates).
BurnClaimerBase ==
    /\ launch.version # 0
    /\ dbc.exists
    /\ BurnAllSigned(0)
    /\ totals' = [totals EXCEPT !.burnedBase = SaturatingAdd(@, base.claimer)]
    /\ UNCHANGED <<launch, dbc, lp, quote, bal, faults, past>>

\* Any position of the claimer PDA on a DAMM v2 pool of the launch's mints.
\* Base fees land in the claimer's account and are burned with the rest of it.
\* With no quote to move a frozen transit does not matter: zero is not transferred.
ClaimPositionFee(p) ==
    LET received == lp[p].quote
        d == Distribution(received, LpFeeSplit(received))
    IN  /\ launch.registered
        /\ QuoteMintTransferable
        /\ VaultNotFrozen
        /\ FeeSplitEnabled /\ quote.transit + received > 0 => TransitNotFrozen
        /\ Deposit(d)
        /\ BurnAllSigned(lp[p].base)
        /\ totals' = CountersAfter(d, base.claimer + lp[p].base)
        /\ lp' = [lp EXCEPT ![p] = [quote |-> 0, base |-> 0]]
        /\ past' = [past EXCEPT !.taken = @ + received]
        /\ UNCHANGED <<launch, dbc, bal, faults>>

HarvestLpFees == \E p \in Positions : ClaimPositionFee(p)

\* The payout goes to any quote account of the redeemer's choice except the
\* vault; the claimer's transit account is one of them.
RedeemTo(to, h, amount) ==
    LET net == Net(quote.vault, supply, amount, ExitFeeBps)
        fee == Fee(quote.vault, supply, amount, ExitFeeBps)
    IN  /\ launch.registered
        /\ RedeemOpen
        /\ QuoteMintTransferable
        /\ VaultNotFrozen
        /\ to = "transit" => TransitNotFrozen
        /\ Redeemable(quote.vault, supply, amount, ExitFeeBps)
        /\ FloorNotDecreased(quote.vault, supply, quote.vault - net, supply - amount)
        /\ LatchMigrated
        /\ bal' = [bal EXCEPT ![h] = @ - amount]
        /\ supply' = supply - amount
        /\ quote' = IF to = "transit"
                    THEN [quote EXCEPT !.vault = @ - net, !.transit = @ + net]
                    ELSE [quote EXCEPT !.vault = @ - net, !.holders = @ + net]
        /\ totals' = [totals EXCEPT !.redeemedBase = SaturatingAdd(@, amount),
                                    !.redeemedQuote = SaturatingAdd(@, net),
                                    !.exitFees = SaturatingAdd(@, fee)]
        /\ UNCHANGED <<dbc, lp, base, faults, past>>

Redeem ==
    \E h \in Holders, to \in {"holders", "transit"} :
        \E amount \in 1..bal[h] : RedeemTo(to, h, amount)

\* Mutant: base on the curve and in the pool is not counted as supply.
FloorViewCirculating ==
    LET reported == IF launch.registered THEN supply - base.curve - base.damm ELSE 0
    IN  [vaultRaw |-> quote.vault, supply |-> reported,
         floorQ64 |-> IF reported = 0 THEN 0
                      ELSE (quote.vault * FixedPointOne) \div reported]

\* The floor view (simulated, never sent): nothing before registration.
FloorView ==
    LET reported == IF launch.registered THEN supply ELSE 0
    IN  [vaultRaw |-> quote.vault, supply |-> reported,
         floorQ64 |-> IF reported = 0 THEN 0
                      ELSE (quote.vault * FixedPointOne) \div reported]

-----------------------------------------------------------------------------
(* The outside world.                                                      *)

\* DBC creates the pool of the committed base mint: it mints the whole supply
\* to the curve and revokes the mint authority.
CreatePool ==
    /\ ~dbc.exists
    /\ \E reserved \in BOOLEAN :
        dbc' = [dbc EXCEPT !.exists = TRUE, !.reservedName = reserved]
    /\ supply' = InitialSupply
    /\ base' = [base EXCEPT !.curve = InitialSupply]
    /\ UNCHANGED <<launch, totals, lp, quote, bal, faults, past>>

\* The buy that completes the curve may overshoot the threshold (surplus);
\* it also moves the pool to LockedVesting, as no vesting is configured.
BuyOnCurve ==
    \E h \in Holders, amount \in CurveAmounts :
        /\ dbc.exists /\ ~IsCurveComplete
        /\ QuoteMintTransferable
        /\ dbc.trades < MaxCurveTrades
        /\ base.curve >= CurveBase
        /\ dbc' = [dbc EXCEPT !.reserve = @ + amount,
                              !.trades = @ + 1,
                              !.partnerFee = @ + CurveFee,
                              !.progress = IF dbc.reserve + amount >= Threshold
                                           THEN "lockedVesting" ELSE @]
        /\ base' = [base EXCEPT !.curve = @ - CurveBase]
        /\ bal' = [bal EXCEPT ![h] = @ + CurveBase]
        /\ UNCHANGED <<launch, totals, lp, quote, supply, faults, past>>

SellOnCurve ==
    \E h \in Holders, amount \in CurveAmounts :
        /\ dbc.exists /\ ~IsCurveComplete
        /\ QuoteMintTransferable
        /\ dbc.trades < MaxCurveTrades
        /\ bal[h] >= CurveBase /\ dbc.reserve >= amount
        /\ dbc' = [dbc EXCEPT !.reserve = @ - amount,
                              !.trades = @ + 1,
                              !.partnerFee = @ + CurveFee]
        /\ base' = [base EXCEPT !.curve = @ + CurveBase]
        /\ bal' = [bal EXCEPT ![h] = @ - CurveBase]
        /\ UNCHANGED <<launch, totals, lp, quote, supply, faults, past>>

\* migration_damm_v2, sent by the crank or by a Meteora keeper: part of the
\* unsold base goes to the DAMM v2 pool, the rest is burned.
MigrateToDamm ==
    /\ dbc.progress = "lockedVesting"
    /\ QuoteMintTransferable
    /\ dbc' = [dbc EXCEPT !.progress = "createdPool"]
    /\ \E pooled \in 0..base.curve :
        /\ base.curve - pooled <= supply
        /\ base' = [base EXCEPT !.curve = 0, !.damm = pooled]
        /\ supply' = supply - (base.curve - pooled)
    /\ UNCHANGED <<launch, totals, lp, quote, bal, faults, past>>

\* A trade on the migrated pool leaves a quote fee in the launch's position.
TradeOnDamm ==
    \E h \in Holders, fee \in LpFees, bought \in {-1, 1} :
        /\ IsMigrationComplete
        /\ QuoteMintTransferable
        /\ bal[h] + bought >= 0 /\ base.damm - bought >= 0
        /\ past.lpFees + fee <= MaxLpFees
        /\ bal' = [bal EXCEPT ![h] = @ + bought]
        /\ base' = [base EXCEPT !.damm = @ - bought]
        /\ lp' = [lp EXCEPT !["own"].quote = @ + fee]
        /\ past' = [past EXCEPT !.lpFees = @ + fee]
        /\ UNCHANGED <<launch, totals, dbc, quote, supply, faults>>

\* A pool somebody else made for the same mints, whose position was given to
\* the claimer PDA, collects fees in both tokens.
TradeOnForeignPool ==
    \E h \in Holders, fee \in LpFees :
        /\ dbc.exists
        /\ QuoteMintTransferable
        /\ bal[h] > 0
        /\ past.lpFees + fee <= MaxLpFees
        /\ bal' = [bal EXCEPT ![h] = @ - 1]
        /\ lp' = [lp EXCEPT !["foreign"] = [quote |-> @.quote + fee, base |-> @.base + 1]]
        /\ past' = [past EXCEPT !.lpFees = @ + fee]
        /\ UNCHANGED <<launch, totals, dbc, quote, base, supply, faults>>

GiveToVault ==
    \E amount \in Gifts :
        /\ launch.version # 0
        /\ QuoteMintTransferable /\ VaultNotFrozen
        /\ past.vaultGifts + past.transitGifts + amount <= MaxGifts
        /\ quote' = [quote EXCEPT !.vault = @ + amount]
        /\ past' = [past EXCEPT !.vaultGifts = @ + amount]
        /\ UNCHANGED <<launch, totals, dbc, lp, bal, base, supply, faults>>

GiveToTransit ==
    \E amount \in Gifts :
        /\ launch.version # 0
        /\ QuoteMintTransferable /\ TransitNotFrozen
        /\ past.vaultGifts + past.transitGifts + amount <= MaxGifts
        /\ quote' = [quote EXCEPT !.transit = @ + amount]
        /\ past' = [past EXCEPT !.transitGifts = @ + amount]
        /\ UNCHANGED <<launch, totals, dbc, lp, bal, base, supply, faults>>

GiveBase ==
    \E h \in Holders :
        /\ launch.version # 0
        /\ bal[h] > 0
        /\ past.baseGifts < MaxBaseGifts
        /\ bal' = [bal EXCEPT ![h] = @ - 1]
        /\ base' = [base EXCEPT !.claimer = @ + 1]
        /\ past' = [past EXCEPT !.baseGifts = @ + 1]
        /\ UNCHANGED <<launch, totals, dbc, lp, quote, supply, faults>>

\* The issuer's permanent delegate moves quote out of the vault.
IssuerSeizes ==
    \E amount \in Seizures :
        /\ amount <= quote.vault
        /\ past.seized + amount <= MaxSeized
        /\ quote' = [quote EXCEPT !.vault = @ - amount]
        /\ past' = [past EXCEPT !.seized = @ + amount]
        /\ UNCHANGED <<launch, totals, dbc, lp, bal, base, supply, faults>>

FaultAppears ==
    /\ \E f \in Faults \ faults : faults' = faults \cup {f}
    /\ UNCHANGED <<state, past>>

FaultClears ==
    /\ \E f \in faults : faults' = faults \ {f}
    /\ UNCHANGED <<state, past>>

-----------------------------------------------------------------------------
NoLaunch == [version |-> 0, registered |-> FALSE, migrationFeeHarvested |-> FALSE,
             surplusHarvested |-> FALSE, migrated |-> FALSE]

\* Either nothing exists yet, or a launch made by the version 2 program does.
Init ==
    /\ launch \in {NoLaunch, [NoLaunch EXCEPT !.version = 2]}
    /\ totals = [harvestedQuote |-> 0, burnedBase |-> 0, redeemedBase |-> 0,
                 redeemedQuote |-> 0, exitFees |-> 0, platformQuote |-> 0,
                 creatorQuote |-> 0]
    /\ dbc = [exists |-> FALSE, reservedName |-> FALSE, reserve |-> 0, trades |-> 0,
              partnerFee |-> 0, feeWithdrawn |-> FALSE, surplusWithdrawn |-> FALSE,
              progress |-> "bonding"]
    /\ lp = [p \in Positions |-> [quote |-> 0, base |-> 0]]
    /\ quote = [vault |-> 0, transit |-> 0, platform |-> 0, creator |-> 0, holders |-> 0]
    /\ bal = [h \in Holders |-> 0]
    /\ base = [claimer |-> 0, curve |-> 0, damm |-> 0]
    /\ supply = 0
    /\ faults = {}
    /\ past = [curveFees |-> 0, taken |-> 0, vaultGifts |-> 0, transitGifts |-> 0,
               baseGifts |-> 0, seized |-> 0, lpFees |-> 0]

Program ==
    \/ CreateLaunch
    \/ RegisterPool
    \/ HarvestCurveFees
    \/ HarvestMigrationFee
    \/ HarvestSurplus
    \/ SyncMigration
    \/ BurnClaimerBase
    \/ HarvestLpFees
    \/ Redeem

Environment ==
    \/ CreatePool
    \/ BuyOnCurve
    \/ SellOnCurve
    \/ MigrateToDamm
    \/ TradeOnDamm
    \/ TradeOnForeignPool
    \/ GiveToVault
    \/ GiveToTransit
    \/ GiveBase
    \/ IssuerSeizes
    \/ FaultAppears
    \/ FaultClears

Next == Program \/ Environment

Spec == Init /\ [][Next]_vars

\* The crank runs on a schedule and everything it sends is permissionless, so
\* what is due and stays possible is eventually done.  Holders, donors, the
\* issuer and the launch's creator owe nothing.
FairSpec ==
    /\ Spec
    /\ WF_vars(RegisterPool)
    /\ WF_vars(HarvestMigrationFee)
    /\ WF_vars(MigrateToDamm)

-----------------------------------------------------------------------------
(* Properties.                                                             *)

(***************************************************************************)
(* The Launch flags agree with what DBC and DAMM v2 hold.  The crank plans *)
(* a one-shot harvest only while both say it is outstanding (crank.ts      *)
(* planCrank): were they ever to differ, the fee could never be collected  *)
(* and redemption never open.                                              *)
(***************************************************************************)
LatchesAgree ==
    /\ launch.migrationFeeHarvested <=> dbc.feeWithdrawn
    /\ launch.surplusHarvested <=> dbc.surplusWithdrawn
    /\ launch.migrated => IsMigrationComplete
    /\ launch.registered => dbc.exists /\ ~dbc.reservedName

(***************************************************************************)
(* No quote token is lost or made: all that came out of DBC and DAMM v2 or *)
(* was given is in the vault, in the transit, with a payee, with the       *)
(* redeemers, or was seized -- whatever payees failed on the way.          *)
(***************************************************************************)
QuoteConserved ==
    past.taken + past.vaultGifts + past.transitGifts =
        quote.vault + quote.transit + quote.platform + quote.creator
            + quote.holders + past.seized

(***************************************************************************)
(* The Launch counters reconcile with the vault, sweeps and fallbacks      *)
(* included, as long as none of them has saturated.                        *)
(***************************************************************************)
CountersReconcile ==
    totals.harvestedQuote < U64Max /\ totals.redeemedQuote < U64Max =>
        quote.vault + totals.redeemedQuote + past.seized =
            totals.harvestedQuote + past.vaultGifts

(***************************************************************************)
(* The Launch counters never go back, not even at the limit of their u64:  *)
(* a history of harvests read from them is never understated by a later    *)
(* one.                                                                    *)
(***************************************************************************)
CountersOnlyGrow ==
    [][\A c \in DOMAIN totals : totals'[c] >= totals[c]]_vars

(***************************************************************************)
(* Who gets which fee.  A version 2 launch keeps its original promise: all *)
(* of every harvest goes into the vault.  From version 3 on the curve fees *)
(* all go to the platform and never enter the vault.                       *)
(***************************************************************************)
FeeRouting ==
    /\ launch.version = 2 => quote.platform = 0 /\ quote.creator = 0
    /\ launch.version = 3 =>
        /\ quote.platform >= past.curveFees
        /\ quote.creator + quote.platform - past.curveFees
             <= SplitTotal(GraduationSplit(Threshold, Threshold))
                - GraduationSplit(Threshold, Threshold).vault + past.lpFees

(***************************************************************************)
(* The graduation fee brings at least the floor the config promised, no    *)
(* matter which payees are unpayable, what was in the transit before, and  *)
(* in which order fee, surplus and migration happen.                       *)
(***************************************************************************)
InitialFloorDelivered ==
    launch.migrationFeeHarvested /\ totals.redeemedBase = 0 =>
        quote.vault + past.seized >= VaultAtGraduation(Threshold, FeePercentage)

Seized == past'.seized > past.seized

(***************************************************************************)
(* The floor never decreases through the program: once a pool is           *)
(* registered no instruction, trade, donation or burn lowers quote per     *)
(* token; only the issuer taking quote out of the vault can.               *)
(***************************************************************************)
FloorNeverDecreases ==
    [][launch.registered /\ ~Seized =>
         FloorNotDecreased(quote.vault, supply, quote'.vault, supply')]_vars

(***************************************************************************)
(* What the floor view reports never drops either, while tokens remain.    *)
(***************************************************************************)
ReportedFloorNeverDrops ==
    [][~Seized /\ supply' # 0 => FloorView'.floorQ64 >= FloorView.floorQ64]_vars

(***************************************************************************)
(* Quote leaves the vault only to redeemers: redemption is open, base is   *)
(* burned in the same step, the payout is at most its pro-rata share, and  *)
(* from then on redemption no longer depends on DBC state.                 *)
(***************************************************************************)
OnlyRedemptionPays ==
    [][quote'.vault < quote.vault /\ ~Seized =>
         /\ RedeemOpen
         /\ launch'.migrated
         /\ supply' < supply
         /\ (quote.vault - quote'.vault) * supply <= quote.vault * (supply - supply')]_vars

(***************************************************************************)
(* architecture.md section 6, invariant 30, says of version 3: the transit *)
(* ends at 0 after every instruction.  Here: whatever is in the transit,   *)
(* somebody donated it -- no instruction leaves quote in an empty transit. *)
(***************************************************************************)
TransitStaysEmpty ==
    [][launch.version = 3 /\ quote.transit = 0 /\ past'.transitGifts = past.transitGifts
         => quote'.transit = 0]_vars

(***************************************************************************)
(* The launch implements the promise made to its holders.                  *)
(***************************************************************************)
Promise == INSTANCE FloorVault WITH
    vault <- quote.vault, supply <- supply, open <- RedeemOpen

PromiseKept == Promise!Spec

(***************************************************************************)
(* No payee can keep redemption shut.  If the curve completes and the      *)
(* issuer eventually stops blocking the vault, then redemption opens, even *)
(* if platform and creator accounts can never be paid.                     *)
(***************************************************************************)
IssuerBlocks == faults \cap IssuerFaults # {}

RedemptionOpens ==
    <>[]~IssuerBlocks =>
        (launch.version # 0 /\ IsCurveComplete /\ ~dbc.reservedName) ~> RedeemOpen
=============================================================================
