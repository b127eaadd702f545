----------------------- MODULE StockfloorLaunch_proofs ----------------------
(***************************************************************************)
(* What holds of every launch, whatever the holders, the threshold, the    *)
(* fees, the amounts and the faults: for all values of the constants that  *)
(* LaunchAssumption admits.                                                *)
(***************************************************************************)
EXTENDS MCLaunch, Arithmetic_proofs

-----------------------------------------------------------------------------
(* The operators the instructions share.                                   *)

LEMMA ConstantsTyped ==
  /\ Threshold \in Nat /\ FeePercentage \in 0..100
  /\ ExitFeeBps \in Nat /\ ExitFeeBps <= BpsDenominator
  /\ InitialSupply \in Nat \ {0}
  /\ CurveBase \in Nat /\ CurveFee \in Nat
  /\ U64Max \in Nat /\ U64Max > 0
  /\ Faults \subseteq AllFaults
BY LaunchAssumption DEF BpsDenominator

LEMMA AmountsTyped ==
  /\ \A x \in CurveAmounts : x \in Nat
  /\ \A x \in LpFees : x \in Nat
  /\ \A x \in Gifts : x \in Nat
  /\ \A x \in Seizures : x \in Nat
BY LaunchAssumption

\* A counter never exceeds its width, never goes back, and is exact until full.
LEMMA SaturatingAddBounds ==
  ASSUME NEW x \in U64, NEW y \in Nat
  PROVE  /\ SaturatingAdd(x, y) \in U64
         /\ SaturatingAdd(x, y) >= x
         /\ SaturatingAdd(x, y) < U64Max => SaturatingAdd(x, y) = x + y
         /\ y > 0 => SaturatingAdd(x, y) > 0
BY ConstantsTyped DEF U64, SaturatingAdd, SmallerOf

Splits == [platform : Nat, creator : Nat, vault : Nat]
Distributions == [platform : Nat, creator : Nat, transit : Nat, vault : Nat]

\* However the payees fail, a harvest hands out exactly what it received and
\* what the transit held, and the vault never gets less than its own share.
LEMMA DistributionExact ==
  ASSUME TypeOK, NEW received \in Nat, NEW split \in Splits,
         SplitTotal(split) = received
  PROVE  LET d == Distribution(received, split)
         IN  /\ d \in Distributions
             /\ d.platform + d.creator + d.vault + d.transit = quote.transit + received
             /\ d.vault >= split.vault
<1>1. quote.transit \in Nat
  BY DEF TypeOK, QuoteAccounts
<1>2. /\ split.platform \in Nat /\ split.creator \in Nat /\ split.vault \in Nat
      /\ split.platform + split.creator + split.vault = received
  BY DEF Splits, SplitTotal
<1>3. CASE FeeSplitEnabled
  BY <1>1, <1>2, <1>3 DEF Distribution, Distributions
<1>4. CASE ~FeeSplitEnabled
  BY <1>1, <1>2, <1>4 DEF Distribution, Distributions
<1> QED BY <1>3, <1>4

LEMMA CurveDistributionExact ==
  ASSUME TypeOK
  PROVE  LET d == CurveDistribution
         IN  /\ d \in Distributions
             /\ d.platform + d.creator + d.vault + d.transit
                  = quote.transit + dbc.partnerFee
<1>1. quote.transit \in Nat /\ dbc.partnerFee \in Nat
  BY DEF TypeOK, QuoteAccounts, Pools
<1>2. CASE FeeSplitEnabled
  BY <1>1, <1>2 DEF CurveDistribution, Distributions
<1>3. CASE ~FeeSplitEnabled
  BY <1>1, <1>3 DEF CurveDistribution, Distributions
<1> QED BY <1>2, <1>3

LEMMA GraduationDistribution ==
  ASSUME TypeOK
  PROVE  LET received == PartnerMigrationFee(Threshold, FeePercentage)
             d == Distribution(received, MigrationFeeSplit(received))
         IN  /\ received \in Nat
             /\ d \in Distributions
             /\ d.platform + d.creator + d.vault + d.transit = quote.transit + received
             /\ d.vault >= VaultAtGraduation(Threshold, FeePercentage)
<1> DEFINE received == PartnerMigrationFee(Threshold, FeePercentage)
           split == GraduationSplit(Threshold, received)
<1>1. received \in Nat
  <2>1. received \in 0..Threshold
    BY ConstantsTyped, PartnerFeeBounds
  <2> QED BY <2>1, ConstantsTyped
<1> HIDE DEF received
<1>2. split \in Splits /\ SplitTotal(split) = received
  BY <1>1, ConstantsTyped, GraduationSplitExact DEF Splits
<1>3. split.vault = VaultAtGraduation(Threshold, FeePercentage)
  BY DEF VaultAtGraduation, received
<1>4. split = MigrationFeeSplit(received)
  BY DEF MigrationFeeSplit
<1> HIDE DEF split
<1> QED BY <1>1, <1>2, <1>3, <1>4, DistributionExact DEF received

LEMMA LpDistribution ==
  ASSUME TypeOK, NEW received \in Nat
  PROVE  LET d == Distribution(received, LpFeeSplit(received))
         IN  /\ d \in Distributions
             /\ d.platform + d.creator + d.vault + d.transit = quote.transit + received
<1> DEFINE split == LpFeeSplit(received)
<1>1. split \in Splits /\ SplitTotal(split) = received
  BY LpFeeSplitExact DEF Splits
<1> HIDE DEF split
<1> QED BY <1>1, DistributionExact DEF split

-----------------------------------------------------------------------------
(* Types.                                                                  *)

LEMMA FieldsTyped ==
  ASSUME TypeOK
  PROVE  /\ quote.vault \in Nat /\ quote.transit \in Nat /\ quote.platform \in Nat
         /\ quote.creator \in Nat /\ quote.holders \in Nat
         /\ base.claimer \in Nat /\ base.curve \in Nat /\ base.damm \in Nat
         /\ dbc.reserve \in Nat /\ dbc.partnerFee \in Nat /\ dbc.trades \in Nat
         /\ supply \in Nat
         /\ \A p \in Positions : lp[p].quote \in Nat /\ lp[p].base \in Nat
         /\ \A h \in Holders : bal[h] \in Nat
BY DEF TypeOK, QuoteAccounts, BaseAccounts, Pools, PositionFees

LEMMA DepositTyped ==
  ASSUME TypeOK, NEW d \in Distributions, Deposit(d)
  PROVE  quote' \in QuoteAccounts
<1>1. /\ d.vault \in Nat /\ d.platform \in Nat /\ d.creator \in Nat /\ d.transit \in Nat
  BY DEF Distributions
<1>2. quote \in QuoteAccounts
  BY DEF TypeOK
<1>3. /\ quote.vault + d.vault \in Nat
      /\ quote.platform + d.platform \in Nat
      /\ quote.creator + d.creator \in Nat
  BY <1>1, FieldsTyped
<1> QED BY <1>1, <1>2, <1>3 DEF Deposit, QuoteAccounts

LEMMA CountersAfterTyped ==
  ASSUME TypeOK, NEW d \in Distributions, NEW burned \in Nat
  PROVE  CountersAfter(d, burned) \in Counters
<1>1. /\ d.vault \in Nat /\ d.platform \in Nat /\ d.creator \in Nat
  BY DEF Distributions
<1>2. totals \in Counters
  BY DEF TypeOK
<1>3. /\ SaturatingAdd(totals.harvestedQuote, d.vault) \in U64
      /\ SaturatingAdd(totals.platformQuote, d.platform) \in U64
      /\ SaturatingAdd(totals.creatorQuote, d.creator) \in U64
      /\ SaturatingAdd(totals.burnedBase, burned) \in U64
  BY <1>1, <1>2, SaturatingAddBounds DEF Counters
<1> QED BY <1>2, <1>3 DEF CountersAfter, Counters

LEMMA BurnTyped ==
  ASSUME TypeOK, NEW amount \in Nat, BurnAllSigned(amount)
  PROVE  /\ base' \in BaseAccounts /\ supply' \in Nat
         /\ supply' <= supply
         /\ base.claimer + amount \in Nat
<1>1. base.claimer \in Nat /\ supply \in Nat
  BY FieldsTyped
<1>2. base' \in BaseAccounts
  BY DEF TypeOK, BaseAccounts, BurnAllSigned
<1> QED BY <1>1, <1>2 DEF BurnAllSigned

\* Conjuncts of TypeOK that a step leaves alone carry over.
LEMMA TypeFrame ==
  ASSUME TypeOK
  PROVE  /\ UNCHANGED launch => launch' \in Launches
         /\ UNCHANGED totals => totals' \in Counters
         /\ UNCHANGED dbc => dbc' \in Pools
         /\ UNCHANGED lp => lp' \in [Positions -> PositionFees]
         /\ UNCHANGED quote => quote' \in QuoteAccounts
         /\ UNCHANGED bal => bal' \in [Holders -> Nat]
         /\ UNCHANGED base => base' \in BaseAccounts
         /\ UNCHANGED supply => supply' \in Nat
         /\ UNCHANGED faults => faults' \subseteq Faults
         /\ UNCHANGED past => past' \in Histories
BY DEF TypeOK

\* The instructions that move quote or burn base.
LEMMA HarvestCurveFeesTyped ==
  ASSUME TypeOK, HarvestCurveFees
  PROVE  TypeOK'
<1> DEFINE d == CurveDistribution
<1>1. d \in Distributions
  BY CurveDistributionExact
<1> HIDE DEF d
<1>2. quote' \in QuoteAccounts
  BY <1>1, DepositTyped DEF HarvestCurveFees, ClaimCurveFees, d
<1>3. base' \in BaseAccounts /\ supply' \in Nat
  BY BurnTyped DEF HarvestCurveFees, ClaimCurveFees
<1>4. totals' \in Counters
  BY <1>1, FieldsTyped, CountersAfterTyped DEF HarvestCurveFees, ClaimCurveFees, d
<1>5. dbc' \in Pools
  BY DEF TypeOK, Pools, HarvestCurveFees, ClaimCurveFees
<1>6. past' \in Histories
  <2>1. past \in Histories /\ past.curveFees + dbc.partnerFee \in Nat
        /\ past.taken + dbc.partnerFee \in Nat
    BY FieldsTyped DEF TypeOK, Histories
  <2> QED BY <2>1 DEF Histories, HarvestCurveFees, ClaimCurveFees
<1>7. UNCHANGED <<launch, lp, bal, faults>>
  BY DEF HarvestCurveFees, ClaimCurveFees
<1> QED BY <1>2, <1>3, <1>4, <1>5, <1>6, <1>7, TypeFrame DEF TypeOK

LEMMA HarvestMigrationFeeTyped ==
  ASSUME TypeOK, HarvestMigrationFee
  PROVE  TypeOK'
<1> DEFINE received == PartnerMigrationFee(Threshold, FeePercentage)
           d == Distribution(received, MigrationFeeSplit(received))
<1>1. received \in Nat /\ d \in Distributions
  BY GraduationDistribution
<1> HIDE DEF received, d
<1>2. quote' \in QuoteAccounts
  BY <1>1, DepositTyped DEF HarvestMigrationFee, d, received
<1>3. totals' \in Counters
  BY <1>1, CountersAfterTyped DEF HarvestMigrationFee, d, received
<1>4. launch' \in Launches
  BY DEF TypeOK, Launches, HarvestMigrationFee, IsMigrationComplete
<1>5. dbc' \in Pools
  BY DEF TypeOK, Pools, HarvestMigrationFee, WithdrawMigrationFee
<1>6. past' \in Histories
  <2>1. past \in Histories /\ past.taken + received \in Nat
    BY <1>1 DEF TypeOK, Histories
  <2> QED BY <2>1 DEF Histories, HarvestMigrationFee, received
<1>7. UNCHANGED <<lp, bal, base, supply, faults>>
  BY DEF HarvestMigrationFee
<1> QED BY <1>2, <1>3, <1>4, <1>5, <1>6, <1>7, TypeFrame DEF TypeOK

LEMMA HarvestSurplusTyped ==
  ASSUME TypeOK, HarvestSurplus
  PROVE  TypeOK'
<1>1. PICK amount \in 0..(dbc.reserve - Threshold) :
        /\ PartnerWithdrawSurplus
        /\ quote' = [quote EXCEPT !.vault = @ + amount]
        /\ totals' = [totals EXCEPT !.harvestedQuote = SaturatingAdd(@, amount)]
        /\ launch' = [launch EXCEPT !.surplusHarvested = TRUE,
                                    !.migrated = @ \/ IsMigrationComplete]
        /\ past' = [past EXCEPT !.taken = @ + amount]
        /\ UNCHANGED <<lp, bal, base, supply, faults>>
  BY DEF HarvestSurplus
<1>2. amount \in Nat
  BY FieldsTyped, ConstantsTyped
<1>3. quote' \in QuoteAccounts
  BY <1>1, <1>2 DEF TypeOK, QuoteAccounts
<1>4. totals' \in Counters
  <2>1. totals \in Counters /\ totals.harvestedQuote \in U64
    BY DEF TypeOK, Counters
  <2>2. SaturatingAdd(totals.harvestedQuote, amount) \in U64
    BY <1>2, <2>1, SaturatingAddBounds
  <2> QED BY <1>1, <2>1, <2>2 DEF Counters
<1>5. launch' \in Launches
  BY <1>1 DEF TypeOK, Launches, IsMigrationComplete
<1>6. dbc' \in Pools
  BY <1>1 DEF TypeOK, Pools, PartnerWithdrawSurplus
<1>7. past' \in Histories
  BY <1>1, <1>2 DEF TypeOK, Histories
<1> QED BY <1>1, <1>3, <1>4, <1>5, <1>6, <1>7, TypeFrame DEF TypeOK

LEMMA BurnClaimerBaseTyped ==
  ASSUME TypeOK, BurnClaimerBase
  PROVE  TypeOK'
<1>1. base' \in BaseAccounts /\ supply' \in Nat
  BY BurnTyped DEF BurnClaimerBase
<1>2. totals' \in Counters
  <2>1. totals \in Counters /\ totals.burnedBase \in U64
    BY DEF TypeOK, Counters
  <2>2. SaturatingAdd(totals.burnedBase, base.claimer) \in U64
    BY FieldsTyped, <2>1, SaturatingAddBounds
  <2> QED BY <2>1, <2>2 DEF Counters, BurnClaimerBase
<1>3. UNCHANGED <<launch, dbc, lp, quote, bal, faults, past>>
  BY DEF BurnClaimerBase
<1> QED BY <1>1, <1>2, <1>3, TypeFrame DEF TypeOK

LEMMA ClaimPositionFeeTyped ==
  ASSUME TypeOK, NEW p \in Positions, ClaimPositionFee(p)
  PROVE  TypeOK'
<1> DEFINE received == lp[p].quote
           d == Distribution(received, LpFeeSplit(received))
<1>1. received \in Nat /\ lp[p].base \in Nat
  BY FieldsTyped
<1> HIDE DEF received
<1>2. d \in Distributions
  BY <1>1, LpDistribution
<1> HIDE DEF d
<1>3. quote' \in QuoteAccounts
  BY <1>2, DepositTyped DEF ClaimPositionFee, d, received
<1>4. BurnAllSigned(lp[p].base)
  BY DEF ClaimPositionFee
<1>5. base' \in BaseAccounts /\ supply' \in Nat /\ base.claimer + lp[p].base \in Nat
  BY <1>1, <1>4, BurnTyped
<1>6. totals' \in Counters
  BY <1>2, <1>5, CountersAfterTyped DEF ClaimPositionFee, d, received
<1>7. lp' \in [Positions -> PositionFees]
  BY DEF TypeOK, PositionFees, ClaimPositionFee
<1>8. past' \in Histories
  <2>1. past \in Histories /\ past.taken + received \in Nat
    BY <1>1 DEF TypeOK, Histories
  <2> QED BY <2>1 DEF Histories, ClaimPositionFee, received
<1>9. UNCHANGED <<launch, dbc, bal, faults>>
  BY DEF ClaimPositionFee
<1> QED BY <1>3, <1>5, <1>6, <1>7, <1>8, <1>9, TypeFrame DEF TypeOK

\* What a redemption pays, and what it leaves.
LEMMA RedeemAmounts ==
  ASSUME TypeOK, NEW h \in Holders, NEW amount \in 1..bal[h],
         Redeemable(quote.vault, supply, amount, ExitFeeBps)
  PROVE  LET net == Net(quote.vault, supply, amount, ExitFeeBps)
         IN  /\ amount \in Nat /\ amount > 0 /\ amount <= supply /\ bal[h] - amount \in Nat
             /\ net \in Nat /\ net <= quote.vault
             /\ net * supply <= quote.vault * amount
             /\ Fee(quote.vault, supply, amount, ExitFeeBps) \in Nat
             /\ FloorNotDecreased(quote.vault, supply, quote.vault - net, supply - amount)
<1>1. bal[h] \in Nat /\ quote.vault \in Nat /\ supply \in Nat /\ ExitFeeBps \in Nat
  BY FieldsTyped, ConstantsTyped
<1>2. amount \in Nat /\ amount > 0 /\ bal[h] - amount \in Nat
  BY <1>1
<1>3. supply > 0 /\ amount <= supply /\ ExitFeeBps <= BpsDenominator
  BY DEF Redeemable
<1>4. FloorNotDecreased(quote.vault, supply,
        quote.vault - Net(quote.vault, supply, amount, ExitFeeBps), supply - amount)
  BY <1>1, <1>2, RedeemKeepsFloor
<1> QED BY <1>1, <1>2, <1>3, <1>4, RedeemQuoteBounds

LEMMA RedeemToTyped ==
  ASSUME TypeOK, NEW h \in Holders, NEW to \in {"holders", "transit"},
         NEW amount \in 1..bal[h], RedeemTo(to, h, amount)
  PROVE  TypeOK'
<1> DEFINE net == Net(quote.vault, supply, amount, ExitFeeBps)
           fee == Fee(quote.vault, supply, amount, ExitFeeBps)
<1>1. /\ amount \in Nat /\ amount <= supply /\ bal[h] - amount \in Nat
      /\ net \in Nat /\ net <= quote.vault /\ fee \in Nat
  BY RedeemAmounts DEF RedeemTo
<1>2. /\ launch' = [launch EXCEPT !.migrated = TRUE]
      /\ bal' = [bal EXCEPT ![h] = @ - amount]
      /\ supply' = supply - amount
      /\ quote' = IF to = "transit"
                  THEN [quote EXCEPT !.vault = @ - net, !.transit = @ + net]
                  ELSE [quote EXCEPT !.vault = @ - net, !.holders = @ + net]
      /\ totals' = [totals EXCEPT !.redeemedBase = SaturatingAdd(@, amount),
                                  !.redeemedQuote = SaturatingAdd(@, net),
                                  !.exitFees = SaturatingAdd(@, fee)]
      /\ UNCHANGED <<dbc, lp, base, faults, past>>
  BY DEF RedeemTo, LatchMigrated
<1> HIDE DEF net, fee
<1>3. launch' \in Launches
  BY <1>2 DEF TypeOK, Launches
<1>4. quote' \in QuoteAccounts
  <2>1. /\ quote \in QuoteAccounts /\ quote.vault - net \in Nat
        /\ quote.transit + net \in Nat /\ quote.holders + net \in Nat
    BY <1>1, FieldsTyped DEF TypeOK
  <2> QED BY <1>2, <2>1 DEF QuoteAccounts
<1>5. totals' \in Counters
  <2>1. /\ totals \in Counters /\ totals.redeemedBase \in U64
        /\ totals.redeemedQuote \in U64 /\ totals.exitFees \in U64
    BY DEF TypeOK, Counters
  <2>2. /\ SaturatingAdd(totals.redeemedBase, amount) \in U64
        /\ SaturatingAdd(totals.redeemedQuote, net) \in U64
        /\ SaturatingAdd(totals.exitFees, fee) \in U64
    BY <1>1, <2>1, SaturatingAddBounds
  <2> QED BY <1>2, <2>1, <2>2 DEF Counters
<1>6. bal' \in [Holders -> Nat] /\ supply' \in Nat
  BY <1>1, <1>2, FieldsTyped DEF TypeOK
<1> QED BY <1>2, <1>3, <1>4, <1>5, <1>6, TypeFrame DEF TypeOK

\* The program keeps every type.
LEMMA ProgramTyped ==
  ASSUME TypeOK, Program
  PROVE  TypeOK'
<1>1. CASE CreateLaunch
  <2>1. launch' \in Launches
    BY <1>1 DEF TypeOK, Launches, Versions, CreateLaunch
  <2> QED BY <1>1, <2>1, TypeFrame DEF TypeOK, CreateLaunch
<1>2. CASE RegisterPool
  <2>1. launch' \in Launches
    BY <1>2 DEF TypeOK, Launches, RegisterPool
  <2> QED BY <1>2, <2>1, TypeFrame DEF TypeOK, RegisterPool
<1>3. CASE HarvestCurveFees
  BY <1>3, HarvestCurveFeesTyped
<1>4. CASE HarvestMigrationFee
  BY <1>4, HarvestMigrationFeeTyped
<1>5. CASE HarvestSurplus
  BY <1>5, HarvestSurplusTyped
<1>6. CASE SyncMigration
  <2>1. launch' \in Launches
    BY <1>6 DEF TypeOK, Launches, SyncMigration, LatchMigrated
  <2> QED BY <1>6, <2>1, TypeFrame DEF TypeOK, SyncMigration
<1>7. CASE BurnClaimerBase
  BY <1>7, BurnClaimerBaseTyped
<1>8. CASE HarvestLpFees
  BY <1>8, ClaimPositionFeeTyped DEF HarvestLpFees
<1>9. CASE Redeem
  BY <1>9, RedeemToTyped DEF Redeem
<1> QED
  BY <1>1, <1>2, <1>3, <1>4, <1>5, <1>6, <1>7, <1>8, <1>9 DEF Program

\* And so does the outside world.
LEMMA CurveTradesTyped ==
  ASSUME TypeOK, BuyOnCurve \/ SellOnCurve
  PROVE  TypeOK'
<1>1. CASE BuyOnCurve
  <2>1. PICK h \in Holders, amount \in CurveAmounts :
          /\ base.curve >= CurveBase
          /\ dbc' = [dbc EXCEPT !.reserve = @ + amount,
                                !.trades = @ + 1,
                                !.partnerFee = @ + CurveFee,
                                !.progress = IF dbc.reserve + amount >= Threshold
                                             THEN "lockedVesting" ELSE @]
          /\ base' = [base EXCEPT !.curve = @ - CurveBase]
          /\ bal' = [bal EXCEPT ![h] = @ + CurveBase]
          /\ UNCHANGED <<launch, totals, lp, quote, supply, faults, past>>
    BY <1>1 DEF BuyOnCurve
  <2>2. /\ dbc.reserve + amount \in Nat /\ dbc.trades + 1 \in Nat
        /\ dbc.partnerFee + CurveFee \in Nat
        /\ base.curve - CurveBase \in Nat /\ bal[h] + CurveBase \in Nat
    BY <2>1, FieldsTyped, ConstantsTyped, AmountsTyped
  <2>3. dbc' \in Pools
    BY <2>1, <2>2 DEF TypeOK, Pools, Progress
  <2>4. base' \in BaseAccounts /\ bal' \in [Holders -> Nat]
    BY <2>1, <2>2 DEF TypeOK, BaseAccounts
  <2> QED BY <2>1, <2>3, <2>4, TypeFrame DEF TypeOK
<1>2. CASE SellOnCurve
  <2>1. PICK h \in Holders, amount \in CurveAmounts :
          /\ bal[h] >= CurveBase /\ dbc.reserve >= amount
          /\ dbc' = [dbc EXCEPT !.reserve = @ - amount,
                                !.trades = @ + 1,
                                !.partnerFee = @ + CurveFee]
          /\ base' = [base EXCEPT !.curve = @ + CurveBase]
          /\ bal' = [bal EXCEPT ![h] = @ - CurveBase]
          /\ UNCHANGED <<launch, totals, lp, quote, supply, faults, past>>
    BY <1>2 DEF SellOnCurve
  <2>2. /\ dbc.reserve - amount \in Nat /\ dbc.trades + 1 \in Nat
        /\ dbc.partnerFee + CurveFee \in Nat
        /\ base.curve + CurveBase \in Nat /\ bal[h] - CurveBase \in Nat
    BY <2>1, FieldsTyped, ConstantsTyped, AmountsTyped
  <2>3. dbc' \in Pools
    BY <2>1, <2>2 DEF TypeOK, Pools
  <2>4. base' \in BaseAccounts /\ bal' \in [Holders -> Nat]
    BY <2>1, <2>2 DEF TypeOK, BaseAccounts
  <2> QED BY <2>1, <2>3, <2>4, TypeFrame DEF TypeOK
<1> QED BY <1>1, <1>2

LEMMA MigrateToDammTyped ==
  ASSUME TypeOK, MigrateToDamm
  PROVE  TypeOK'
<1>1. PICK pooled \in 0..base.curve :
        /\ base.curve - pooled <= supply
        /\ base' = [base EXCEPT !.curve = 0, !.damm = pooled]
        /\ supply' = supply - (base.curve - pooled)
  BY DEF MigrateToDamm
<1>2. /\ base.curve \in Nat /\ supply \in Nat
  BY FieldsTyped
<1>3. /\ pooled \in Nat /\ supply - (base.curve - pooled) \in Nat
  BY <1>1, <1>2
<1>4. base' \in BaseAccounts /\ supply' \in Nat
  BY <1>1, <1>3 DEF TypeOK, BaseAccounts
<1>5. dbc' \in Pools
  BY DEF TypeOK, Pools, Progress, MigrateToDamm
<1>6. UNCHANGED <<launch, totals, lp, quote, bal, faults, past>>
  BY DEF MigrateToDamm
<1> QED BY <1>4, <1>5, <1>6, TypeFrame DEF TypeOK

LEMMA PoolTradesTyped ==
  ASSUME TypeOK, TradeOnDamm \/ TradeOnForeignPool
  PROVE  TypeOK'
<1>1. CASE TradeOnDamm
  <2>1. PICK h \in Holders, fee \in LpFees, bought \in {-1, 1} :
          /\ bal[h] + bought >= 0 /\ base.damm - bought >= 0
          /\ bal' = [bal EXCEPT ![h] = @ + bought]
          /\ base' = [base EXCEPT !.damm = @ - bought]
          /\ lp' = [lp EXCEPT !["own"].quote = @ + fee]
          /\ past' = [past EXCEPT !.lpFees = @ + fee]
          /\ UNCHANGED <<launch, totals, dbc, quote, supply, faults>>
    BY <1>1 DEF TradeOnDamm
  <2>2. /\ bal[h] + bought \in Nat /\ base.damm - bought \in Nat
        /\ "own" \in Positions /\ lp["own"].quote + fee \in Nat
    BY <2>1, FieldsTyped, AmountsTyped DEF Positions
  <2>3. base' \in BaseAccounts /\ bal' \in [Holders -> Nat]
    BY <2>1, <2>2 DEF TypeOK, BaseAccounts
  <2>4. lp' \in [Positions -> PositionFees]
    BY <2>1, <2>2 DEF TypeOK, PositionFees
  <2>5. past' \in Histories
    BY <2>1, AmountsTyped DEF TypeOK, Histories
  <2> QED BY <2>1, <2>3, <2>4, <2>5, TypeFrame DEF TypeOK
<1>2. CASE TradeOnForeignPool
  <2>1. PICK h \in Holders, fee \in LpFees :
          /\ bal[h] > 0
          /\ bal' = [bal EXCEPT ![h] = @ - 1]
          /\ lp' = [lp EXCEPT !["foreign"] = [quote |-> @.quote + fee, base |-> @.base + 1]]
          /\ past' = [past EXCEPT !.lpFees = @ + fee]
          /\ UNCHANGED <<launch, totals, dbc, quote, base, supply, faults>>
    BY <1>2 DEF TradeOnForeignPool
  <2>2. /\ bal[h] - 1 \in Nat
        /\ lp["foreign"].quote + fee \in Nat /\ lp["foreign"].base + 1 \in Nat
    BY <2>1, FieldsTyped, AmountsTyped DEF Positions
  <2>3. bal' \in [Holders -> Nat]
    BY <2>1, <2>2 DEF TypeOK
  <2>4. lp' \in [Positions -> PositionFees]
    BY <2>1, <2>2 DEF TypeOK, PositionFees
  <2>5. past' \in Histories
    BY <2>1, AmountsTyped DEF TypeOK, Histories
  <2> QED BY <2>1, <2>3, <2>4, <2>5, TypeFrame DEF TypeOK
<1> QED BY <1>1, <1>2

LEMMA EnvironmentTyped ==
  ASSUME TypeOK, Environment
  PROVE  TypeOK'
<1>1. CASE CreatePool
  <2>1. dbc' \in Pools
    BY <1>1 DEF TypeOK, Pools, CreatePool
  <2>2. base' \in BaseAccounts /\ supply' \in Nat
    BY <1>1, ConstantsTyped DEF TypeOK, BaseAccounts, CreatePool
  <2> QED BY <1>1, <2>1, <2>2, TypeFrame DEF TypeOK, CreatePool
<1>2. CASE BuyOnCurve \/ SellOnCurve
  BY <1>2, CurveTradesTyped
<1>3. CASE MigrateToDamm
  BY <1>3, MigrateToDammTyped
<1>4. CASE TradeOnDamm \/ TradeOnForeignPool
  BY <1>4, PoolTradesTyped
<1>5. CASE GiveToVault
  <2>1. quote' \in QuoteAccounts /\ past' \in Histories
    BY <1>5, AmountsTyped DEF TypeOK, QuoteAccounts, Histories, GiveToVault
  <2> QED BY <1>5, <2>1, TypeFrame DEF TypeOK, GiveToVault
<1>6. CASE GiveToTransit
  <2>1. quote' \in QuoteAccounts /\ past' \in Histories
    BY <1>6, AmountsTyped DEF TypeOK, QuoteAccounts, Histories, GiveToTransit
  <2> QED BY <1>6, <2>1, TypeFrame DEF TypeOK, GiveToTransit
<1>7. CASE GiveBase
  <2>1. PICK h \in Holders : bal[h] > 0 /\ bal' = [bal EXCEPT ![h] = @ - 1]
    BY <1>7 DEF GiveBase
  <2>2. bal' \in [Holders -> Nat]
    BY <2>1, FieldsTyped DEF TypeOK
  <2>3. base' \in BaseAccounts /\ past' \in Histories
    BY <1>7 DEF TypeOK, BaseAccounts, Histories, GiveBase
  <2> QED BY <1>7, <2>2, <2>3, TypeFrame DEF TypeOK, GiveBase
<1>8. CASE IssuerSeizes
  <2>1. quote' \in QuoteAccounts /\ past' \in Histories
    BY <1>8, AmountsTyped DEF TypeOK, QuoteAccounts, Histories, IssuerSeizes
  <2> QED BY <1>8, <2>1, TypeFrame DEF TypeOK, IssuerSeizes
<1>9. CASE FaultAppears \/ FaultClears
  <2>1. UNCHANGED <<launch, totals, dbc, lp, quote, bal, base, supply, past>>
    BY <1>9 DEF FaultAppears, FaultClears, state
  <2>2. faults' \subseteq Faults
    BY <1>9 DEF TypeOK, FaultAppears, FaultClears
  <2> QED BY <2>1, <2>2, TypeFrame DEF TypeOK
<1> QED
  BY <1>1, <1>2, <1>3, <1>4, <1>5, <1>6, <1>7, <1>8, <1>9 DEF Environment

LEMMA InitTyped == Init => TypeOK
<1> SUFFICES ASSUME Init PROVE TypeOK
  OBVIOUS
<1>1. 0 \in U64
  BY ConstantsTyped DEF U64
<1>2. totals \in Counters
  BY <1>1 DEF Init, Counters
<1>3. launch \in Launches /\ dbc \in Pools
  <2>1. NoLaunch \in Launches /\ [NoLaunch EXCEPT !.version = 2] \in Launches
    BY DEF NoLaunch, Launches, Versions
  <2>2. dbc \in Pools
    BY DEF Init, Pools, Progress
  <2> QED BY <2>1, <2>2 DEF Init
<1>4. lp \in [Positions -> PositionFees] /\ bal \in [Holders -> Nat]
  BY DEF Init, PositionFees
<1>5. quote \in QuoteAccounts /\ base \in BaseAccounts /\ past \in Histories
  BY DEF Init, QuoteAccounts, BaseAccounts, Histories
<1>6. supply \in Nat /\ faults \subseteq Faults
  BY DEF Init
<1> QED BY <1>2, <1>3, <1>4, <1>5, <1>6 DEF TypeOK

LEMMA NextTyped == TypeOK /\ [Next]_vars => TypeOK'
<1> SUFFICES ASSUME TypeOK, [Next]_vars PROVE TypeOK'
  OBVIOUS
<1>1. CASE Program
  BY <1>1, ProgramTyped
<1>2. CASE Environment
  BY <1>2, EnvironmentTyped
<1>3. CASE UNCHANGED vars
  BY <1>3, TypeFrame DEF TypeOK, vars
<1> QED BY <1>1, <1>2, <1>3 DEF Next

(***************************************************************************)
(* Every amount stays a natural number and every counter within its width, *)
(* whatever is traded, harvested, redeemed, donated or seized.             *)
(***************************************************************************)
THEOREM TypeInvariant == Spec => []TypeOK
<1>1. Init => TypeOK
  BY InitTyped
<1>2. TypeOK /\ [Next]_vars => TypeOK'
  BY NextTyped
<1> QED BY <1>1, <1>2, PTL DEF Spec

-----------------------------------------------------------------------------
(* The latches of the Launch account and the state of DBC.                 *)

\* LatchesAgree is not inductive alone.  That a migrated pool stays migrated
\* rests on its curve being complete, which stops all trades on it; that a
\* registered pool stays unreserved, on its being made only once.
Latches ==
    /\ LatchesAgree
    /\ dbc.progress # "bonding" => dbc.exists /\ IsCurveComplete
    /\ ~dbc.exists => supply = 0

LEMMA ProgramLatches ==
  ASSUME TypeOK, Latches, Program
  PROVE  Latches'
<1> USE DEF Latches, LatchesAgree, IsMigrationComplete, IsCurveComplete
<1>0. launch \in Launches /\ dbc \in Pools
  BY DEF TypeOK
<1>1. CASE CreateLaunch
  BY <1>1, <1>0 DEF CreateLaunch, Launches
<1>2. CASE RegisterPool
  BY <1>2, <1>0 DEF RegisterPool, Launches
<1>3. CASE HarvestCurveFees
  <2>1. /\ launch.registered /\ UNCHANGED launch
        /\ dbc' = [dbc EXCEPT !.partnerFee = 0]
    BY <1>3 DEF HarvestCurveFees, ClaimCurveFees
  <2> QED BY <2>1, <1>0 DEF Launches, Pools
<1>4. CASE HarvestMigrationFee
  <2>1. /\ launch.registered /\ UNCHANGED supply
        /\ dbc' = [dbc EXCEPT !.feeWithdrawn = TRUE]
        /\ launch' = [launch EXCEPT !.migrationFeeHarvested = TRUE,
                                    !.migrated = @ \/ dbc.progress = "createdPool"]
    BY <1>4 DEF HarvestMigrationFee, WithdrawMigrationFee
  <2> QED BY <2>1, <1>0 DEF Launches, Pools
<1>5. CASE HarvestSurplus
  <2>1. /\ launch.registered /\ UNCHANGED supply
        /\ dbc' = [dbc EXCEPT !.surplusWithdrawn = TRUE]
        /\ launch' = [launch EXCEPT !.surplusHarvested = TRUE,
                                    !.migrated = @ \/ dbc.progress = "createdPool"]
    BY <1>5 DEF HarvestSurplus, PartnerWithdrawSurplus
  <2> QED BY <2>1, <1>0 DEF Launches, Pools
<1>6. CASE SyncMigration
  BY <1>6, <1>0 DEF SyncMigration, LatchMigrated, Launches
<1>7. CASE BurnClaimerBase
  BY <1>7 DEF BurnClaimerBase
<1>8. CASE HarvestLpFees
  <2>1. launch.registered /\ UNCHANGED <<launch, dbc>>
    BY <1>8 DEF HarvestLpFees, ClaimPositionFee
  <2> QED BY <2>1
<1>9. CASE Redeem
  <2>1. /\ launch.registered /\ UNCHANGED dbc
        /\ launch.migrated \/ dbc.progress = "createdPool"
        /\ launch' = [launch EXCEPT !.migrated = TRUE]
    BY <1>9 DEF Redeem, RedeemTo, RedeemOpen, LatchMigrated
  <2> QED BY <2>1, <1>0 DEF Launches
<1> QED
  BY <1>1, <1>2, <1>3, <1>4, <1>5, <1>6, <1>7, <1>8, <1>9 DEF Program

LEMMA EnvironmentLatches ==
  ASSUME TypeOK, Latches, Environment
  PROVE  Latches'
<1> USE DEF Latches, LatchesAgree, IsMigrationComplete, IsCurveComplete
<1>0. launch \in Launches /\ dbc \in Pools
  BY DEF TypeOK
<1>1. CASE CreatePool
  BY <1>1, <1>0 DEF CreatePool, Launches, Pools
<1>2. CASE BuyOnCurve \/ SellOnCurve
  <2>1. dbc.exists /\ dbc.progress = "bonding" /\ UNCHANGED <<launch, supply>>
    BY <1>2, <1>0 DEF BuyOnCurve, SellOnCurve, Pools, Progress
  <2>2. /\ dbc'.exists = dbc.exists /\ dbc'.reservedName = dbc.reservedName
        /\ dbc'.feeWithdrawn = dbc.feeWithdrawn
        /\ dbc'.surplusWithdrawn = dbc.surplusWithdrawn
        /\ dbc'.progress # "bonding" => dbc'.reserve >= Threshold
    <3>1. CASE BuyOnCurve
      <4>1. PICK amount \in CurveAmounts :
              dbc' = [dbc EXCEPT !.reserve = @ + amount,
                                 !.trades = @ + 1,
                                 !.partnerFee = @ + CurveFee,
                                 !.progress = IF dbc.reserve + amount >= Threshold
                                              THEN "lockedVesting" ELSE @]
        BY <3>1 DEF BuyOnCurve
      <4> QED BY <4>1, <2>1, <1>0 DEF Pools
    <3>2. CASE SellOnCurve
      <4>1. PICK amount \in CurveAmounts :
              dbc' = [dbc EXCEPT !.reserve = @ - amount,
                                 !.trades = @ + 1,
                                 !.partnerFee = @ + CurveFee]
        BY <3>2 DEF SellOnCurve
      <4> QED BY <4>1, <2>1, <1>0 DEF Pools
    <3> QED BY <1>2, <3>1, <3>2
  <2>3. launch.migrated = FALSE
    BY <2>1, <1>0 DEF Launches
  <2> QED BY <2>1, <2>2, <2>3, <1>0 DEF Pools
<1>3. CASE MigrateToDamm
  <2>1. /\ dbc.progress = "lockedVesting" /\ UNCHANGED launch
        /\ dbc' = [dbc EXCEPT !.progress = "createdPool"]
    BY <1>3 DEF MigrateToDamm
  <2> QED BY <2>1, <1>0 DEF Launches, Pools
<1>4. CASE TradeOnDamm \/ TradeOnForeignPool
  BY <1>4 DEF TradeOnDamm, TradeOnForeignPool
<1>5. CASE GiveToVault \/ GiveToTransit \/ GiveBase \/ IssuerSeizes
  BY <1>5 DEF GiveToVault, GiveToTransit, GiveBase, IssuerSeizes
<1>6. CASE FaultAppears \/ FaultClears
  BY <1>6 DEF FaultAppears, FaultClears, state
<1> QED
  BY <1>1, <1>2, <1>3, <1>4, <1>5, <1>6 DEF Environment

IInv == TypeOK /\ Latches

LEMMA InitIInv == Init => IInv
<1> SUFFICES ASSUME Init PROVE Latches
  BY InitTyped DEF IInv
<1>1. launch \in {NoLaunch, [NoLaunch EXCEPT !.version = 2]}
  BY DEF Init
<1>2. ~launch.registered /\ ~launch.migrationFeeHarvested /\ ~launch.surplusHarvested
      /\ ~launch.migrated
  BY <1>1 DEF NoLaunch
<1>3. /\ supply = 0 /\ dbc.progress = "bonding"
      /\ ~dbc.feeWithdrawn /\ ~dbc.surplusWithdrawn
  BY DEF Init
<1> QED BY <1>2, <1>3 DEF Latches, LatchesAgree

LEMMA NextIInv == IInv /\ [Next]_vars => IInv'
<1> SUFFICES ASSUME TypeOK, Latches, [Next]_vars PROVE Latches'
  BY NextTyped DEF IInv
<1>1. CASE Program
  BY <1>1, ProgramLatches
<1>2. CASE Environment
  BY <1>2, EnvironmentLatches
<1>3. CASE UNCHANGED vars
  BY <1>3 DEF vars, Latches, LatchesAgree, IsMigrationComplete, IsCurveComplete
<1> QED BY <1>1, <1>2, <1>3 DEF Next

(***************************************************************************)
(* The Launch latches and DBC always agree, so a one-shot harvest that is  *)
(* outstanding for one is outstanding for the other.                       *)
(***************************************************************************)
THEOREM LatchesInvariant == Spec => []LatchesAgree
<1>1. IInv => LatchesAgree
  BY DEF IInv, Latches
<1> QED BY InitIInv, NextIInv, <1>1, PTL DEF Spec

LEMMA InductiveInvariant == Spec => []IInv
BY InitIInv, NextIInv, PTL DEF Spec

-----------------------------------------------------------------------------
(* What a step may do to the vault, the supply and the gate of redemption. *)

\* Harvests, donations, burns, trades, and whatever leaves all three alone.
Inflow ==
    /\ quote'.vault >= quote.vault
    /\ supply' <= supply
    /\ past'.seized = past.seized

\* DBC mints the supply of a launch that has none.
Issued ==
    /\ ~dbc.exists /\ supply = 0
    /\ supply' \in Nat \ {0}
    /\ UNCHANGED <<launch, quote, past>>
    /\ dbc'.progress = dbc.progress

Paid ==
    /\ Redeem
    /\ launch.registered /\ RedeemOpen /\ launch'.migrated
    /\ supply' < supply
    /\ quote'.vault <= quote.vault
    /\ (quote.vault - quote'.vault) * supply <= quote.vault * (supply - supply')
    /\ FloorNotDecreased(quote.vault, supply, quote'.vault, supply')
    /\ past'.seized = past.seized

Taken ==
    /\ quote'.vault <= quote.vault
    /\ past'.seized = past.seized + (quote.vault - quote'.vault)
    /\ UNCHANGED <<launch, dbc, supply>>

LEMMA DepositPaysIn ==
  ASSUME TypeOK, NEW d \in Distributions, Deposit(d)
  PROVE  quote'.vault = quote.vault + d.vault /\ quote'.vault >= quote.vault
<1>1. d.vault \in Nat /\ quote.vault \in Nat
  BY FieldsTyped DEF Distributions
<1>2. quote'.vault = quote.vault + d.vault
  BY DEF TypeOK, QuoteAccounts, Deposit
<1> QED BY <1>1, <1>2

LEMMA RedeemToPays ==
  ASSUME TypeOK, NEW h \in Holders, NEW to \in {"holders", "transit"},
         NEW amount \in 1..bal[h], RedeemTo(to, h, amount)
  PROVE  Paid
<1> DEFINE net == Net(quote.vault, supply, amount, ExitFeeBps)
<1>1. /\ amount \in Nat /\ amount > 0 /\ amount <= supply
      /\ net \in Nat /\ net <= quote.vault /\ net * supply <= quote.vault * amount
      /\ FloorNotDecreased(quote.vault, supply, quote.vault - net, supply - amount)
  BY RedeemAmounts DEF RedeemTo
<1>2. quote'.vault = quote.vault - net
  BY DEF RedeemTo, TypeOK, QuoteAccounts
<1>3. /\ launch.registered /\ RedeemOpen /\ launch'.migrated
      /\ supply' = supply - amount /\ UNCHANGED past
  BY DEF RedeemTo, LatchMigrated, TypeOK, Launches
<1> HIDE DEF net
<1>4. quote.vault \in Nat /\ supply \in Nat
  BY FieldsTyped
<1>5. quote.vault - quote'.vault = net /\ supply - supply' = amount
  BY <1>1, <1>2, <1>3, <1>4
<1>6. (quote.vault - quote'.vault) * supply <= quote.vault * (supply - supply')
  BY <1>1, <1>5
<1>7. FloorNotDecreased(quote.vault, supply, quote'.vault, supply')
  BY <1>1, <1>2, <1>3
<1>8. supply' < supply /\ quote'.vault <= quote.vault
  BY <1>1, <1>2, <1>3, <1>4
<1>9. Redeem
  BY DEF Redeem
<1> QED BY <1>3, <1>6, <1>7, <1>8, <1>9 DEF Paid

LEMMA ProgramSteps ==
  ASSUME IInv, Program
  PROVE  Inflow \/ Paid
<1>0. TypeOK /\ quote.vault \in Nat /\ supply \in Nat
  BY FieldsTyped DEF IInv
<1>1. CASE CreateLaunch \/ RegisterPool \/ SyncMigration
  BY <1>0, <1>1 DEF Inflow, CreateLaunch, RegisterPool, SyncMigration
<1>2. CASE HarvestCurveFees
  <2>1. quote'.vault >= quote.vault
    BY <1>0, <1>2, CurveDistributionExact, DepositPaysIn DEF HarvestCurveFees, ClaimCurveFees
  <2>2. supply' <= supply
    BY <1>0, <1>2, BurnTyped DEF HarvestCurveFees, ClaimCurveFees
  <2>3. past'.seized = past.seized
    BY <1>0, <1>2 DEF HarvestCurveFees, ClaimCurveFees, TypeOK, Histories
  <2> QED BY <2>1, <2>2, <2>3 DEF Inflow
<1>3. CASE HarvestMigrationFee
  <2>1. quote'.vault >= quote.vault
    BY <1>0, <1>3, GraduationDistribution, DepositPaysIn DEF HarvestMigrationFee
  <2>2. supply' = supply /\ past'.seized = past.seized
    BY <1>0, <1>3 DEF HarvestMigrationFee, TypeOK, Histories
  <2> QED BY <1>0, <2>1, <2>2 DEF Inflow
<1>4. CASE HarvestSurplus
  <2>1. PICK amount \in 0..(dbc.reserve - Threshold) :
          /\ quote' = [quote EXCEPT !.vault = @ + amount]
          /\ past' = [past EXCEPT !.taken = @ + amount]
          /\ UNCHANGED supply
    BY <1>4 DEF HarvestSurplus
  <2>2. amount \in Nat
    BY <1>0, FieldsTyped, ConstantsTyped
  <2> QED BY <1>0, <2>1, <2>2 DEF Inflow, TypeOK, QuoteAccounts, Histories
<1>5. CASE BurnClaimerBase
  <2>1. supply' <= supply
    BY <1>0, <1>5, BurnTyped DEF BurnClaimerBase
  <2> QED BY <1>0, <1>5, <2>1 DEF Inflow, BurnClaimerBase
<1>6. CASE HarvestLpFees
  <2>1. PICK p \in Positions : ClaimPositionFee(p)
    BY <1>6 DEF HarvestLpFees
  <2>2. lp[p].quote \in Nat /\ lp[p].base \in Nat
    BY <1>0, FieldsTyped
  <2>3. quote'.vault >= quote.vault
    BY <1>0, <2>1, <2>2, LpDistribution, DepositPaysIn DEF ClaimPositionFee
  <2>4. supply' <= supply
    BY <1>0, <2>1, <2>2, BurnTyped DEF ClaimPositionFee
  <2>5. past'.seized = past.seized
    BY <1>0, <2>1 DEF ClaimPositionFee, TypeOK, Histories
  <2> QED BY <2>3, <2>4, <2>5 DEF Inflow
<1>7. CASE Redeem
  BY <1>0, <1>7, RedeemToPays DEF Redeem
<1> QED
  BY <1>1, <1>2, <1>3, <1>4, <1>5, <1>6, <1>7 DEF Program

LEMMA EnvironmentSteps ==
  ASSUME IInv, Environment
  PROVE  Inflow \/ Issued \/ Taken
<1>0. TypeOK /\ quote.vault \in Nat /\ supply \in Nat
  BY FieldsTyped DEF IInv
<1>1. CASE CreatePool
  <2>1. ~dbc.exists /\ supply = 0
    BY <1>1 DEF CreatePool, IInv, Latches
  <2>2. dbc'.progress = dbc.progress
    BY <1>0, <1>1 DEF CreatePool, TypeOK, Pools
  <2> QED BY <1>1, <2>1, <2>2, ConstantsTyped DEF CreatePool, Issued
<1>2. CASE BuyOnCurve \/ SellOnCurve
  <2>1. UNCHANGED <<quote, supply, past>>
    BY <1>2 DEF BuyOnCurve, SellOnCurve
  <2> QED BY <1>0, <2>1 DEF Inflow
<1>3. CASE MigrateToDamm
  <2>1. PICK pooled \in 0..base.curve : supply' = supply - (base.curve - pooled)
    BY <1>3 DEF MigrateToDamm
  <2>2. supply' <= supply
    BY <1>0, <2>1, FieldsTyped
  <2> QED BY <1>0, <1>3, <2>2 DEF MigrateToDamm, Inflow
<1>4. CASE TradeOnDamm
  BY <1>0, <1>4 DEF TradeOnDamm, Inflow, TypeOK, Histories
<1>5. CASE TradeOnForeignPool
  BY <1>0, <1>5 DEF TradeOnForeignPool, Inflow, TypeOK, Histories
<1>6. CASE GiveToVault
  BY <1>0, <1>6, AmountsTyped DEF GiveToVault, Inflow, TypeOK, QuoteAccounts, Histories
<1>7. CASE GiveToTransit
  BY <1>0, <1>7, AmountsTyped DEF GiveToTransit, Inflow, TypeOK, QuoteAccounts, Histories
<1>8. CASE GiveBase
  BY <1>0, <1>8 DEF GiveBase, Inflow, TypeOK, Histories
<1>9. CASE IssuerSeizes
  <2>1. PICK amount \in Seizures :
          /\ amount <= quote.vault
          /\ quote' = [quote EXCEPT !.vault = @ - amount]
          /\ past' = [past EXCEPT !.seized = @ + amount]
          /\ UNCHANGED <<launch, dbc, supply>>
    BY <1>9 DEF IssuerSeizes
  <2>2. amount \in Nat
    BY AmountsTyped
  <2>3. quote'.vault = quote.vault - amount /\ past'.seized = past.seized + amount
    BY <1>0, <2>1 DEF TypeOK, QuoteAccounts, Histories
  <2> QED BY <1>0, <2>1, <2>2, <2>3 DEF Taken
<1>10. CASE FaultAppears \/ FaultClears
  BY <1>0, <1>10 DEF FaultAppears, FaultClears, state, Inflow
<1> QED
  BY <1>1, <1>2, <1>3, <1>4, <1>5, <1>6, <1>7, <1>8, <1>9, <1>10 DEF Environment

LEMMA Steps ==
  ASSUME IInv, [Next]_vars
  PROVE  Inflow \/ Issued \/ Paid \/ Taken
<1>1. quote.vault \in Nat /\ supply \in Nat
  BY FieldsTyped DEF IInv
<1>2. CASE UNCHANGED vars
  BY <1>1, <1>2 DEF vars, Inflow
<1> QED BY <1>2, ProgramSteps, EnvironmentSteps DEF Next

\* What no step but a seizure does: lower the floor of a registered launch.
LEMMA FloorStep ==
  ASSUME IInv, IInv', [Next]_vars, launch.registered, ~Seized
  PROVE  FloorNotDecreased(quote.vault, supply, quote'.vault, supply')
<1>1. /\ quote.vault \in Nat /\ supply \in Nat
      /\ quote'.vault \in Nat /\ supply' \in Nat
      /\ past.seized \in Nat /\ past'.seized \in Nat
  BY DEF IInv, TypeOK, QuoteAccounts, Histories
<1>2. CASE Inflow
  <2>1. CASE supply = 0
    BY <1>1, <1>2, <2>1 DEF Inflow, FloorNotDecreased
  <2>2. CASE supply > 0
    BY <1>1, <1>2, <2>2, InflowKeepsFloor DEF Inflow
  <2> QED BY <1>1, <2>1, <2>2
<1>3. CASE Issued
  BY <1>3 DEF Issued, IInv, Latches, LatchesAgree
<1>4. CASE Paid
  BY <1>4 DEF Paid
<1>5. CASE Taken
  <2>1. quote'.vault = quote.vault /\ supply' = supply
    BY <1>1, <1>5 DEF Taken, Seized
  <2> QED BY <1>1, <2>1 DEF FloorNotDecreased
<1> QED BY <1>2, <1>3, <1>4, <1>5, Steps

(***************************************************************************)
(* The floor never decreases through the program.  That redemptions keep   *)
(* it follows from the arithmetic (RedeemKeepsFloor), not from the check   *)
(* FloorDecreased of handle_redeem, which no premise here uses.            *)
(***************************************************************************)
THEOREM FloorTheorem == Spec => FloorNeverDecreases
<1>1. ASSUME IInv, IInv', [Next]_vars, launch.registered, ~Seized
      PROVE  FloorNotDecreased(quote.vault, supply, quote'.vault, supply')
  BY <1>1, FloorStep
<1>2. IInv /\ IInv' /\ [Next]_vars
        => [launch.registered /\ ~Seized =>
              FloorNotDecreased(quote.vault, supply, quote'.vault, supply')]_vars
  BY <1>1
<1> QED BY <1>2, InductiveInvariant, PTL DEF Spec, FloorNeverDecreases

(***************************************************************************)
(* Quote leaves the vault only to redeemers, at most at their pro-rata     *)
(* share, and only once redemption is open.                                *)
(***************************************************************************)
THEOREM PaymentTheorem == Spec => OnlyRedemptionPays
<1>1. ASSUME IInv, IInv', [Next]_vars, quote'.vault < quote.vault, ~Seized
      PROVE  /\ RedeemOpen
             /\ launch'.migrated
             /\ supply' < supply
             /\ (quote.vault - quote'.vault) * supply <= quote.vault * (supply - supply')
  <2>1. /\ quote.vault \in Nat /\ quote'.vault \in Nat
        /\ past.seized \in Nat /\ past'.seized \in Nat
    BY <1>1 DEF IInv, TypeOK, QuoteAccounts, Histories
  <2>2. ~Inflow /\ ~Issued /\ ~Taken
    BY <1>1, <2>1 DEF Inflow, Issued, Taken, Seized
  <2> QED BY <1>1, <2>2, Steps DEF Paid
<1>2. IInv /\ IInv' /\ [Next]_vars
        => [quote'.vault < quote.vault /\ ~Seized =>
              /\ RedeemOpen
              /\ launch'.migrated
              /\ supply' < supply
              /\ (quote.vault - quote'.vault) * supply
                   <= quote.vault * (supply - supply')]_vars
  BY <1>1
<1> QED BY <1>2, InductiveInvariant, PTL DEF Spec, OnlyRedemptionPays

-----------------------------------------------------------------------------
(* The launch implements FloorVault.                                       *)

\* Once the migration is done and the fee harvested, both stay so.
LEMMA GateStaysOpen ==
  ASSUME IInv, [Next]_vars, RedeemOpen
  PROVE  RedeemOpen'
<1>0. launch \in Launches /\ dbc \in Pools
  BY DEF IInv, TypeOK
<1>1. /\ launch.migrationFeeHarvested
      /\ dbc.progress = "createdPool" /\ dbc.exists /\ IsCurveComplete
  BY DEF RedeemOpen, IInv, Latches, LatchesAgree, IsMigrationComplete
<1>2. launch'.migrationFeeHarvested
  <2>1. CASE Program
    <3>1. CASE UNCHANGED launch
      BY <1>1, <3>1
    <3>2. CASE CreateLaunch \/ RegisterPool \/ HarvestMigrationFee \/ SyncMigration
      BY <1>0, <1>1, <3>2 DEF CreateLaunch, RegisterPool, HarvestMigrationFee,
           SyncMigration, LatchMigrated, Launches
    <3>3. CASE HarvestSurplus
      BY <1>0, <1>1, <3>3 DEF HarvestSurplus, Launches
    <3>4. CASE Redeem
      BY <1>0, <1>1, <3>4 DEF Redeem, RedeemTo, LatchMigrated, Launches
    <3>5. CASE HarvestCurveFees \/ BurnClaimerBase \/ HarvestLpFees
      BY <3>1, <3>5 DEF HarvestCurveFees, ClaimCurveFees, BurnClaimerBase,
           HarvestLpFees, ClaimPositionFee
    <3> QED BY <2>1, <3>1, <3>2, <3>3, <3>4, <3>5 DEF Program
  <2>2. CASE Environment
    BY <1>1, <2>2 DEF Environment, CreatePool, BuyOnCurve, SellOnCurve, MigrateToDamm,
         TradeOnDamm, TradeOnForeignPool, GiveToVault, GiveToTransit, GiveBase,
         IssuerSeizes, FaultAppears, FaultClears, state
  <2>3. CASE UNCHANGED vars
    BY <1>1, <2>3 DEF vars
  <2> QED BY <2>1, <2>2, <2>3 DEF Next
<1>3. dbc'.progress = "createdPool"
  <2>1. CASE UNCHANGED dbc
    BY <1>1, <2>1
  <2>2. CASE Program
    <3>1. CASE HarvestCurveFees
      BY <1>0, <1>1, <3>1 DEF HarvestCurveFees, ClaimCurveFees, Pools
    <3>2. CASE HarvestMigrationFee
      BY <1>0, <1>1, <3>2 DEF HarvestMigrationFee, WithdrawMigrationFee, Pools
    <3>3. CASE HarvestSurplus
      BY <1>0, <1>1, <3>3 DEF HarvestSurplus, PartnerWithdrawSurplus, Pools
    <3>4. CASE CreateLaunch \/ RegisterPool \/ SyncMigration \/ BurnClaimerBase
                 \/ HarvestLpFees \/ Redeem
      BY <2>1, <3>4 DEF CreateLaunch, RegisterPool, SyncMigration, BurnClaimerBase,
           HarvestLpFees, ClaimPositionFee, Redeem, RedeemTo
    <3> QED BY <2>2, <3>1, <3>2, <3>3, <3>4 DEF Program
  <2>3. CASE Environment
    <3>1. ~CreatePool /\ ~BuyOnCurve /\ ~SellOnCurve /\ ~MigrateToDamm
      BY <1>1 DEF CreatePool, BuyOnCurve, SellOnCurve, MigrateToDamm
    <3> QED BY <2>1, <2>3, <3>1 DEF Environment, TradeOnDamm, TradeOnForeignPool,
              GiveToVault, GiveToTransit, GiveBase, IssuerSeizes, FaultAppears,
              FaultClears, state
  <2>4. CASE UNCHANGED vars
    BY <2>1, <2>4 DEF vars
  <2> QED BY <2>2, <2>3, <2>4 DEF Next
<1> QED BY <1>2, <1>3 DEF RedeemOpen, IsMigrationComplete

LEMMA PromiseInit == Init => Promise!Init
<1> SUFFICES ASSUME Init PROVE Promise!Init
  OBVIOUS
<1>1. launch \in {NoLaunch, [NoLaunch EXCEPT !.version = 2]}
  BY DEF Init
<1>2. ~launch.migrationFeeHarvested
  BY <1>1 DEF NoLaunch
<1>3. quote.vault = 0 /\ supply = 0
  BY DEF Init
<1> QED BY <1>2, <1>3 DEF Promise!Init, RedeemOpen

\* Every step is a step of the promise, or leaves all it speaks of alone.
LEMMA PromiseStep ==
  ASSUME IInv, IInv', [Next]_vars
  PROVE  Promise!Next
<1>1. /\ quote.vault \in Nat /\ supply \in Nat
      /\ quote'.vault \in Nat /\ supply' \in Nat
  BY DEF IInv, TypeOK, QuoteAccounts
<1>2. RedeemOpen => RedeemOpen'
  BY GateStaysOpen
<1>3. CASE Inflow
  BY <1>2, <1>3 DEF Inflow, Promise!Next, Promise!Fund
<1>4. CASE Issued
  <2>1. ~RedeemOpen /\ ~RedeemOpen'
    BY <1>4 DEF Issued, IInv, Latches, LatchesAgree, RedeemOpen, IsMigrationComplete
  <2>2. UNCHANGED RedeemOpen
    BY <1>4 DEF Issued, RedeemOpen, IsMigrationComplete
  <2> QED BY <1>4, <2>1, <2>2 DEF Issued, Promise!Next, Promise!Issue
<1>5. CASE Paid
  BY <1>1, <1>2, <1>5 DEF Paid, Promise!Next, Promise!Pay
<1>6. CASE Taken
  <2>1. UNCHANGED RedeemOpen
    BY <1>6 DEF Taken, RedeemOpen, IsMigrationComplete
  <2>2. quote'.vault \in 0..quote.vault
    BY <1>1, <1>6 DEF Taken
  <2> QED BY <1>6, <2>1, <2>2 DEF Taken, Promise!Next, Promise!Seize
<1> QED BY <1>3, <1>4, <1>5, <1>6, Steps

(***************************************************************************)
(* Refinement: the launch, with every instruction, trade and fault of the  *)
(* world around it, keeps the promise stated by FloorVault.                *)
(***************************************************************************)
THEOREM PromiseTheorem == Spec => PromiseKept
<1>1. IInv /\ IInv' /\ [Next]_vars => [Promise!Next]_(Promise!vars)
  BY PromiseStep
<1> QED
  BY <1>1, PromiseInit, InductiveInvariant, PTL DEF Spec, PromiseKept, Promise!Spec

-----------------------------------------------------------------------------
(* The books: the quote accounts and the counters of the Launch account.   *)

LEMMA BooksTyped ==
  ASSUME TypeOK
  PROVE  /\ totals.harvestedQuote \in U64 /\ totals.burnedBase \in U64
         /\ totals.redeemedBase \in U64 /\ totals.redeemedQuote \in U64
         /\ totals.exitFees \in U64 /\ totals.platformQuote \in U64
         /\ totals.creatorQuote \in U64
         /\ DOMAIN totals = {"harvestedQuote", "burnedBase", "redeemedBase", "redeemedQuote",
                             "exitFees", "platformQuote", "creatorQuote"}
         /\ past.taken \in Nat /\ past.vaultGifts \in Nat /\ past.transitGifts \in Nat
         /\ past.seized \in Nat
         /\ U64 \subseteq Nat
<1>1. totals \in Counters /\ past \in Histories /\ U64Max \in Nat
  BY ConstantsTyped DEF TypeOK
<1>2. U64 \subseteq Nat
  BY <1>1 DEF U64
<1> QED BY <1>1, <1>2 DEF Counters, Histories

CountersGrow == \A c \in DOMAIN totals : totals'[c] >= totals[c]

\* What the books say of each other, and what they say to their past.
Books == QuoteConserved /\ CountersReconcile
BooksStep == Books' /\ CountersGrow

\* A step that moves no quote and harvests none.
LEMMA BooksUntouched ==
  ASSUME TypeOK, Books, UNCHANGED <<quote, totals>>,
         past'.taken = past.taken, past'.vaultGifts = past.vaultGifts,
         past'.transitGifts = past.transitGifts, past'.seized = past.seized
  PROVE  BooksStep
<1>1. Books'
  BY DEF Books, QuoteConserved, CountersReconcile
<1>2. CountersGrow
  BY BooksTyped DEF CountersGrow
<1> QED BY <1>1, <1>2 DEF BooksStep

LEMMA DepositFields ==
  ASSUME TypeOK, NEW d \in Distributions, Deposit(d)
  PROVE  /\ quote'.vault = quote.vault + d.vault
         /\ quote'.platform = quote.platform + d.platform
         /\ quote'.creator = quote.creator + d.creator
         /\ quote'.transit = d.transit
         /\ quote'.holders = quote.holders
BY DEF Deposit, TypeOK, QuoteAccounts

LEMMA CountersAfterFields ==
  ASSUME TypeOK, NEW d \in Distributions, NEW burned \in Nat,
         totals' = CountersAfter(d, burned)
  PROVE  /\ totals'.harvestedQuote = SaturatingAdd(totals.harvestedQuote, d.vault)
         /\ totals'.redeemedQuote = totals.redeemedQuote
         /\ totals'.redeemedBase = totals.redeemedBase
         /\ CountersGrow
<1>1. /\ d.vault \in Nat /\ d.platform \in Nat /\ d.creator \in Nat
  BY DEF Distributions
<1>2. /\ totals'.harvestedQuote = SaturatingAdd(totals.harvestedQuote, d.vault)
      /\ totals'.platformQuote = SaturatingAdd(totals.platformQuote, d.platform)
      /\ totals'.creatorQuote = SaturatingAdd(totals.creatorQuote, d.creator)
      /\ totals'.burnedBase = SaturatingAdd(totals.burnedBase, burned)
      /\ totals'.redeemedBase = totals.redeemedBase
      /\ totals'.redeemedQuote = totals.redeemedQuote
      /\ totals'.exitFees = totals.exitFees
  BY DEF CountersAfter, TypeOK, Counters
<1>3. CountersGrow
  <2>1. /\ totals'.harvestedQuote >= totals.harvestedQuote
        /\ totals'.platformQuote >= totals.platformQuote
        /\ totals'.creatorQuote >= totals.creatorQuote
        /\ totals'.burnedBase >= totals.burnedBase
    BY <1>1, <1>2, BooksTyped, SaturatingAddBounds
  <2> QED BY <1>2, <2>1, BooksTyped DEF CountersGrow
<1> QED BY <1>2, <1>3

LEMMA DepositSum ==
  ASSUME NEW v \in Nat, NEW t \in Nat, NEW p \in Nat, NEW c \in Nat, NEW rest \in Nat,
         NEW dv \in Nat, NEW dt \in Nat, NEW dp \in Nat, NEW dc \in Nat,
         NEW received \in Nat, dp + dc + dv + dt = t + received
  PROVE  (v + dv) + dt + (p + dp) + (c + dc) + rest = (v + t + p + c + rest) + received
OBVIOUS

\* A harvest that brings in `received`.
LEMMA HarvestBooks ==
  ASSUME TypeOK, Books, NEW d \in Distributions, NEW received \in Nat,
         d.platform + d.creator + d.vault + d.transit = quote.transit + received,
         quote'.vault = quote.vault + d.vault,
         quote'.platform = quote.platform + d.platform,
         quote'.creator = quote.creator + d.creator,
         quote'.transit = d.transit, quote'.holders = quote.holders,
         totals'.harvestedQuote = SaturatingAdd(totals.harvestedQuote, d.vault),
         totals'.redeemedQuote = totals.redeemedQuote,
         past'.taken = past.taken + received, past'.vaultGifts = past.vaultGifts,
         past'.transitGifts = past.transitGifts, past'.seized = past.seized
  PROVE  Books'
<1>1. /\ d.vault \in Nat /\ d.platform \in Nat /\ d.creator \in Nat /\ d.transit \in Nat
  BY DEF Distributions
<1> DEFINE sum == quote.vault + quote.transit + quote.platform + quote.creator
                    + quote.holders + past.seized
<1>4. QuoteConserved'
  <2>1. past.taken + past.vaultGifts + past.transitGifts = sum
    BY DEF Books, QuoteConserved
  <2>2. /\ quote.vault \in Nat /\ quote.transit \in Nat /\ quote.platform \in Nat
        /\ quote.creator \in Nat /\ quote.holders \in Nat /\ past.seized \in Nat
        /\ past.taken \in Nat /\ past.vaultGifts \in Nat /\ past.transitGifts \in Nat
    BY FieldsTyped, BooksTyped
  <2>3. past'.taken + past'.vaultGifts + past'.transitGifts = sum + received
    BY <2>1, <2>2
  <2>4. quote'.vault + quote'.transit + quote'.platform + quote'.creator + quote'.holders
          + past'.seized = sum + received
    <3>1. /\ quote'.vault = quote.vault + d.vault
          /\ quote'.platform = quote.platform + d.platform
          /\ quote'.creator = quote.creator + d.creator
          /\ quote'.transit = d.transit /\ quote'.holders = quote.holders
          /\ d.platform + d.creator + d.vault + d.transit = quote.transit + received
      OBVIOUS
    <3>2. (quote.vault + d.vault) + d.transit + (quote.platform + d.platform)
            + (quote.creator + d.creator) + (quote.holders + past.seized)
          = (quote.vault + quote.transit + quote.platform + quote.creator
               + (quote.holders + past.seized)) + received
      BY <1>1, <2>2, <3>1, DepositSum
    <3> QED BY <1>1, <2>2, <3>1, <3>2
  <2> QED BY <2>3, <2>4 DEF QuoteConserved
<1>5. CountersReconcile'
  <2> SUFFICES ASSUME totals'.harvestedQuote < U64Max, totals'.redeemedQuote < U64Max
               PROVE  quote'.vault + totals'.redeemedQuote + past'.seized =
                        totals'.harvestedQuote + past'.vaultGifts
    BY DEF CountersReconcile
  <2>1. totals'.harvestedQuote = totals.harvestedQuote + d.vault
    BY <1>1, BooksTyped, SaturatingAddBounds
  <2>2. totals.harvestedQuote < U64Max /\ totals.redeemedQuote < U64Max
    BY <1>1, <2>1, BooksTyped, ConstantsTyped
  <2>3. quote.vault + totals.redeemedQuote + past.seized
          = totals.harvestedQuote + past.vaultGifts
    BY <2>2 DEF Books, CountersReconcile
  <2>4. /\ quote.vault \in Nat /\ totals.redeemedQuote \in Nat /\ past.seized \in Nat
        /\ totals.harvestedQuote \in Nat /\ past.vaultGifts \in Nat
    BY FieldsTyped, BooksTyped
  <2>5. /\ quote'.vault = quote.vault + d.vault /\ d.vault \in Nat
        /\ totals'.redeemedQuote = totals.redeemedQuote
    BY <1>1
  <2>6. quote'.vault + totals'.redeemedQuote + past.seized
          = totals'.harvestedQuote + past.vaultGifts
    BY <2>1, <2>3, <2>4, <2>5
  <2> QED BY <2>6
<1> QED BY <1>4, <1>5 DEF Books

LEMMA RedeemBooks ==
  ASSUME TypeOK, Books, NEW h \in Holders, NEW to \in {"holders", "transit"},
         NEW amount \in 1..bal[h], RedeemTo(to, h, amount)
  PROVE  BooksStep /\ totals'.redeemedBase > 0
<1> DEFINE net == Net(quote.vault, supply, amount, ExitFeeBps)
           fee == Fee(quote.vault, supply, amount, ExitFeeBps)
<1>1. /\ amount \in Nat /\ amount > 0 /\ net \in Nat /\ net <= quote.vault /\ fee \in Nat
  BY RedeemAmounts DEF RedeemTo
<1>2. /\ quote' = IF to = "transit"
                  THEN [quote EXCEPT !.vault = @ - net, !.transit = @ + net]
                  ELSE [quote EXCEPT !.vault = @ - net, !.holders = @ + net]
      /\ totals' = [totals EXCEPT !.redeemedBase = SaturatingAdd(@, amount),
                                  !.redeemedQuote = SaturatingAdd(@, net),
                                  !.exitFees = SaturatingAdd(@, fee)]
      /\ past' = past
  BY DEF RedeemTo
<1> HIDE DEF net, fee
<1>3. /\ quote'.vault = quote.vault - net
      /\ quote'.transit + quote'.holders = quote.transit + quote.holders + net
      /\ quote'.transit \in Nat /\ quote'.holders \in Nat
      /\ quote'.platform = quote.platform /\ quote'.creator = quote.creator
  <2>1. CASE to = "transit"
    BY <1>1, <1>2, <2>1, FieldsTyped DEF TypeOK, QuoteAccounts
  <2>2. CASE to = "holders"
    BY <1>1, <1>2, <2>2, FieldsTyped DEF TypeOK, QuoteAccounts
  <2> QED BY <2>1, <2>2
<1>4. /\ totals'.redeemedBase = SaturatingAdd(totals.redeemedBase, amount)
      /\ totals'.redeemedQuote = SaturatingAdd(totals.redeemedQuote, net)
      /\ totals'.exitFees = SaturatingAdd(totals.exitFees, fee)
      /\ totals'.harvestedQuote = totals.harvestedQuote
      /\ totals'.burnedBase = totals.burnedBase
      /\ totals'.platformQuote = totals.platformQuote
      /\ totals'.creatorQuote = totals.creatorQuote
  BY <1>2 DEF TypeOK, Counters
<1>5. QuoteConserved'
  BY <1>1, <1>2, <1>3, FieldsTyped, BooksTyped DEF Books, QuoteConserved
<1>6. CountersReconcile'
  <2> SUFFICES ASSUME totals'.harvestedQuote < U64Max, totals'.redeemedQuote < U64Max
               PROVE  quote'.vault + totals'.redeemedQuote + past'.seized =
                        totals'.harvestedQuote + past'.vaultGifts
    BY DEF CountersReconcile
  <2>1. totals'.redeemedQuote = totals.redeemedQuote + net
    BY <1>1, <1>4, BooksTyped, SaturatingAddBounds
  <2>2. totals.harvestedQuote < U64Max /\ totals.redeemedQuote < U64Max
    BY <1>1, <1>4, <2>1, BooksTyped, ConstantsTyped
  <2>3. quote.vault + totals.redeemedQuote + past.seized
          = totals.harvestedQuote + past.vaultGifts
    BY <2>2 DEF Books, CountersReconcile
  <2>4. /\ quote.vault \in Nat /\ totals.redeemedQuote \in Nat /\ past.seized \in Nat
        /\ totals.harvestedQuote \in Nat /\ past.vaultGifts \in Nat
    BY FieldsTyped, BooksTyped
  <2> QED BY <1>1, <1>2, <1>3, <1>4, <2>1, <2>3, <2>4
<1>7. CountersGrow /\ totals'.redeemedBase > 0
  <2>1. /\ totals'.redeemedBase >= totals.redeemedBase /\ totals'.redeemedBase > 0
        /\ totals'.redeemedQuote >= totals.redeemedQuote
        /\ totals'.exitFees >= totals.exitFees
    BY <1>1, <1>4, BooksTyped, SaturatingAddBounds
  <2> QED BY <1>4, <2>1, BooksTyped DEF CountersGrow
<1> QED BY <1>5, <1>6, <1>7 DEF Books, BooksStep

LEMMA ProgramBooks ==
  ASSUME TypeOK, Books, Program
  PROVE  BooksStep
<1>1. CASE CreateLaunch \/ RegisterPool \/ SyncMigration
  BY <1>1, BooksUntouched DEF CreateLaunch, RegisterPool, SyncMigration
<1>2. CASE HarvestCurveFees
  <2> DEFINE d == CurveDistribution
  <2>1. /\ d \in Distributions
        /\ d.platform + d.creator + d.vault + d.transit = quote.transit + dbc.partnerFee
    BY CurveDistributionExact
  <2>2. /\ Deposit(d) /\ totals' = CountersAfter(d, base.claimer)
        /\ past' = [past EXCEPT !.curveFees = @ + dbc.partnerFee,
                                !.taken = @ + dbc.partnerFee]
    BY <1>2 DEF HarvestCurveFees, ClaimCurveFees
  <2> HIDE DEF d
  <2>3. /\ past'.taken = past.taken + dbc.partnerFee /\ past'.vaultGifts = past.vaultGifts
        /\ past'.transitGifts = past.transitGifts /\ past'.seized = past.seized
    BY <2>2 DEF TypeOK, Histories
  <2>4. dbc.partnerFee \in Nat /\ base.claimer \in Nat
    BY FieldsTyped
  <2>5. Books'
    BY <2>1, <2>2, <2>3, <2>4, DepositFields, CountersAfterFields, HarvestBooks
  <2> QED BY <2>1, <2>2, <2>4, <2>5, CountersAfterFields DEF BooksStep
<1>3. CASE HarvestMigrationFee
  <2> DEFINE received == PartnerMigrationFee(Threshold, FeePercentage)
             d == Distribution(received, MigrationFeeSplit(received))
  <2>1. /\ received \in Nat /\ d \in Distributions
        /\ d.platform + d.creator + d.vault + d.transit = quote.transit + received
    BY GraduationDistribution
  <2>2. /\ Deposit(d) /\ totals' = CountersAfter(d, 0)
        /\ past' = [past EXCEPT !.taken = @ + received]
    BY <1>3 DEF HarvestMigrationFee
  <2> HIDE DEF d, received
  <2>3. /\ past'.taken = past.taken + received /\ past'.vaultGifts = past.vaultGifts
        /\ past'.transitGifts = past.transitGifts /\ past'.seized = past.seized
    BY <2>2 DEF TypeOK, Histories
  <2>4. Books'
    BY <2>1, <2>2, <2>3, DepositFields, CountersAfterFields, HarvestBooks
  <2> QED BY <2>1, <2>2, <2>4, CountersAfterFields DEF BooksStep
<1>4. CASE HarvestSurplus
  <2>1. PICK amount \in 0..(dbc.reserve - Threshold) :
          /\ quote' = [quote EXCEPT !.vault = @ + amount]
          /\ totals' = [totals EXCEPT !.harvestedQuote = SaturatingAdd(@, amount)]
          /\ past' = [past EXCEPT !.taken = @ + amount]
    BY <1>4 DEF HarvestSurplus
  <2>2. amount \in Nat
    BY FieldsTyped, ConstantsTyped
  <2> DEFINE d == [platform |-> 0, creator |-> 0, transit |-> quote.transit,
                   vault |-> amount]
  <2>3. /\ d \in Distributions
        /\ d.platform + d.creator + d.vault + d.transit = quote.transit + amount
    BY <2>2, FieldsTyped DEF Distributions
  <2>4. /\ quote'.vault = quote.vault + d.vault
        /\ quote'.platform = quote.platform + d.platform
        /\ quote'.creator = quote.creator + d.creator
        /\ quote'.transit = d.transit /\ quote'.holders = quote.holders
    BY <2>1, FieldsTyped DEF TypeOK, QuoteAccounts
  <2>5. /\ past'.taken = past.taken + amount /\ past'.vaultGifts = past.vaultGifts
        /\ past'.transitGifts = past.transitGifts /\ past'.seized = past.seized
    BY <2>1 DEF TypeOK, Histories
  <2>6. /\ totals'.harvestedQuote = SaturatingAdd(totals.harvestedQuote, d.vault)
        /\ totals'.redeemedQuote = totals.redeemedQuote
        /\ CountersGrow
    <3>1. SaturatingAdd(totals.harvestedQuote, amount) >= totals.harvestedQuote
      BY <2>2, BooksTyped, SaturatingAddBounds
    <3> QED BY <2>1, <3>1, BooksTyped DEF TypeOK, Counters, CountersGrow
  <2> HIDE DEF d
  <2>7. Books'
    BY <2>2, <2>3, <2>4, <2>5, <2>6, HarvestBooks
  <2> QED BY <2>6, <2>7 DEF BooksStep
<1>5. CASE BurnClaimerBase
  <2>1. /\ totals' = [totals EXCEPT !.burnedBase = SaturatingAdd(@, base.claimer)]
        /\ UNCHANGED <<quote, past>>
    BY <1>5 DEF BurnClaimerBase
  <2>2. SaturatingAdd(totals.burnedBase, base.claimer) >= totals.burnedBase
    BY FieldsTyped, BooksTyped, SaturatingAddBounds
  <2>3. CountersGrow
    BY <2>1, <2>2, BooksTyped DEF TypeOK, Counters, CountersGrow
  <2>4. totals'.harvestedQuote = totals.harvestedQuote
        /\ totals'.redeemedQuote = totals.redeemedQuote
    BY <2>1 DEF TypeOK, Counters
  <2> QED BY <2>1, <2>3, <2>4 DEF BooksStep, Books, QuoteConserved, CountersReconcile
<1>6. CASE HarvestLpFees
  <2>1. PICK p \in Positions : ClaimPositionFee(p)
    BY <1>6 DEF HarvestLpFees
  <2> DEFINE received == lp[p].quote
             d == Distribution(received, LpFeeSplit(received))
             burned == base.claimer + lp[p].base
  <2>2. received \in Nat /\ burned \in Nat
    BY FieldsTyped
  <2>3. /\ d \in Distributions
        /\ d.platform + d.creator + d.vault + d.transit = quote.transit + received
    BY <2>2, LpDistribution
  <2>4. /\ Deposit(d) /\ totals' = CountersAfter(d, burned)
        /\ past' = [past EXCEPT !.taken = @ + received]
    BY <2>1 DEF ClaimPositionFee
  <2> HIDE DEF d, received, burned
  <2>5. /\ past'.taken = past.taken + received /\ past'.vaultGifts = past.vaultGifts
        /\ past'.transitGifts = past.transitGifts /\ past'.seized = past.seized
    BY <2>4 DEF TypeOK, Histories
  <2>6. Books'
    BY <2>2, <2>3, <2>4, <2>5, DepositFields, CountersAfterFields, HarvestBooks
  <2> QED BY <2>2, <2>3, <2>4, <2>6, CountersAfterFields DEF BooksStep
<1>7. CASE Redeem
  BY <1>7, RedeemBooks DEF Redeem
<1> QED
  BY <1>1, <1>2, <1>3, <1>4, <1>5, <1>6, <1>7 DEF Program

LEMMA EnvironmentBooks ==
  ASSUME TypeOK, Books, Environment
  PROVE  BooksStep
<1>0. /\ quote \in QuoteAccounts /\ past \in Histories
  BY DEF TypeOK
<1>1. CASE CreatePool \/ BuyOnCurve \/ SellOnCurve \/ MigrateToDamm
             \/ FaultAppears \/ FaultClears
  <2>1. UNCHANGED <<quote, totals, past>>
    BY <1>1 DEF CreatePool, BuyOnCurve, SellOnCurve, MigrateToDamm, FaultAppears,
         FaultClears, state
  <2> QED BY <2>1, BooksUntouched
<1>2. CASE TradeOnDamm \/ TradeOnForeignPool \/ GiveBase
  <2>1. UNCHANGED <<quote, totals>>
    BY <1>2 DEF TradeOnDamm, TradeOnForeignPool, GiveBase
  <2>2. /\ past'.taken = past.taken /\ past'.vaultGifts = past.vaultGifts
        /\ past'.transitGifts = past.transitGifts /\ past'.seized = past.seized
    BY <1>0, <1>2 DEF TradeOnDamm, TradeOnForeignPool, GiveBase, Histories
  <2> QED BY <2>1, <2>2, BooksUntouched
<1>3. ASSUME UNCHANGED totals PROVE CountersGrow
  BY <1>3, BooksTyped DEF CountersGrow
<1>4. CASE GiveToVault
  <2>1. UNCHANGED totals
    BY <1>4 DEF GiveToVault
  <2>2. PICK amount \in Nat : /\ quote' = [quote EXCEPT !.vault = @ + amount]
                              /\ past' = [past EXCEPT !.vaultGifts = @ + amount]
    BY <1>4, AmountsTyped DEF GiveToVault
  <2>3. QuoteConserved'
    BY <1>0, <2>2 DEF Books, QuoteConserved, QuoteAccounts, Histories
  <2>4. CountersReconcile'
    BY <1>0, <2>1, <2>2, BooksTyped DEF Books, CountersReconcile, QuoteAccounts, Histories
  <2> QED BY <1>3, <2>1, <2>3, <2>4 DEF BooksStep, Books
<1>5. CASE GiveToTransit
  <2>1. UNCHANGED totals
    BY <1>5 DEF GiveToTransit
  <2>2. PICK amount \in Nat : /\ quote' = [quote EXCEPT !.transit = @ + amount]
                              /\ past' = [past EXCEPT !.transitGifts = @ + amount]
    BY <1>5, AmountsTyped DEF GiveToTransit
  <2>3. QuoteConserved'
    BY <1>0, <2>2 DEF Books, QuoteConserved, QuoteAccounts, Histories
  <2>4. CountersReconcile'
    BY <1>0, <2>1, <2>2, BooksTyped DEF Books, CountersReconcile, QuoteAccounts, Histories
  <2> QED BY <1>3, <2>1, <2>3, <2>4 DEF BooksStep, Books
<1>6. CASE IssuerSeizes
  <2>1. UNCHANGED totals
    BY <1>6 DEF IssuerSeizes
  <2>2. PICK amount \in Nat : /\ quote' = [quote EXCEPT !.vault = @ - amount]
                              /\ past' = [past EXCEPT !.seized = @ + amount]
    BY <1>6, AmountsTyped DEF IssuerSeizes
  <2>3. QuoteConserved'
    BY <1>0, <2>2 DEF Books, QuoteConserved, QuoteAccounts, Histories
  <2>4. CountersReconcile'
    BY <1>0, <2>1, <2>2, BooksTyped DEF Books, CountersReconcile, QuoteAccounts, Histories
  <2> QED BY <1>3, <2>1, <2>3, <2>4 DEF BooksStep, Books
<1> QED
  BY <1>1, <1>2, <1>4, <1>5, <1>6 DEF Environment

LEMMA NextBooks ==
  ASSUME TypeOK, Books, [Next]_vars
  PROVE  BooksStep
<1>1. CASE UNCHANGED vars
  <2>1. UNCHANGED <<quote, totals, past>>
    BY <1>1 DEF vars
  <2> QED BY <2>1, BooksUntouched
<1> QED BY <1>1, ProgramBooks, EnvironmentBooks DEF Next

LEMMA InitBooks == Init => Books
BY ConstantsTyped DEF Init, Books, QuoteConserved, CountersReconcile

LEMMA BooksInvariant == Spec => [](TypeOK /\ Books)
<1>1. TypeOK /\ Books /\ [Next]_vars => (TypeOK /\ Books)'
  BY NextTyped, NextBooks DEF BooksStep
<1> QED BY <1>1, InitTyped, InitBooks, PTL DEF Spec

(***************************************************************************)
(* Every quote unit is accounted for, for all amounts, splits and failures *)
(* of payees.                                                              *)
(***************************************************************************)
THEOREM ConservationTheorem == Spec => []QuoteConserved
<1>1. Books => QuoteConserved
  BY DEF Books
<1> QED BY <1>1, BooksInvariant, PTL

(***************************************************************************)
(* The counters of the Launch account reconcile with its vault.            *)
(***************************************************************************)
THEOREM ReconcileTheorem == Spec => []CountersReconcile
<1>1. Books => CountersReconcile
  BY DEF Books
<1> QED BY <1>1, BooksInvariant, PTL

(***************************************************************************)
(* No counter ever goes back, at whatever width.                           *)
(***************************************************************************)
THEOREM CountersTheorem == Spec => CountersOnlyGrow
<1>1. TypeOK /\ Books /\ [Next]_vars => [\A c \in DOMAIN totals : totals'[c] >= totals[c]]_vars
  BY NextBooks DEF BooksStep, CountersGrow
<1> QED BY <1>1, BooksInvariant, PTL DEF Spec, CountersOnlyGrow

-----------------------------------------------------------------------------
(* The floor that graduation delivers.                                     *)

\* Only HarvestMigrationFee sets the latch of the migration fee.
LEMMA FeeLatch ==
  ASSUME TypeOK, [Next]_vars, ~HarvestMigrationFee
  PROVE  launch'.migrationFeeHarvested = launch.migrationFeeHarvested
<1>0. launch \in Launches
  BY DEF TypeOK
<1>1. CASE Program
  <2>1. CASE CreateLaunch \/ RegisterPool \/ SyncMigration
    BY <1>0, <2>1 DEF CreateLaunch, RegisterPool, SyncMigration, LatchMigrated, Launches
  <2>2. CASE HarvestSurplus
    BY <1>0, <2>2 DEF HarvestSurplus, Launches
  <2>3. CASE Redeem
    BY <1>0, <2>3 DEF Redeem, RedeemTo, LatchMigrated, Launches
  <2>4. CASE HarvestCurveFees \/ BurnClaimerBase \/ HarvestLpFees
    BY <2>4 DEF HarvestCurveFees, ClaimCurveFees, BurnClaimerBase,
         HarvestLpFees, ClaimPositionFee
  <2> QED BY <1>1, <2>1, <2>2, <2>3, <2>4 DEF Program
<1>2. CASE Environment
  BY <1>2 DEF Environment, CreatePool, BuyOnCurve, SellOnCurve, MigrateToDamm,
       TradeOnDamm, TradeOnForeignPool, GiveToVault, GiveToTransit, GiveBase,
       IssuerSeizes, FaultAppears, FaultClears, state
<1>3. CASE UNCHANGED vars
  BY <1>3 DEF vars
<1> QED BY <1>1, <1>2, <1>3 DEF Next

LEMMA VaultAtGraduationTyped == VaultAtGraduation(Threshold, FeePercentage) \in Nat
<1> DEFINE received == PartnerMigrationFee(Threshold, FeePercentage)
<1>1. received \in 0..Threshold
  BY ConstantsTyped, PartnerFeeBounds
<1>2. received \in Nat
  BY <1>1, ConstantsTyped
<1> HIDE DEF received
<1>3. GraduationSplit(Threshold, received) \in [platform : Nat, creator : Nat, vault : Nat]
  BY <1>2, ConstantsTyped, GraduationSplitExact
<1> QED BY <1>3 DEF VaultAtGraduation, received

LEMMA GraduationStep ==
  ASSUME IInv, IInv', Books, InitialFloorDelivered, [Next]_vars
  PROVE  InitialFloorDelivered'
<1> DEFINE V == VaultAtGraduation(Threshold, FeePercentage)
<1> SUFFICES ASSUME launch'.migrationFeeHarvested, totals'.redeemedBase = 0
             PROVE  quote'.vault + past'.seized >= V
  BY DEF InitialFloorDelivered
<1>0. V \in Nat
  BY VaultAtGraduationTyped
<1>1. /\ TypeOK /\ quote.vault \in Nat /\ quote'.vault \in Nat
      /\ past.seized \in Nat /\ past'.seized \in Nat
  BY DEF IInv, TypeOK, QuoteAccounts, Histories
<1>2. CASE HarvestMigrationFee
  <2> DEFINE received == PartnerMigrationFee(Threshold, FeePercentage)
             d == Distribution(received, MigrationFeeSplit(received))
  <2>1. d \in Distributions /\ d.vault >= V
    BY <1>1, GraduationDistribution
  <2>2. Deposit(d)
    BY <1>2 DEF HarvestMigrationFee
  <2> HIDE DEF d, V
  <2>3. quote'.vault = quote.vault + d.vault /\ d.vault \in Nat
    BY <1>1, <2>1, <2>2, DepositFields DEF Distributions
  <2> QED BY <1>0, <1>1, <2>1, <2>3
<1>3. CASE ~HarvestMigrationFee
  <2>1. launch.migrationFeeHarvested
    BY <1>1, <1>3, FeeLatch
  <2>2. totals.redeemedBase = 0
    <3>1. totals'.redeemedBase >= totals.redeemedBase
      BY <1>1, NextBooks, BooksTyped DEF BooksStep, CountersGrow
    <3> QED BY <1>1, <3>1, BooksTyped
  <2>3. quote.vault + past.seized >= V
    BY <2>1, <2>2 DEF InitialFloorDelivered
  <2>4. ~Redeem
    BY <1>1, RedeemBooks DEF Redeem
  <2> HIDE DEF V
  <2>5. CASE Inflow
    BY <1>0, <1>1, <2>3, <2>5 DEF Inflow
  <2>6. CASE Issued
    BY <2>3, <2>6 DEF Issued
  <2>7. CASE Taken
    BY <1>0, <1>1, <2>3, <2>7 DEF Taken
  <2> QED BY <2>4, <2>5, <2>6, <2>7, Steps DEF Paid
<1> QED BY <1>2, <1>3

(***************************************************************************)
(* The graduation fee brings at least the floor the config promises, for   *)
(* every threshold and fee, whichever payees fail, whatever the transit    *)
(* held, and in whatever order fee, surplus and migration come.            *)
(***************************************************************************)
THEOREM GraduationTheorem == Spec => []InitialFloorDelivered
<1>1. Init => InitialFloorDelivered
  BY DEF Init, NoLaunch, InitialFloorDelivered
<1>2. IInv /\ IInv' /\ Books /\ InitialFloorDelivered /\ [Next]_vars => InitialFloorDelivered'
  BY GraduationStep
<1> QED BY <1>1, <1>2, InductiveInvariant, BooksInvariant, PTL DEF Spec

-----------------------------------------------------------------------------
(* Who gets which fee.                                                     *)

\* Nobody but the program writes the Launch account.
LEMMA EnvironmentKeepsLaunch == Environment => UNCHANGED launch
<1>1. CreatePool \/ BuyOnCurve \/ SellOnCurve \/ MigrateToDamm => UNCHANGED launch
  BY DEF CreatePool, BuyOnCurve, SellOnCurve, MigrateToDamm
<1>2. TradeOnDamm \/ TradeOnForeignPool => UNCHANGED launch
  BY DEF TradeOnDamm, TradeOnForeignPool
<1>3. GiveToVault \/ GiveToTransit \/ GiveBase \/ IssuerSeizes => UNCHANGED launch
  BY DEF GiveToVault, GiveToTransit, GiveBase, IssuerSeizes
<1>4. FaultAppears \/ FaultClears => UNCHANGED launch
  BY DEF FaultAppears, FaultClears, state
<1> QED BY <1>1, <1>2, <1>3, <1>4 DEF Environment

\* Only one instruction makes a launch, one registers its pool, and no latch is undone.
LEMMA LaunchFields ==
  ASSUME TypeOK, [Next]_vars
  PROVE  /\ ~CreateLaunch => launch'.version = launch.version
         /\ ~RegisterPool => launch'.registered = launch.registered
         /\ launch.registered => launch'.registered
         /\ launch.migrationFeeHarvested => launch'.migrationFeeHarvested
         /\ launch.surplusHarvested => launch'.surplusHarvested
         /\ launch.migrated => launch'.migrated
<1>0. launch \in Launches
  BY DEF TypeOK
<1>1. CASE UNCHANGED launch
  BY <1>1
<1>2. CASE Program
  <2>1. CASE CreateLaunch
    BY <1>0, <2>1 DEF CreateLaunch, Launches, RegisterPool
  <2>2. CASE RegisterPool
    BY <1>0, <2>2 DEF RegisterPool, Launches
  <2>3. CASE SyncMigration
    BY <1>0, <2>3 DEF SyncMigration, LatchMigrated, Launches
  <2>4. CASE HarvestMigrationFee
    BY <1>0, <2>4 DEF HarvestMigrationFee, Launches
  <2>5. CASE HarvestSurplus
    BY <1>0, <2>5 DEF HarvestSurplus, Launches
  <2>6. CASE Redeem
    BY <1>0, <2>6 DEF Redeem, RedeemTo, LatchMigrated, Launches
  <2>7. CASE HarvestCurveFees \/ BurnClaimerBase \/ HarvestLpFees
    BY <1>1, <2>7 DEF HarvestCurveFees, ClaimCurveFees, BurnClaimerBase,
         HarvestLpFees, ClaimPositionFee
  <2> QED BY <1>2, <2>1, <2>2, <2>3, <2>4, <2>5, <2>6, <2>7 DEF Program
<1>3. CASE Environment
  <2>1. UNCHANGED launch
    BY <1>3, EnvironmentKeepsLaunch
  <2> QED BY <1>1, <2>1
<1>4. CASE UNCHANGED vars
  BY <1>1, <1>4 DEF vars
<1> QED BY <1>2, <1>3, <1>4 DEF Next

\* LP fees that wait in the positions, and the two cuts of a graduation fee that is large
\* enough for both.
Unclaimed == lp["own"].quote + lp["foreign"].quote
GraduationCuts == GraduationSplit(Threshold, Threshold).platform
                    + GraduationSplit(Threshold, Threshold).creator

\* What a harvest can pay to the payees has come in before, and is claimed once: the LP
\* fees from the positions, the cuts with the latch of the migration fee.
Routing ==
    /\ launch.version = 0 =>
          ~launch.registered /\ ~launch.migrationFeeHarvested /\ past.curveFees = 0
    /\ launch.version # 3 => quote.platform = 0 /\ quote.creator = 0
    /\ Unclaimed <= past.lpFees
    /\ launch.version = 3 =>
        /\ quote.platform >= past.curveFees
        /\ quote.platform + quote.creator + Unclaimed
             <= past.curveFees + past.lpFees
                + (IF launch.migrationFeeHarvested THEN GraduationCuts ELSE 0)

\* The cuts of a smaller fee are no larger.
LEMMA CutsBounded ==
  ASSUME NEW received \in 0..Threshold
  PROVE  /\ GraduationCuts \in Nat
         /\ GraduationSplit(Threshold, received).platform \in Nat
         /\ GraduationSplit(Threshold, received).creator \in Nat
         /\ GraduationSplit(Threshold, received).platform
              + GraduationSplit(Threshold, received).creator <= GraduationCuts
         /\ SplitTotal(GraduationSplit(Threshold, Threshold))
              - GraduationSplit(Threshold, Threshold).vault = GraduationCuts
<1> DEFINE cut == BpsFloor(Threshold, 500)
<1>1. cut \in Nat /\ Threshold \in Nat /\ received \in Nat /\ received <= Threshold
  BY ConstantsTyped, BpsBounds DEF BpsDenominator
<1> HIDE DEF cut
<1>2. \A r \in Nat : GraduationSplit(Threshold, r) =
        [platform |-> SmallerOf(cut, r), creator |-> SmallerOf(cut, r - SmallerOf(cut, r)),
         vault |-> r - SmallerOf(cut, r) - SmallerOf(cut, r - SmallerOf(cut, r))]
  BY DEF GraduationSplit, cut, PlatformGraduationFeeBps, CreatorGraduationBonusBps
<1>3. \A x, y \in Nat : /\ SmallerOf(x, y) \in Nat /\ SmallerOf(x, y) <= x
                         /\ SmallerOf(x, y) <= y /\ SmallerOf(x, y) \in {x, y}
  BY DEF SmallerOf
<1>4. \A r \in Nat : r - SmallerOf(cut, r) \in Nat
  BY <1>1, <1>3
<1>5. /\ SmallerOf(cut, received) <= SmallerOf(cut, Threshold)
      /\ SmallerOf(cut, received) + SmallerOf(cut, received - SmallerOf(cut, received))
           <= SmallerOf(cut, Threshold) + SmallerOf(cut, Threshold - SmallerOf(cut, Threshold))
  BY <1>1 DEF SmallerOf
<1>6. \A r \in Nat :
        /\ GraduationSplit(Threshold, r).platform = SmallerOf(cut, r)
        /\ GraduationSplit(Threshold, r).creator = SmallerOf(cut, r - SmallerOf(cut, r))
        /\ GraduationSplit(Threshold, r).vault
             = r - SmallerOf(cut, r) - SmallerOf(cut, r - SmallerOf(cut, r))
  BY <1>2
<1>7. GraduationCuts = SmallerOf(cut, Threshold)
                         + SmallerOf(cut, Threshold - SmallerOf(cut, Threshold))
  BY <1>1, <1>6 DEF GraduationCuts
<1>8. /\ SmallerOf(cut, Threshold) \in Nat
      /\ SmallerOf(cut, Threshold - SmallerOf(cut, Threshold)) \in Nat
      /\ SmallerOf(cut, received) \in Nat
      /\ SmallerOf(cut, received - SmallerOf(cut, received)) \in Nat
  BY <1>1, <1>3, <1>4
<1>9. SplitTotal(GraduationSplit(Threshold, Threshold))
        - GraduationSplit(Threshold, Threshold).vault = GraduationCuts
  BY <1>1, <1>6, <1>7, <1>8 DEF SplitTotal
<1> QED BY <1>1, <1>5, <1>6, <1>7, <1>8, <1>9

\* What the invariant speaks of.
LEMMA RoutedTyped ==
  ASSUME TypeOK
  PROVE  /\ quote.platform \in Nat /\ quote.creator \in Nat
         /\ past.curveFees \in Nat /\ past.lpFees \in Nat
         /\ lp["own"].quote \in Nat /\ lp["foreign"].quote \in Nat /\ Unclaimed \in Nat
         /\ launch.version \in {0, 2, 3}
<1>1. lp["own"].quote \in Nat /\ lp["foreign"].quote \in Nat
  BY FieldsTyped DEF Positions
<1> QED BY <1>1 DEF TypeOK, QuoteAccounts, Histories, Launches, Versions, Unclaimed

LEMMA RoutedTypedNext ==
  ASSUME TypeOK'
  PROVE  /\ past'.curveFees \in Nat /\ past'.lpFees \in Nat /\ Unclaimed' \in Nat
<1>1. /\ past' \in Histories /\ lp'["own"] \in PositionFees /\ lp'["foreign"] \in PositionFees
  BY DEF TypeOK, Positions
<1> QED BY <1>1 DEF Histories, PositionFees, Unclaimed

\* A step that pays no payee, and after which as much waits as came in.
LEMMA RoutingFrame ==
  ASSUME TypeOK, TypeOK', Routing,
         launch'.version = launch.version,
         launch'.registered = launch.registered \/ launch.version # 0,
         launch'.migrationFeeHarvested = launch.migrationFeeHarvested,
         quote'.platform = quote.platform, quote'.creator = quote.creator,
         past'.curveFees = past.curveFees,
         past'.lpFees + Unclaimed = past.lpFees + Unclaimed'
  PROVE  Routing'
<1>1. Threshold \in Nat /\ GraduationCuts \in Nat
  BY ConstantsTyped, CutsBounded
<1>2. /\ past'.lpFees \in Nat /\ Unclaimed' \in Nat
      /\ past.lpFees \in Nat /\ Unclaimed \in Nat
  BY RoutedTyped, RoutedTypedNext
<1> QED BY <1>1, <1>2, RoutedTyped DEF Routing

LEMMA ProgramRouting ==
  ASSUME IInv, IInv', Routing, Program
  PROVE  Routing'
<1>0. /\ TypeOK /\ TypeOK' /\ [Next]_vars
      /\ launch \in Launches /\ quote \in QuoteAccounts /\ past \in Histories
      /\ lp \in [Positions -> PositionFees]
  BY DEF IInv, TypeOK, Next
<1>1. CASE CreateLaunch
  <2>1. /\ launch.version = 0 /\ launch'.version = 3
        /\ launch'.migrationFeeHarvested = launch.migrationFeeHarvested
        /\ UNCHANGED <<quote, lp, past>>
    BY <1>0, <1>1 DEF CreateLaunch, Launches
  <2>2. UNCHANGED Unclaimed
    BY <2>1 DEF Unclaimed
  <2> QED BY <1>0, <2>1, <2>2, RoutedTyped DEF Routing
<1>2. CASE RegisterPool \/ SyncMigration \/ BurnClaimerBase
  <2>1. /\ launch.version = launch'.version
        /\ launch'.registered = launch.registered \/ launch.version # 0
        /\ launch'.migrationFeeHarvested = launch.migrationFeeHarvested
        /\ UNCHANGED <<quote, lp, past>>
    BY <1>0, <1>2 DEF RegisterPool, SyncMigration, BurnClaimerBase, LatchMigrated, Launches
  <2>2. UNCHANGED Unclaimed
    BY <2>1 DEF Unclaimed
  <2> QED BY <1>0, <2>1, <2>2, RoutedTyped, RoutingFrame
<1>3. CASE HarvestCurveFees
  <2> DEFINE d == CurveDistribution
  <2>1. /\ UNCHANGED <<launch, lp>> /\ launch.registered /\ Deposit(d)
        /\ past' = [past EXCEPT !.curveFees = @ + dbc.partnerFee,
                                !.taken = @ + dbc.partnerFee]
    BY <1>3 DEF HarvestCurveFees, ClaimCurveFees
  <2>2. /\ d.creator = 0
        /\ d.platform = IF launch.version = 3 THEN dbc.partnerFee ELSE 0
    BY <1>0, RoutedTyped DEF CurveDistribution, FeeSplitEnabled
  <2>3. dbc.partnerFee \in Nat
    BY <1>0, FieldsTyped
  <2> HIDE DEF d
  <2>4. /\ quote'.platform = quote.platform + d.platform
        /\ quote'.creator = quote.creator + d.creator
        /\ past'.curveFees = past.curveFees + dbc.partnerFee
        /\ past'.lpFees = past.lpFees
    BY <1>0, <2>1 DEF Deposit, QuoteAccounts, Histories
  <2>5. UNCHANGED Unclaimed
    BY <2>1 DEF Unclaimed
  <2>6. GraduationCuts \in Nat
    BY ConstantsTyped, CutsBounded
  <2> QED BY <1>0, <2>1, <2>2, <2>3, <2>4, <2>5, <2>6, RoutedTyped DEF Routing
<1>4. CASE HarvestMigrationFee
  <2> DEFINE received == PartnerMigrationFee(Threshold, FeePercentage)
             split == GraduationSplit(Threshold, received)
             d == Distribution(received, split)
  <2>1. /\ launch.registered /\ ~launch.migrationFeeHarvested
        /\ launch'.version = launch.version /\ launch'.registered = launch.registered
        /\ launch'.migrationFeeHarvested
        /\ UNCHANGED lp /\ past' = [past EXCEPT !.taken = @ + received]
        /\ Deposit(d)
    BY <1>0, <1>4 DEF HarvestMigrationFee, Launches, MigrationFeeSplit
  <2>2. received \in 0..Threshold
    BY ConstantsTyped, PartnerFeeBounds
  <2> HIDE DEF received
  <2>3. /\ GraduationCuts \in Nat /\ split.platform \in Nat /\ split.creator \in Nat
        /\ split.platform + split.creator <= GraduationCuts
    BY <2>2, CutsBounded
  <2>4. /\ d.platform \in {0, split.platform} /\ d.creator \in {0, split.creator}
        /\ launch.version # 3 => d.platform = 0 /\ d.creator = 0
    BY <1>0, RoutedTyped DEF Distribution, FeeSplitEnabled
  <2> HIDE DEF d, split
  <2>5. /\ quote'.platform = quote.platform + d.platform
        /\ quote'.creator = quote.creator + d.creator
        /\ past'.curveFees = past.curveFees /\ past'.lpFees = past.lpFees
    BY <1>0, <2>1 DEF Deposit, QuoteAccounts, Histories
  <2>6. UNCHANGED Unclaimed
    BY <2>1 DEF Unclaimed
  <2>7. d.platform \in Nat /\ d.creator \in Nat /\ d.platform + d.creator <= GraduationCuts
    <3> HIDE DEF Routing
    <3>1. d.platform = 0 \/ d.platform = split.platform
      BY <2>4
    <3>2. d.creator = 0 \/ d.creator = split.creator
      BY <2>4
    <3> QED BY <2>3, <3>1, <3>2
  <2>8. CASE launch.version = 3
    <3>1. /\ quote.platform >= past.curveFees
          /\ quote.platform + quote.creator + Unclaimed <= past.curveFees + past.lpFees
      BY <2>1, <2>8, RoutedTyped, <1>0 DEF Routing
    <3>2. /\ quote'.platform >= past'.curveFees
          /\ quote'.platform + quote'.creator + Unclaimed'
               <= past'.curveFees + past'.lpFees + GraduationCuts
      BY <1>0, <2>3, <2>5, <2>6, <2>7, <3>1, RoutedTyped
    <3> QED BY <1>0, <2>1, <2>5, <2>6, <2>8, <3>2, RoutedTyped DEF Routing
  <2>9. CASE launch.version # 3
    BY <1>0, <2>1, <2>4, <2>5, <2>6, <2>9, RoutedTyped DEF Routing
  <2> QED BY <2>8, <2>9
<1>5. CASE HarvestSurplus
  <2>1. /\ launch'.version = launch.version /\ launch'.registered = launch.registered
        /\ launch'.migrationFeeHarvested = launch.migrationFeeHarvested
        /\ quote'.platform = quote.platform /\ quote'.creator = quote.creator
        /\ past'.curveFees = past.curveFees /\ past'.lpFees = past.lpFees /\ UNCHANGED lp
    BY <1>0, <1>5 DEF HarvestSurplus, Launches, QuoteAccounts, Histories
  <2>2. UNCHANGED Unclaimed
    BY <2>1 DEF Unclaimed
  <2> QED BY <1>0, <2>1, <2>2, RoutedTyped, RoutingFrame
<1>6. CASE HarvestLpFees
  <2>1. PICK p \in Positions : ClaimPositionFee(p)
    BY <1>6 DEF HarvestLpFees
  <2> DEFINE received == lp[p].quote
             split == LpFeeSplit(received)
             d == Distribution(received, split)
  <2>2. /\ launch.registered /\ UNCHANGED launch /\ Deposit(d)
        /\ lp' = [lp EXCEPT ![p] = [quote |-> 0, base |-> 0]]
        /\ past' = [past EXCEPT !.taken = @ + received]
    BY <2>1 DEF ClaimPositionFee
  <2>3. received \in Nat
    BY <1>0, FieldsTyped
  <2>4. Unclaimed' + received = Unclaimed
    BY <1>0, <2>2, RoutedTyped DEF Unclaimed, Positions
  <2> HIDE DEF received
  <2>5. split \in Splits /\ split.platform + split.creator + split.vault = received
    BY <2>3, LpFeeSplitExact DEF Splits, SplitTotal
  <2>6. /\ d.platform \in {0, split.platform} /\ d.creator \in {0, split.creator}
        /\ launch.version # 3 => d.platform = 0 /\ d.creator = 0
    BY <1>0, RoutedTyped DEF Distribution, FeeSplitEnabled
  <2> HIDE DEF d, split
  <2>7. /\ split.platform \in Nat /\ split.creator \in Nat /\ split.vault \in Nat
    BY <2>5 DEF Splits
  <2>8. /\ quote'.platform = quote.platform + d.platform
        /\ quote'.creator = quote.creator + d.creator
        /\ past'.curveFees = past.curveFees /\ past'.lpFees = past.lpFees
    BY <1>0, <2>2 DEF Deposit, QuoteAccounts, Histories
  <2>9. d.platform \in Nat /\ d.creator \in Nat /\ d.platform + d.creator <= received
    <3>1. d.platform = 0 \/ d.platform = split.platform
      BY <2>6
    <3>2. d.creator = 0 \/ d.creator = split.creator
      BY <2>6
    <3> QED BY <2>3, <2>5, <2>7, <3>1, <3>2
  <2>10. Unclaimed' \in Nat /\ Unclaimed \in Nat /\ Unclaimed' <= past'.lpFees
    BY <1>0, <2>3, <2>4, <2>8, RoutedTyped, RoutedTypedNext DEF Routing
  <2>11. CASE launch.version = 3
    <3> DEFINE cuts == IF launch.migrationFeeHarvested THEN GraduationCuts ELSE 0
    <3>1. cuts \in Nat
      BY ConstantsTyped, CutsBounded
    <3>2. /\ quote.platform >= past.curveFees
          /\ quote.platform + quote.creator + Unclaimed <= past.curveFees + past.lpFees + cuts
      BY <2>11, RoutedTyped, <1>0 DEF Routing
    <3> HIDE DEF cuts
    <3>3. /\ quote'.platform >= past'.curveFees
          /\ quote'.platform + quote'.creator + Unclaimed' <= past'.curveFees + past'.lpFees + cuts
      <4>1. /\ quote.platform \in Nat /\ quote.creator \in Nat
            /\ past.curveFees \in Nat /\ past.lpFees \in Nat
        BY <1>0, RoutedTyped
      <4> DEFINE after == Unclaimed'
                 before == Unclaimed
                 platform == quote.platform + d.platform
                 creator == quote.creator + d.creator
      <4>2. /\ after \in Nat /\ before \in Nat /\ after + received = before
            /\ quote.platform + quote.creator + before <= past.curveFees + past.lpFees + cuts
        BY <2>4, <2>10, <3>2
      <4> HIDE DEF after, before
      <4>3. platform >= past.curveFees
        BY <2>9, <3>2, <4>1
      <4>4. platform + creator + after <= past.curveFees + past.lpFees + cuts
        BY <2>3, <2>9, <3>1, <4>1, <4>2
      <4> QED BY <2>8, <4>3, <4>4 DEF after
    <3>4. UNCHANGED cuts
      BY <2>2 DEF cuts
    <3> QED BY <1>0, <2>2, <2>8, <2>10, <2>11, <3>3 DEF Routing, cuts
  <2>12. CASE launch.version # 3
    BY <1>0, <2>2, <2>6, <2>8, <2>10, <2>12, RoutedTyped DEF Routing
  <2> QED BY <2>11, <2>12
<1>7. CASE Redeem
  <2>1. /\ launch'.version = launch.version /\ launch'.registered = launch.registered
        /\ launch'.migrationFeeHarvested = launch.migrationFeeHarvested
        /\ quote'.platform = quote.platform /\ quote'.creator = quote.creator
        /\ UNCHANGED <<past, lp>>
    BY <1>0, <1>7 DEF Redeem, RedeemTo, LatchMigrated, Launches, QuoteAccounts
  <2>2. UNCHANGED Unclaimed
    BY <2>1 DEF Unclaimed
  <2> QED BY <1>0, <2>1, <2>2, RoutedTyped, RoutingFrame
<1> QED BY <1>1, <1>2, <1>3, <1>4, <1>5, <1>6, <1>7 DEF Program

LEMMA EnvironmentRouting ==
  ASSUME IInv, IInv', Routing, Environment
  PROVE  Routing'
<1>0. /\ TypeOK /\ TypeOK'
      /\ quote \in QuoteAccounts /\ past \in Histories /\ lp \in [Positions -> PositionFees]
  BY DEF IInv, TypeOK
<1>1. UNCHANGED launch
  BY EnvironmentKeepsLaunch
<1>2. CASE UNCHANGED <<quote, past, lp>>
  <2>1. UNCHANGED Unclaimed
    BY <1>2 DEF Unclaimed
  <2> QED BY <1>0, <1>1, <1>2, <2>1, RoutedTyped, RoutingFrame
<1>3. CASE TradeOnDamm \/ TradeOnForeignPool
  <2>1. PICK p \in Positions, fee \in LpFees :
          /\ lp'[p].quote = lp[p].quote + fee
          /\ \A q \in Positions \ {p} : lp'[q] = lp[q]
          /\ past'.lpFees = past.lpFees + fee /\ past'.curveFees = past.curveFees
          /\ UNCHANGED quote
    BY <1>0, <1>3 DEF TradeOnDamm, TradeOnForeignPool, Positions, PositionFees, Histories
  <2>2. fee \in Nat
    BY AmountsTyped
  <2>3. past'.lpFees + Unclaimed = past.lpFees + Unclaimed'
    BY <1>0, <2>1, <2>2, RoutedTyped DEF Unclaimed, Positions
  <2> QED BY <1>0, <1>1, <2>1, <2>3, RoutingFrame
<1>4. CASE GiveToVault \/ GiveToTransit \/ IssuerSeizes \/ GiveBase
  <2>1. /\ quote'.platform = quote.platform /\ quote'.creator = quote.creator
        /\ past'.curveFees = past.curveFees /\ past'.lpFees = past.lpFees /\ UNCHANGED lp
    BY <1>0, <1>4 DEF GiveToVault, GiveToTransit, IssuerSeizes, GiveBase, QuoteAccounts, Histories
  <2>2. UNCHANGED Unclaimed
    BY <2>1 DEF Unclaimed
  <2> QED BY <1>0, <1>1, <2>1, <2>2, RoutedTyped, RoutingFrame
<1>5. CASE CreatePool \/ BuyOnCurve \/ SellOnCurve \/ MigrateToDamm \/ FaultAppears \/ FaultClears
  BY <1>2, <1>5 DEF CreatePool, BuyOnCurve, SellOnCurve, MigrateToDamm, FaultAppears,
       FaultClears, state
<1> QED BY <1>3, <1>4, <1>5 DEF Environment

(***************************************************************************)
(* A version 2 launch pays the vault only; of a version 3 launch the       *)
(* platform gets the curve fees, and platform and creator together no more *)
(* than these, the cuts of the graduation fee and the LP fees, for every   *)
(* threshold and fee and whichever payees fail.                            *)
(***************************************************************************)
THEOREM RoutingTheorem == Spec => []FeeRouting
<1>1. Init => Routing
  <2> SUFFICES ASSUME Init PROVE Routing
    OBVIOUS
  <2>1. launch.version \in {0, 2} /\ ~launch.registered /\ ~launch.migrationFeeHarvested
    BY DEF Init, NoLaunch
  <2>2. /\ quote.platform = 0 /\ quote.creator = 0 /\ past.curveFees = 0 /\ past.lpFees = 0
        /\ lp["own"].quote = 0 /\ lp["foreign"].quote = 0
    BY DEF Init, Positions
  <2> QED BY <2>1, <2>2 DEF Routing, Unclaimed
<1>2. IInv /\ IInv' /\ Routing /\ [Next]_vars => Routing'
  <2> SUFFICES ASSUME IInv, IInv', Routing, UNCHANGED vars PROVE Routing'
    BY ProgramRouting, EnvironmentRouting DEF Next
  <2> QED BY DEF vars, Routing, Unclaimed
<1>3. IInv /\ Routing => FeeRouting
  <2> SUFFICES ASSUME IInv, Routing PROVE FeeRouting
    OBVIOUS
  <2>1. /\ GraduationCuts \in Nat
        /\ SplitTotal(GraduationSplit(Threshold, Threshold))
             - GraduationSplit(Threshold, Threshold).vault = GraduationCuts
    BY ConstantsTyped, CutsBounded
  <2>2. TypeOK
    BY DEF IInv
  <2>3. CASE launch.version = 2
    BY <2>3 DEF Routing, FeeRouting
  <2>4. CASE launch.version = 3
    BY <2>1, <2>2, <2>4, RoutedTyped DEF Routing, FeeRouting
  <2> QED BY <2>3, <2>4 DEF FeeRouting
<1> QED BY <1>1, <1>2, <1>3, InductiveInvariant, PTL DEF Spec

-----------------------------------------------------------------------------
(* What the floor view reports.                                            *)

(***************************************************************************)
(* Nor does what the floor view reports, a fixed point number rounded      *)
(* down, for every resolution of it, as long as there are tokens.          *)
(***************************************************************************)
THEOREM ReportedFloorTheorem == Spec => ReportedFloorNeverDrops
<1>1. ASSUME IInv, IInv', [Next]_vars, ~Seized, supply' # 0
      PROVE  FloorView'.floorQ64 >= FloorView.floorQ64
  <2>1. /\ quote.vault \in Nat /\ supply \in Nat
        /\ quote'.vault \in Nat /\ supply' \in Nat \ {0}
        /\ FixedPointOne \in Nat /\ launch.registered \in BOOLEAN
    BY <1>1, LaunchAssumption DEF IInv, TypeOK, QuoteAccounts, Launches
  <2> DEFINE before == (quote.vault * FixedPointOne) \div supply
             after == (quote'.vault * FixedPointOne) \div supply'
  <2>2. after \in Nat
    BY <2>1, DivBounds
  <2>3. /\ FloorView.floorQ64 = IF launch.registered /\ supply # 0 THEN before ELSE 0
        /\ FloorView'.floorQ64 = IF launch'.registered THEN after ELSE 0
    BY <2>1 DEF FloorView
  <2>4. CASE launch.registered /\ supply # 0
    <3>1. quote.vault * supply' <= quote'.vault * supply
      <4>1. FloorNotDecreased(quote.vault, supply, quote'.vault, supply')
        BY <1>1, <2>4, FloorStep
      <4> QED BY <2>1, <4>1 DEF FloorNotDecreased
    <3>2. before <= after /\ before \in Nat
      BY <2>1, <2>4, <3>1, QuotientMonotone, DivBounds
    <3>3. launch'.registered
      BY <1>1, <2>4, LaunchFields DEF IInv
    <3> HIDE DEF before, after
    <3> QED BY <2>2, <2>3, <2>4, <3>2, <3>3
  <2>5. CASE ~(launch.registered /\ supply # 0)
    <3> HIDE DEF before, after
    <3> QED BY <2>2, <2>3, <2>5
  <2> QED BY <2>4, <2>5
<1>2. IInv /\ IInv' /\ [Next]_vars
        => [~Seized /\ supply' # 0 => FloorView'.floorQ64 >= FloorView.floorQ64]_vars
  BY <1>1
<1> QED BY <1>2, InductiveInvariant, PTL DEF Spec, ReportedFloorNeverDrops

-----------------------------------------------------------------------------
(* Every base token is somewhere.                                          *)

\* The base tokens of all holders, as the sum the lemmas are about.
Held == Sum(bal, Holders)

LEMMA NothingToShare ==
  ASSUME NEW a \in Nat, NEW b \in Nat, NEW c \in Nat, NEW d \in Nat, NEW e \in Nat,
         0 = a + b + c + d + e
  PROVE  b = 0
OBVIOUS

LEMMA HeldTyped ==
  ASSUME TypeOK
  PROVE  Held \in Nat /\ Circulating = Held
<1>1. bal \in [Holders -> Nat] /\ IsFiniteSet(Holders)
  BY LaunchAssumption DEF TypeOK
<1>2. DOMAIN bal = Holders
  BY <1>1
<1> QED BY <1>1, <1>2, SumNat DEF Held, Circulating, FoldFunction, Sum

\* One holder's balance changes by d.
LEMMA HolderMoves ==
  ASSUME TypeOK, NEW h \in Holders, NEW d \in Int, bal[h] + d >= 0,
         bal' = [bal EXCEPT ![h] = bal[h] + d]
  PROVE  Held' = Held + d
<1>1. bal \in [Holders -> Nat] /\ IsFiniteSet(Holders)
  BY LaunchAssumption DEF TypeOK
<1>2. bal'[h] = bal[h] + d /\ bal[h] \in Int /\ Sum(bal, Holders) \in Nat
  BY <1>1, SumNat
<1>3. SameBut(bal, bal', Holders, h)
  BY <1>1 DEF SameBut
<1>4. Sum(bal', Holders) = Sum(bal, Holders) - bal[h] + bal'[h]
  <2>1. IsFiniteSet(Holders)
    BY <1>1
  <2>2. /\ Sum(bal', Holders) = Sum(bal, Holders) - bal[h] + bal'[h]
        /\ Sum(bal, Holders) \in Int /\ Sum(bal', Holders) \in Int
    BY ONLY <2>1, <1>3, SumChanged, Zenon
  <2> QED BY <2>2
<1> QED BY <1>2, <1>3, <1>4 DEF Held

\* The base tokens that are with no holder.
Elsewhere == base.claimer + base.curve + base.damm + lp["own"].base + lp["foreign"].base

\* MigrateToDamm says what is in the DAMM pool, so nothing was in it before.
DammEmpty == dbc.progress # "createdPool" => base.damm = 0

Accounted == supply = Held + Elsewhere /\ DammEmpty

LEMMA AccountedTyped ==
  ASSUME TypeOK
  PROVE  /\ base.claimer \in Nat /\ base.curve \in Nat /\ base.damm \in Nat
         /\ lp["own"].base \in Nat /\ lp["foreign"].base \in Nat
         /\ Elsewhere \in Nat /\ Held \in Nat /\ supply \in Nat
<1>1. /\ base.claimer \in Nat /\ base.curve \in Nat /\ base.damm \in Nat /\ supply \in Nat
      /\ lp["own"].base \in Nat /\ lp["foreign"].base \in Nat
  BY FieldsTyped DEF Positions
<1> QED BY <1>1, HeldTyped DEF Elsewhere

LEMMA AccountedStep ==
  ASSUME TypeOK, Accounted, NEW c \in Int, NEW e \in Int,
         Held' = Held + c, Elsewhere' = Elsewhere + e,
         supply' = supply + c + e, DammEmpty'
  PROVE  Accounted'
BY AccountedTyped DEF Accounted

\* A step that touches no base token.
LEMMA AccountedFrame ==
  ASSUME Accounted, UNCHANGED <<lp, bal, base, supply>>, dbc'.progress = dbc.progress
  PROVE  Accounted'
<1>1. Held' = Held
  BY DEF Held
<1>2. Elsewhere' = Elsewhere
  BY DEF Elsewhere
<1> QED BY <1>1, <1>2 DEF Accounted, DammEmpty

LEMMA BurnAccounted ==
  ASSUME TypeOK, TypeOK', Accounted, NEW amount \in Nat, BurnAllSigned(amount),
         UNCHANGED bal, dbc'.progress = dbc.progress,
         lp'["own"].base + lp'["foreign"].base = lp["own"].base + lp["foreign"].base - amount,
         lp'["own"].base \in Nat, lp'["foreign"].base \in Nat
  PROVE  Accounted'
<1>1. /\ supply' = supply - (base.claimer + amount)
      /\ base'.claimer = 0 /\ base'.curve = base.curve /\ base'.damm = base.damm
  BY DEF BurnAllSigned, TypeOK, BaseAccounts
<1>2. Elsewhere' = Elsewhere + (0 - (base.claimer + amount))
  BY <1>1, AccountedTyped DEF Elsewhere
<1>3. Held' = Held + 0
  BY AccountedTyped DEF Held
<1>4. DammEmpty'
  BY <1>1 DEF Accounted, DammEmpty
<1>5. 0 - (base.claimer + amount) \in Int /\ supply' = supply + 0 + (0 - (base.claimer + amount))
  BY <1>1, AccountedTyped
<1> QED BY <1>2, <1>3, <1>4, <1>5, AccountedStep

LEMMA ProgramAccounted ==
  ASSUME TypeOK, TypeOK', Accounted, Program
  PROVE  Accounted'
<1>0. dbc \in Pools
  BY DEF TypeOK
<1>1. CASE CreateLaunch \/ RegisterPool \/ SyncMigration
  BY <1>1, AccountedFrame DEF CreateLaunch, RegisterPool, SyncMigration
<1>2. CASE HarvestMigrationFee \/ HarvestSurplus
  <2>1. UNCHANGED <<lp, bal, base, supply>>
    BY <1>2 DEF HarvestMigrationFee, HarvestSurplus
  <2>2. dbc'.progress = dbc.progress
    BY <1>0, <1>2 DEF HarvestMigrationFee, WithdrawMigrationFee, HarvestSurplus, PartnerWithdrawSurplus, Pools
  <2> QED BY <2>1, <2>2, AccountedFrame
<1>3. CASE HarvestCurveFees
  <2>1. BurnAllSigned(0) /\ UNCHANGED <<lp, bal>> /\ dbc' = [dbc EXCEPT !.partnerFee = 0]
    BY <1>3 DEF HarvestCurveFees, ClaimCurveFees
  <2>2. dbc'.progress = dbc.progress
    BY <1>0, <2>1 DEF Pools
  <2> QED BY <2>1, <2>2, BurnAccounted, AccountedTyped
<1>4. CASE BurnClaimerBase
  <2>1. BurnAllSigned(0) /\ UNCHANGED <<lp, bal, dbc>>
    BY <1>4 DEF BurnClaimerBase
  <2> QED BY <2>1, BurnAccounted, AccountedTyped
<1>5. CASE HarvestLpFees
  <2>1. PICK p \in Positions :
          /\ BurnAllSigned(lp[p].base) /\ UNCHANGED <<bal, dbc>>
          /\ lp' = [lp EXCEPT ![p] = [quote |-> 0, base |-> 0]]
    BY <1>5 DEF HarvestLpFees, ClaimPositionFee
  <2>2. lp'[p].base = 0 /\ \A q \in Positions : q # p => lp'[q] = lp[q]
    BY <2>1 DEF TypeOK
  <2>3. /\ lp'["own"].base + lp'["foreign"].base = lp["own"].base + lp["foreign"].base - lp[p].base
        /\ lp'["own"].base \in Nat /\ lp'["foreign"].base \in Nat
        /\ lp[p].base \in Nat
    <3>1. CASE p = "own"
      BY <2>2, <3>1, AccountedTyped DEF Positions
    <3>2. CASE p = "foreign"
      BY <2>2, <3>2, AccountedTyped DEF Positions
    <3> QED BY <3>1, <3>2 DEF Positions
  <2> QED BY <2>1, <2>3, BurnAccounted
<1>6. CASE Redeem
  <2>1. PICK h \in Holders, to \in {"holders", "transit"} :
          \E amount \in 1..bal[h] : RedeemTo(to, h, amount)
    BY <1>6 DEF Redeem
  <2>2. PICK amount \in 1..bal[h] : RedeemTo(to, h, amount)
    BY <2>1
  <2>3. /\ bal' = [bal EXCEPT ![h] = bal[h] - amount] /\ supply' = supply - amount
        /\ UNCHANGED <<dbc, lp, base>>
    BY <2>2 DEF RedeemTo
  <2>4. bal[h] \in Nat /\ amount \in Nat /\ amount <= bal[h]
    BY FieldsTyped
  <2>5. bal[h] - amount = bal[h] + (0 - amount) /\ 0 - amount \in Int /\ bal[h] + (0 - amount) >= 0
    BY <2>4
  <2>6. bal' = [bal EXCEPT ![h] = bal[h] + (0 - amount)]
    BY <2>3, <2>5
  <2>7. Held' = Held + (0 - amount)
    BY <2>5, <2>6, HolderMoves
  <2>8. Elsewhere' = Elsewhere + 0 /\ DammEmpty'
    BY <2>3, AccountedTyped DEF Elsewhere, Accounted, DammEmpty
  <2>9. supply' = supply + (0 - amount) + 0
    BY <2>3, <2>4, FieldsTyped
  <2> QED BY <2>5, <2>7, <2>8, <2>9, AccountedStep
<1> QED BY <1>1, <1>2, <1>3, <1>4, <1>5, <1>6 DEF Program

LEMMA EnvironmentAccounted ==
  ASSUME TypeOK, TypeOK', Latches, Accounted, Environment
  PROVE  Accounted'
<1>0. dbc \in Pools /\ base \in BaseAccounts /\ bal \in [Holders -> Nat] /\ lp \in [Positions -> PositionFees]
  BY DEF TypeOK
<1>1. CASE CreatePool
  <2>1. /\ ~dbc.exists /\ supply' = InitialSupply /\ UNCHANGED <<lp, bal>>
        /\ base' = [base EXCEPT !.curve = InitialSupply]
    BY <1>1 DEF CreatePool
  <2>2. dbc'.progress = dbc.progress
    BY <1>0, <1>1 DEF CreatePool, Pools
  <2>3. supply = 0
    BY <2>1 DEF Latches
  <2>4. Held = 0 /\ Elsewhere = 0 /\ base.curve = 0
    <3>1. 0 = Held + Elsewhere
      BY <2>3 DEF Accounted
    <3>2. Elsewhere = 0 /\ Held = 0
      BY <3>1, AccountedTyped
    <3>3. Elsewhere = base.claimer + base.curve + base.damm + lp["own"].base + lp["foreign"].base
      BY DEF Elsewhere
    <3>4. /\ base.claimer \in Nat /\ base.curve \in Nat /\ base.damm \in Nat
          /\ lp["own"].base \in Nat /\ lp["foreign"].base \in Nat
      BY AccountedTyped
    <3>5. base.curve = 0
      <4>1. 0 = base.claimer + base.curve + base.damm + lp["own"].base + lp["foreign"].base
        BY <3>2, <3>3
      <4> QED BY <3>4, <4>1, NothingToShare
    <3> QED BY <3>2, <3>5
  <2>5. /\ base'.curve = InitialSupply /\ base'.claimer = base.claimer /\ base'.damm = base.damm
    BY <1>0, <2>1 DEF BaseAccounts
  <2>6. Elsewhere' = Elsewhere + InitialSupply
    BY <2>1, <2>4, <2>5, AccountedTyped, ConstantsTyped DEF Elsewhere
  <2>7. Held' = Held + 0
    BY <2>1, AccountedTyped DEF Held
  <2>8. DammEmpty'
    BY <2>2, <2>5 DEF Accounted, DammEmpty
  <2>9. InitialSupply \in Int /\ supply' = supply + 0 + InitialSupply
    BY <2>1, <2>3, ConstantsTyped
  <2> QED BY <2>6, <2>7, <2>8, <2>9, AccountedStep
<1>2. CASE BuyOnCurve
  <2>1. PICK h \in Holders, amount \in CurveAmounts :
          /\ dbc.exists /\ ~IsCurveComplete
          /\ dbc' = [dbc EXCEPT !.reserve = @ + amount,
                                !.trades = @ + 1,
                                !.partnerFee = @ + CurveFee,
                                !.progress = IF dbc.reserve + amount >= Threshold
                                             THEN "lockedVesting" ELSE @]
          /\ base' = [base EXCEPT !.curve = @ - CurveBase]
          /\ bal' = [bal EXCEPT ![h] = bal[h] + CurveBase]
          /\ UNCHANGED <<lp, supply>>
    BY <1>2 DEF BuyOnCurve
  <2>2. dbc.progress # "createdPool"
    BY <2>1 DEF Latches
  <2>3. Held' = Held + CurveBase
    <3>1. CurveBase \in Int /\ bal[h] + CurveBase >= 0
      BY ConstantsTyped, FieldsTyped
    <3> QED BY <2>1, <3>1, HolderMoves
  <2>4. base'.curve = base.curve - CurveBase /\ base'.claimer = base.claimer /\ base'.damm = base.damm
    BY <1>0, <2>1 DEF BaseAccounts
  <2>5. Elsewhere' = Elsewhere + (0 - CurveBase)
    BY <2>1, <2>4, AccountedTyped, ConstantsTyped DEF Elsewhere
  <2>6. DammEmpty'
    BY <2>2, <2>4 DEF Accounted, DammEmpty
  <2>7. CurveBase \in Int /\ 0 - CurveBase \in Int /\ supply' = supply + CurveBase + (0 - CurveBase)
    BY <2>1, AccountedTyped, ConstantsTyped
  <2> QED BY <2>3, <2>5, <2>6, <2>7, AccountedStep
<1>3. CASE SellOnCurve
  <2>1. PICK h \in Holders, amount \in CurveAmounts :
          /\ bal[h] >= CurveBase
          /\ dbc' = [dbc EXCEPT !.reserve = @ - amount,
                                !.trades = @ + 1,
                                !.partnerFee = @ + CurveFee]
          /\ base' = [base EXCEPT !.curve = @ + CurveBase]
          /\ bal' = [bal EXCEPT ![h] = bal[h] - CurveBase]
          /\ UNCHANGED <<lp, supply>>
    BY <1>3 DEF SellOnCurve
  <2>2. dbc'.progress = dbc.progress
    BY <1>0, <2>1 DEF Pools
  <2>3. Held' = Held + (0 - CurveBase)
    <3>1. /\ 0 - CurveBase \in Int /\ bal[h] + (0 - CurveBase) >= 0
          /\ bal[h] - CurveBase = bal[h] + (0 - CurveBase)
      BY <2>1, ConstantsTyped, FieldsTyped
    <3>2. bal' = [bal EXCEPT ![h] = bal[h] + (0 - CurveBase)]
      BY <2>1, <3>1
    <3> QED BY <3>1, <3>2, HolderMoves
  <2>4. base'.curve = base.curve + CurveBase /\ base'.claimer = base.claimer /\ base'.damm = base.damm
    BY <1>0, <2>1 DEF BaseAccounts
  <2>5. Elsewhere' = Elsewhere + CurveBase
    BY <2>1, <2>4, AccountedTyped, ConstantsTyped DEF Elsewhere
  <2>6. DammEmpty'
    BY <2>2, <2>4 DEF Accounted, DammEmpty
  <2>7. CurveBase \in Int /\ 0 - CurveBase \in Int /\ supply' = supply + (0 - CurveBase) + CurveBase
    BY <2>1, AccountedTyped, ConstantsTyped
  <2> QED BY <2>3, <2>5, <2>6, <2>7, AccountedStep
<1>4. CASE MigrateToDamm
  <2>1. PICK pooled \in 0..base.curve :
          /\ dbc.progress = "lockedVesting"
          /\ base' = [base EXCEPT !.curve = 0, !.damm = pooled]
          /\ supply' = supply - (base.curve - pooled)
    BY <1>4 DEF MigrateToDamm
  <2>2. UNCHANGED <<lp, bal>> /\ dbc'.progress = "createdPool"
    BY <1>0, <1>4 DEF MigrateToDamm, Pools
  <2>3. base.damm = 0
    BY <2>1 DEF Accounted, DammEmpty
  <2>4. base'.curve = 0 /\ base'.claimer = base.claimer /\ base'.damm = pooled
    BY <1>0, <2>1 DEF BaseAccounts
  <2>5. Elsewhere' = Elsewhere + (pooled - base.curve)
    BY <2>2, <2>3, <2>4, AccountedTyped DEF Elsewhere
  <2>6. Held' = Held + 0
    BY <2>2, AccountedTyped DEF Held
  <2>7. DammEmpty'
    BY <2>2 DEF DammEmpty
  <2>8. pooled - base.curve \in Int /\ supply' = supply + 0 + (pooled - base.curve)
    BY <2>1, AccountedTyped
  <2> QED BY <2>5, <2>6, <2>7, <2>8, AccountedStep
<1>5. CASE TradeOnDamm
  <2>1. PICK h \in Holders, fee \in LpFees, bought \in {-1, 1} :
          /\ dbc.progress = "createdPool"
          /\ bal[h] + bought >= 0
          /\ bal' = [bal EXCEPT ![h] = bal[h] + bought]
          /\ base' = [base EXCEPT !.damm = @ - bought]
          /\ lp' = [lp EXCEPT !["own"].quote = @ + fee]
          /\ UNCHANGED <<dbc, supply>>
    BY <1>5 DEF TradeOnDamm, IsMigrationComplete
  <2>2. bought \in Int
    OBVIOUS
  <2>3. Held' = Held + bought
    BY <2>1, <2>2, HolderMoves
  <2>4. base'.curve = base.curve /\ base'.claimer = base.claimer /\ base'.damm = base.damm - bought
    BY <1>0, <2>1 DEF BaseAccounts
  <2>5. lp'["own"].base = lp["own"].base /\ lp'["foreign"].base = lp["foreign"].base
    BY <1>0, <2>1 DEF Positions, PositionFees
  <2>6. Elsewhere' = Elsewhere + (0 - bought)
    <3>1. base.damm - bought = base.damm + (0 - bought)
      BY <2>2, AccountedTyped
    <3> QED BY <2>2, <2>4, <2>5, <3>1, AccountedTyped DEF Elsewhere
  <2>7. DammEmpty'
    BY <2>1 DEF DammEmpty
  <2>8. 0 - bought \in Int /\ supply' = supply + bought + (0 - bought)
    BY <2>1, <2>2, AccountedTyped
  <2> QED BY <2>2, <2>3, <2>6, <2>7, <2>8, AccountedStep
<1>6. CASE TradeOnForeignPool
  <2>1. PICK h \in Holders, fee \in LpFees :
          /\ bal[h] > 0
          /\ bal' = [bal EXCEPT ![h] = bal[h] - 1]
          /\ lp' = [lp EXCEPT !["foreign"] = [quote |-> @.quote + fee, base |-> @.base + 1]]
          /\ UNCHANGED <<dbc, base, supply>>
    BY <1>6 DEF TradeOnForeignPool
  <2>2. Held' = Held + (-1)
    <3>1. -1 \in Int /\ bal[h] + (-1) >= 0 /\ bal[h] - 1 = bal[h] + (-1)
      BY <2>1, FieldsTyped
    <3>2. bal' = [bal EXCEPT ![h] = bal[h] + (-1)]
      BY <2>1, <3>1
    <3> QED BY <3>1, <3>2, HolderMoves
  <2>3. lp'["own"].base = lp["own"].base /\ lp'["foreign"].base = lp["foreign"].base + 1
    BY <1>0, <2>1 DEF Positions
  <2>4. Elsewhere' = Elsewhere + 1 /\ DammEmpty'
    BY <2>1, <2>3, AccountedTyped DEF Elsewhere, Accounted, DammEmpty
  <2>5. supply' = supply + (-1) + 1
    BY <2>1, AccountedTyped
  <2> QED BY <2>2, <2>4, <2>5, AccountedStep
<1>7. CASE GiveBase
  <2>1. PICK h \in Holders :
          /\ bal[h] > 0
          /\ bal' = [bal EXCEPT ![h] = bal[h] - 1]
          /\ base' = [base EXCEPT !.claimer = @ + 1]
          /\ UNCHANGED <<dbc, lp, supply>>
    BY <1>7 DEF GiveBase
  <2>2. Held' = Held + (-1)
    <3>1. -1 \in Int /\ bal[h] + (-1) >= 0 /\ bal[h] - 1 = bal[h] + (-1)
      BY <2>1, FieldsTyped
    <3>2. bal' = [bal EXCEPT ![h] = bal[h] + (-1)]
      BY <2>1, <3>1
    <3> QED BY <3>1, <3>2, HolderMoves
  <2>3. base'.curve = base.curve /\ base'.claimer = base.claimer + 1 /\ base'.damm = base.damm
    BY <1>0, <2>1 DEF BaseAccounts
  <2>4. Elsewhere' = Elsewhere + 1 /\ DammEmpty'
    BY <2>1, <2>3, AccountedTyped DEF Elsewhere, Accounted, DammEmpty
  <2>5. supply' = supply + (-1) + 1
    BY <2>1, AccountedTyped
  <2> QED BY <2>2, <2>4, <2>5, AccountedStep
<1>8. CASE GiveToVault \/ GiveToTransit \/ IssuerSeizes \/ FaultAppears \/ FaultClears
  <2>1. UNCHANGED <<dbc, lp, bal, base, supply>>
    BY <1>8 DEF GiveToVault, GiveToTransit, IssuerSeizes, FaultAppears, FaultClears, state
  <2> QED BY <2>1, AccountedFrame
<1> QED BY <1>1, <1>2, <1>3, <1>4, <1>5, <1>6, <1>7, <1>8 DEF Environment

LEMMA InitAccounted == ASSUME Init PROVE Accounted
<1>1. /\ bal = [h \in Holders |-> 0] /\ base = [claimer |-> 0, curve |-> 0, damm |-> 0] /\ supply = 0
      /\ lp["own"].base = 0 /\ lp["foreign"].base = 0
  BY DEF Init, Positions
<1>2. Held = 0
  <2>1. \A h \in Holders : bal[h] = 0
    BY <1>1
  <2>2. IsFiniteSet(Holders)
    BY LaunchAssumption
  <2> QED BY <2>1, <2>2, SumZero DEF Held
<1>3. Elsewhere = 0
  BY <1>1 DEF Elsewhere
<1> QED BY <1>1, <1>2, <1>3 DEF Accounted, DammEmpty

(***************************************************************************)
(* The supply that the floor divides by is the sum of what all holders     *)
(* have and what is on the curve, in a pool, in an unclaimed fee or with   *)
(* the claimer, for any number of holders.                                 *)
(***************************************************************************)
THEOREM SupplyTheorem == Spec => []SupplyAccounted
<1>1. Init => IInv /\ Accounted
  BY InitIInv, InitAccounted
<1>2. IInv /\ Accounted /\ [Next]_vars => (IInv /\ Accounted)'
  <2> SUFFICES ASSUME IInv, Accounted, [Next]_vars PROVE IInv' /\ Accounted'
    OBVIOUS
  <2>1. IInv'
    BY NextIInv
  <2>2. TypeOK /\ TypeOK' /\ Latches
    BY <2>1 DEF IInv
  <2>3. CASE UNCHANGED vars
    <3>1. UNCHANGED <<lp, bal, base, supply>> /\ dbc'.progress = dbc.progress
      BY <2>3 DEF vars
    <3>2. Accounted'
      BY <3>1, AccountedFrame
    <3> QED BY <2>1, <3>2
  <2> QED BY <2>1, <2>2, <2>3, ProgramAccounted, EnvironmentAccounted DEF Next
<1>3. IInv /\ Accounted => SupplyAccounted
  <2> SUFFICES ASSUME IInv, Accounted PROVE SupplyAccounted
    OBVIOUS
  <2>1. TypeOK
    BY DEF IInv
  <2>2. Circulating = Held
    BY <2>1, HeldTyped
  <2>3. supply = Held + base.claimer + base.curve + base.damm + lp["own"].base + lp["foreign"].base
    BY <2>1, AccountedTyped DEF Accounted, Elsewhere
  <2> QED BY <2>2, <2>3 DEF SupplyAccounted
<1> QED BY <1>1, <1>2, <1>3, PTL DEF Spec
=============================================================================
