----------------------------- MODULE FloorMath -----------------------------
(***************************************************************************)
(* The arithmetic of the on-chain program: redemption quotes, the floor    *)
(* comparison, and the splits of the graduation fee and of the LP fees.    *)
(* Amounts are raw u64 token units; every product is formed in u128, which *)
(* two u64 factors cannot exceed, so the operators are plain integer       *)
(* arithmetic and the code's Overflow results are unreachable.             *)
(***************************************************************************)
EXTENDS Integers

BpsDenominator == 10000
MaxExitFeeBps == 500
MinMigrationFeePercentage == 40
MaxMigrationFeePercentage == 70
PlatformGraduationFeeBps == 500
CreatorGraduationBonusBps == 500
LpFeeCreatorBps == 5000
LpFeePlatformBps == 2000

SmallerOf(x, y) == IF x <= y THEN x ELSE y

ProRataFloor(value, numerator, denominator) ==
    (value * numerator) \div denominator

FeeCeil(amount, bps) ==
    (amount * bps + BpsDenominator - 1) \div BpsDenominator

BpsFloor(amount, bps) == ProRataFloor(amount, bps, BpsDenominator)

Gross(vault, supply, amount) == ProRataFloor(vault, amount, supply)
Fee(vault, supply, amount, bps) == FeeCeil(Gross(vault, supply, amount), bps)
Net(vault, supply, amount, bps) ==
    Gross(vault, supply, amount) - Fee(vault, supply, amount, bps)

(***************************************************************************)
(* compute_redeem succeeds on exactly these inputs.  The last conjunct is  *)
(* NothingToRedeem: nobody burns tokens for nothing.                       *)
(***************************************************************************)
Redeemable(vault, supply, amount, bps) ==
    /\ amount > 0
    /\ supply > 0
    /\ amount <= supply
    /\ bps <= BpsDenominator
    /\ Net(vault, supply, amount, bps) > 0

\* v1/s1 >= v0/s0, by cross-multiplication; an emptied supply has no floor.
FloorNotDecreased(v0, s0, v1, s1) ==
    \/ s1 = 0
    \/ s0 # 0 /\ v1 * s0 >= v0 * s1

(***************************************************************************)
(* Splits of harvested quote between platform, creator and vault.          *)
(***************************************************************************)
SplitTotal(split) == split.platform + split.creator + split.vault

\* threshold is the DBC migration_quote_threshold: the cuts are shares of the
\* raise, not of the fee, and each is capped by what is left to pay from.
GraduationSplit(threshold, received) ==
    LET platform == SmallerOf(BpsFloor(threshold, PlatformGraduationFeeBps), received)
        rest     == received - platform
        creator  == SmallerOf(BpsFloor(threshold, CreatorGraduationBonusBps), rest)
    IN  [platform |-> platform, creator |-> creator, vault |-> rest - creator]

LpFeeSplit(received) ==
    LET creator  == BpsFloor(received, LpFeeCreatorBps)
        platform == BpsFloor(received, LpFeePlatformBps)
    IN  [platform |-> platform, creator |-> creator,
         vault |-> received - creator - platform]

(***************************************************************************)
(* What DBC pays the partner at graduation, and the vault's part of it.    *)
(* DBC rounds the part it migrates up, so the fee is rounded down.         *)
(***************************************************************************)
PartnerMigrationFee(threshold, percentage) ==
    threshold - SmallerOf((threshold * (100 - percentage) + 99) \div 100, threshold)

VaultAtGraduation(threshold, percentage) ==
    GraduationSplit(threshold, PartnerMigrationFee(threshold, percentage)).vault
=============================================================================
