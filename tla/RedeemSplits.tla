---------------------------- MODULE RedeemSplits ----------------------------
(***************************************************************************)
(* Any sequence of redemptions against one vault, with nothing flowing in: *)
(* what a run of redeemers, or one holder splitting a redemption into      *)
(* parts, can take out in total.  Each step is apply_redeem.               *)
(***************************************************************************)
EXTENDS FloorMath

CONSTANTS
    Vaults,     \* vault balances a sequence may start from
    Supplies,   \* supplies it may start from
    FeeChoices  \* exit fees (bps) of the launches considered

ASSUME SplitsAssumption ==
    /\ Vaults \subseteq Nat
    /\ Supplies \subseteq Nat \ {0}
    /\ FeeChoices \subseteq 0..MaxExitFeeBps

VARIABLES
    start,   \* [vault, supply, bps] before the first redemption
    vault,   \* quote left in the vault
    supply   \* base tokens left

vars == <<start, vault, supply>>

TypeOK ==
    /\ start \in [vault : Vaults, supply : Supplies, bps : FeeChoices]
    /\ vault \in Nat
    /\ supply \in Nat

Init ==
    /\ start \in [vault : Vaults, supply : Supplies, bps : FeeChoices]
    /\ vault = start.vault
    /\ supply = start.supply

\* Mutant: the gross amount is rounded up, in the redeemer's favour.
ApplyRedeemRoundingUp(amount) ==
    LET gross == (vault * amount + supply - 1) \div supply
    IN  /\ Redeemable(vault, supply, amount, start.bps)
        /\ vault' = vault - (gross - FeeCeil(gross, start.bps))
        /\ supply' = supply - amount
        /\ UNCHANGED start

\* Mutant: the exit fee leaves the vault with the payout.
ApplyRedeemFeeLeaves(amount) ==
    /\ Redeemable(vault, supply, amount, start.bps)
    /\ vault' = vault - Gross(vault, supply, amount)
    /\ supply' = supply - amount
    /\ UNCHANGED start

ApplyRedeem(amount) ==
    /\ Redeemable(vault, supply, amount, start.bps)
    /\ vault' = vault - Net(vault, supply, amount, start.bps)
    /\ supply' = supply - amount
    /\ UNCHANGED start

Next == \E amount \in 1..supply : ApplyRedeem(amount)

Spec == Init /\ [][Next]_vars

Burned == start.supply - supply
Paid == start.vault - vault

(***************************************************************************)
(* However the burned tokens were split over redemptions, together they    *)
(* were paid at most what one fee-free redemption of all of them would     *)
(* have paid at the start (architecture.md section 5, "Splits"): early     *)
(* redeemers never take from late ones, and no split beats one redemption. *)
(***************************************************************************)
NoSplitBeatsOne == Paid <= ProRataFloor(start.vault, Burned, start.supply)

(***************************************************************************)
(* The floor after any number of redemptions is at least the first floor.  *)
(***************************************************************************)
FloorOutlastsRun ==
    FloorNotDecreased(start.vault, start.supply, vault, supply)

(***************************************************************************)
(* A redemption that keeps a fee strictly raises the floor of the tokens   *)
(* that remain (math.rs floor_increased).                                  *)
(***************************************************************************)
KeptFeeRaisesFloor ==
    [][(start.bps > 0 /\ supply' > 0) => vault' * supply > vault * supply']_vars
=============================================================================
