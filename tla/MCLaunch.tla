------------------------------ MODULE MCLaunch ------------------------------
(***************************************************************************)
(* StockfloorLaunch on small instances, and the properties that sum over   *)
(* the holders.                                                            *)
(***************************************************************************)
EXTENDS StockfloorLaunch, Functions, TLC

Symmetry == Permutations(Holders)

Circulating == FoldFunction(+, 0, bal)

(***************************************************************************)
(* The supply the floor divides by is what can still be redeemed, traded   *)
(* or burned: every base token is with a holder, on the curve, in a DAMM   *)
(* pool, in an unclaimed fee, or with the claimer waiting to be burned.    *)
(***************************************************************************)
SupplyAccounted ==
    supply = Circulating + base.claimer + base.curve + base.damm
               + lp["own"].base + lp["foreign"].base
=============================================================================
