----------------------------- MODULE FloorVault -----------------------------
(***************************************************************************)
(* What StockFloor promises the holders of a launch, with no mention of    *)
(* how: a vault of quote tokens backs a supply of base tokens that only    *)
(* ever shrinks; quote leaves the vault only to redeemers, who are paid at *)
(* most their pro-rata share, and only once redemption has opened;         *)
(* redemption never closes again.  The one thing the promise does not      *)
(* cover is the issuer of the quote token taking it out of the vault.      *)
(***************************************************************************)
EXTENDS FloorMath

VARIABLES
    vault,   \* quote tokens backing the floor
    supply,  \* base tokens in existence
    open     \* TRUE once redemption is open

vars == <<vault, supply, open>>

Init == vault = 0 /\ supply = 0 /\ open = FALSE

\* The base tokens are minted once, before redemption opens.
Issue ==
    /\ supply = 0 /\ ~open
    /\ supply' \in Nat \ {0}
    /\ UNCHANGED <<vault, open>>

\* Harvests and donations pay in, claimed base is burned, redemption opens.
Fund ==
    /\ vault' >= vault
    /\ supply' <= supply
    /\ open => open'

\* Redeemers burn base and are paid no more than their share of the vault.
Pay ==
    /\ open /\ open'
    /\ supply' < supply
    /\ vault' \in Nat
    /\ (vault - vault') * supply <= vault * (supply - supply')

\* The issuer claws quote tokens back through its own token program.
Seize ==
    /\ vault' \in 0..vault
    /\ UNCHANGED <<supply, open>>

Next == Issue \/ Fund \/ Pay \/ Seize

Spec == Init /\ [][Next]_vars
=============================================================================
