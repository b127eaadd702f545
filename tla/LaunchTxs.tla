------------------------------ MODULE LaunchTxs ------------------------------
(***************************************************************************)
(* The transactions that make a launch (packages/sdk/src/launch.ts) and    *)
(* the chain they are sent to, shared by the two programs that send them:  *)
(* the web application (AppLaunch) and the command line (CliLaunch).       *)
(***************************************************************************)
EXTENDS Naturals, FiniteSets

CONSTANTS
    MaxLaunches,   \* bound: launches made
    MaxFaults      \* bound: things that go wrong in a behaviour

ASSUME LaunchTxsAssumption == MaxLaunches \in Nat /\ MaxFaults \in Nat

Launches == 1..MaxLaunches

VARIABLES
    chain,    \* per launch: the Launch account, the registered pool, the creator's base
    plans,    \* the transactions each launch was first planned with
    transit,  \* a transaction sent and not confirmed
    late,     \* history: first buys that landed after their sender gave up on them
    faults    \* how many things have gone wrong

(***************************************************************************)
(* buildLaunchTransactions: without a first buy two transactions; with     *)
(* one, it rides with the pool if the transaction still fits.  The         *)
(* transactions of a plan are sent in the order of their labels.           *)
(***************************************************************************)
Plans(firstBuy) ==
    IF firstBuy THEN {{"config", "poolBuy"}, {"config", "pool", "buy"}}
    ELSE {{"config", "pool"}}

Labels == {"config", "pool", "poolBuy", "buy"}
FirstOf(todo) ==
    CASE "config" \in todo -> "config"
      [] "config" \notin todo /\ "pool" \in todo -> "pool"
      [] "config" \notin todo /\ "poolBuy" \in todo -> "poolBuy"
      [] OTHER -> "buy"

AllPlans == Plans(TRUE) \cup Plans(FALSE)

\* A launch not planned yet; there may be none left.
Fresh(l) == plans[l] = {} /\ \A k \in 1..l - 1 : plans[k] # {}

NoTx == [l |-> 0, t |-> "none"]

launchVars == <<chain, plans, transit, late, faults>>

LaunchTxsInit ==
    /\ chain = [l \in Launches |-> [launch |-> FALSE, pool |-> FALSE, buys |-> 0, base |-> FALSE]]
    /\ plans = [l \in Launches |-> {}]
    /\ transit = NoTx
    /\ late = [l \in Launches |-> 0]
    /\ faults = 0

\* config creates the accounts of its two keypairs, pool that of the base mint.
Valid(l, t) ==
    CASE t = "config" -> ~chain[l].launch
      [] t \in {"pool", "poolBuy"} -> chain[l].launch /\ ~chain[l].pool
      [] t = "buy" -> chain[l].pool

Bought(c) == [c EXCEPT !.buys = @ + 1, !.base = TRUE]

After(c, t) ==
    CASE t = "config" -> [c EXCEPT !.launch = TRUE]
      [] t = "pool" -> [c EXCEPT !.pool = TRUE]
      [] t = "poolBuy" -> Bought([c EXCEPT !.pool = TRUE])
      [] t = "buy" -> Bought(c)

OnChain(l, t) ==
    CASE t = "config" -> chain[l].launch
      [] t = "pool" -> chain[l].pool
      [] t = "poolBuy" -> chain[l].pool /\ chain[l].buys > 0
      [] t = "buy" -> chain[l].buys > 0

Complete(l) == plans[l] # {} /\ \A t \in plans[l] : OnChain(l, t)

Fault == faults < MaxFaults /\ faults' = faults + 1

\* The three ways send ends; a valid transaction may be refused too (the wallet
\* declines, the price has moved).
Confirmed(l, t) ==
    /\ Valid(l, t)
    /\ chain' = [chain EXCEPT ![l] = After(@, t)]
    /\ UNCHANGED <<transit, late, faults>>

Refused(l, t) ==
    /\ Fault \/ (~Valid(l, t) /\ UNCHANGED faults)
    /\ UNCHANGED <<chain, transit, late>>

Unheard(l, t) ==
    /\ Fault
    /\ transit = NoTx /\ transit' = [l |-> l, t |-> t]
    /\ UNCHANGED <<chain, late>>

Lands ==
    /\ transit # NoTx /\ Valid(transit.l, transit.t)
    /\ chain' = [chain EXCEPT ![transit.l] = After(@, transit.t)]
    /\ late' = IF transit.t = "buy" THEN [late EXCEPT ![transit.l] = @ + 1] ELSE late
    /\ transit' = NoTx
    /\ UNCHANGED <<plans, faults>>

Expires ==
    /\ transit # NoTx
    /\ transit' = NoTx
    /\ UNCHANGED <<chain, plans, late, faults>>

LaunchTxsTypeOK ==
    /\ chain \in [Launches -> [launch : BOOLEAN, pool : BOOLEAN, buys : Nat, base : BOOLEAN]]
    /\ plans \in [Launches -> AllPlans \cup {{}}]
    /\ transit \in [l : Launches, t : Labels] \cup {NoTx}
    /\ late \in [Launches -> Nat]
    /\ faults \in 0..MaxFaults

=============================================================================
