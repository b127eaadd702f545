------------------------------- MODULE Faucet -------------------------------
(***************************************************************************)
(* fundWallet (app/src/lib/faucet/fund.ts) on a local fork: the queue of   *)
(* its runs, and the cheatcode that patches a token account and the mint's *)
(* supply, both read several requests earlier.  One request of the faucet  *)
(* gives one unit.                                                         *)
(***************************************************************************)
EXTENDS Integers, Sequences, Functions

CONSTANTS
    Wallets,
    MaxRuns,      \* bound: requests
    MaxFailures   \* bound: requests of a run that fail

VARIABLES
    balance,    \* the token accounts that exist
    supply,     \* the mint
    runs,       \* the runs in the order they were queued
    failures,   \* how many requests have failed
    disturbed   \* history: a run failed between its two patches, or one overwrote a transfer

vars == <<balance, supply, runs, failures, disturbed>>

Init ==
    /\ balance \in {<<>>} \cup [Wallets -> {1}]
    /\ supply = FoldFunction(+, 0, balance)
    /\ runs = <<>>
    /\ failures = 0
    /\ disturbed = FALSE

Over == {"done", "failed"}

\* Mutants: no queue; a queue that a failed run ends.
TurnAlways(k) == TRUE
TurnAfterSuccess(k) == \A j \in 1..k - 1 : runs[j].pc = "done"
\* exclusive: a run begins when those queued before it are over.
Turn(k) == \A j \in 1..k - 1 : runs[j].pc \in Over

Goes(k, run) == runs' = [runs EXCEPT ![k] = run]
\* Nothing is kept of a run that is over.
Ends(k, pc) == Goes(k, [runs[k] EXCEPT !.pc = pc, !.raw = 0, !.mint = 0])

Fails(k) ==
    /\ failures < MaxFailures /\ failures' = failures + 1
    /\ Ends(k, "failed")

Request ==
    /\ Len(runs) < MaxRuns
    /\ \E w \in Wallets : runs' = Append(runs, [pc |-> "queued", wallet |-> w, raw |-> 0, mint |-> 0])
    /\ UNCHANGED <<balance, supply, failures, disturbed>>

\* The airdrop of SOL, then the mint.
ReadMint(k) ==
    /\ runs[k].pc = "queued" /\ Turn(k)
    /\ \/ Fails(k)
       \/ Goes(k, [runs[k] EXCEPT !.pc = "account", !.mint = supply]) /\ UNCHANGED failures
    /\ UNCHANGED <<balance, supply, disturbed>>

\* The token account, which is created and read again if it is missing.
ReadAccount(k) ==
    /\ runs[k].pc = "account"
    /\ \/ Fails(k) /\ UNCHANGED balance
       \/ /\ runs[k].wallet \in DOMAIN balance
          /\ Goes(k, [runs[k] EXCEPT !.pc = "patch", !.raw = balance[runs[k].wallet]])
          /\ UNCHANGED <<balance, failures>>
       \/ /\ runs[k].wallet \notin DOMAIN balance
          /\ balance' = [w \in DOMAIN balance \cup {runs[k].wallet} |->
                            IF w \in DOMAIN balance THEN balance[w] ELSE 0]
          /\ UNCHANGED <<runs, failures>>
    /\ UNCHANGED <<supply, disturbed>>

\* A cheatcode that fails may have been applied.
PatchAccount(k) ==
    /\ runs[k].pc = "patch"
    /\ LET patched == [balance EXCEPT ![runs[k].wallet] = runs[k].raw + 1]
       IN  \/ /\ Goes(k, [runs[k] EXCEPT !.pc = "supply"])
              /\ balance' = patched
              /\ UNCHANGED <<failures, disturbed>>
           \/ /\ Fails(k)
              /\ balance' \in {patched, balance}
              /\ disturbed' = (disturbed \/ balance' # balance)
    /\ UNCHANGED supply

\* Mutant: the supply is left as it is.
SupplyUnpatched(k) == supply
PatchedSupply(k) == runs[k].mint + 1

PatchSupply(k) ==
    /\ runs[k].pc = "supply"
    /\ \/ /\ Goes(k, [runs[k] EXCEPT !.pc = "check"])
          /\ supply' = PatchedSupply(k)
          /\ UNCHANGED <<failures, disturbed>>
       \/ /\ Fails(k)
          /\ supply' \in {PatchedSupply(k), supply}
          /\ disturbed' = (disturbed \/ supply' = supply)
    /\ UNCHANGED balance

Check(k) ==
    /\ runs[k].pc = "check"
    /\ \/ Fails(k)
       \/ /\ Ends(k, IF balance[runs[k].wallet] = runs[k].raw + 1 THEN "done" ELSE "failed")
          /\ UNCHANGED failures
    /\ UNCHANGED <<balance, supply, disturbed>>

Step(k) == ReadMint(k) \/ ReadAccount(k) \/ PatchAccount(k) \/ PatchSupply(k) \/ Check(k)

\* A holder sends a unit: between the read and the patch, the patch undoes it.
Transfer ==
    /\ \E v, w \in DOMAIN balance :
          /\ v # w /\ balance[v] > 0
          /\ balance' = [balance EXCEPT ![v] = @ - 1, ![w] = @ + 1]
          /\ disturbed' = (disturbed \/ \E k \in DOMAIN runs : runs[k].pc = "patch" /\ runs[k].wallet \in {v, w})
    /\ UNCHANGED <<supply, runs, failures>>

Next == Request \/ (\E k \in DOMAIN runs : Step(k)) \/ Transfer

\* A request of a run ends.
Fairness == \A k \in 1..MaxRuns : WF_vars(k \in DOMAIN runs /\ Step(k))

Spec == Init /\ [][Next]_vars /\ Fairness

-----------------------------------------------------------------------------

\* Types; at most one run is under way.
TypeOK ==
    /\ DOMAIN balance \subseteq Wallets /\ \A w \in DOMAIN balance : balance[w] \in Nat
    /\ supply \in Nat
    /\ \A k \in DOMAIN runs :
          runs[k].pc \in {"queued", "account", "patch", "supply", "check"} \cup Over
    /\ \A j, k \in DOMAIN runs : runs[j].pc \notin {"queued"} \cup Over /\ runs[k].pc \notin {"queued"} \cup Over => j = k

\* The fork stays consistent: between runs the mint's supply is what the accounts
\* hold, however many wallets were funded at once.
SupplyMatches ==
    ~disturbed /\ (\A k \in DOMAIN runs : runs[k].pc \in Over \cup {"queued"})
       => supply = FoldFunction(+, 0, balance)

\* A run that fails does not hold up the ones behind it.
EveryRunEnds == \A k \in 1..MaxRuns : (k \in DOMAIN runs) ~> (k \in DOMAIN runs /\ runs[k].pc \in Over)

=============================================================================
