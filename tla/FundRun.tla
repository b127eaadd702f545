------------------------------ MODULE FundRun ------------------------------
(***************************************************************************)
(* scripts/c2/fund.ts: one command that spreads the deployer's SOL over    *)
(* the demo wallets, swaps SOL for SPYx and hands the SPYx out.  It may    *)
(* die at any point and is then simply run again; the balances on chain,   *)
(* not the state file, say what is still missing.  A transaction may land  *)
(* after its run gave up on it, and a read may be answered by a node that  *)
(* has not seen the last transaction.  Every transaction costs the         *)
(* deployer its base and priority fee, one that fails on chain included.   *)
(*                                                                         *)
(* One unit of SPYx is worth one unit of SOL.                              *)
(***************************************************************************)
EXTENDS Integers, FiniteSets, Functions

CONSTANTS
    N,             \* the wallets are 1..N, in the order of the plan
    Holders,       \* the wallets that also get SPYx
    SolTarget,     \* SOL every wallet should hold
    SpyxTarget,    \* SPYx every holder should hold
    Purses,        \* what the deployer may start with
    MinDeployer,   \* SOL it must keep for the deploy
    AtaRent,       \* price of a token account
    TxFee,         \* what a transaction costs, base and priority fee
    FeeBuffer,     \* what the plan sets aside for the fees
    TestSize,      \* size of the test swap
    Slack,         \* most a quote exceeds what is required, most a swap slips
    Premium,       \* most a quote costs above the mid price
    Margin,        \* what the plan adds to the mid price
    MaxFaults      \* bound: things that go wrong in a behaviour

VARIABLES
    chain,    \* the balances
    prev,     \* the balances before the last transaction
    transit,  \* a transaction that was sent and not confirmed
    file,     \* the state file: the newest record of each swap stage
    run,      \* the running command: where it is and what it remembers
    faults,   \* how many things have gone wrong
    paid,     \* history: transactions paid for by the run that is on, or was last
    misled,   \* history: a run has acted on balances that were not the last
    landed,   \* history: swaps landed, per stage
    lost      \* history: the state file has been deleted

history == <<misled, landed, lost>>
vars == <<chain, prev, transit, file, run, faults, paid, history>>

Wallets == 1..N
Stages == {"test", "main"}
Target(w) == IF w \in Holders THEN SpyxTarget ELSE 0

NoTx == [kind |-> "none"]
NoRecord == [status |-> "none", before |-> 0]
NoQuote == [in |-> 0, out |-> 0, min |-> 0]
Off == [pc |-> "off", w |-> 1, needed |-> 0, amount |-> 0,
        stage |-> "test", before |-> 0, quote |-> NoQuote]

Init ==
    /\ \E purse \in Purses, sol \in 0..SolTarget :
          chain = [sol |-> [w \in Wallets |-> sol], spyx |-> [w \in Wallets |-> 0],
                   ata |-> {}, purse |-> purse, bag |-> 0, bagOpen |-> FALSE]
    /\ prev = chain
    /\ transit = NoTx
    /\ file = [s \in Stages |-> NoRecord]
    /\ run = Off
    /\ faults = 0 /\ paid = 0
    /\ misled = FALSE /\ landed = [s \in Stages |-> 0] /\ lost = FALSE

-----------------------------------------------------------------------------
(* The chain: purse and bag are the deployer's SOL and SPYx.               *)

\* Creating a token account that exists does nothing and costs no rent.
Rent(c, t) ==
    IF (t.kind = "bag" /\ ~c.bagOpen) \/ (t.kind = "ata" /\ t.to \notin c.ata) THEN AtaRent ELSE 0

\* What it takes out of the purse, the fee included.
Cost(c, t) ==
    TxFee + CASE t.kind = "sol"  -> t.amount
              [] t.kind = "swap" -> t.in
              [] OTHER -> Rent(c, t)

Valid(c, t) ==
    /\ c.purse >= Cost(c, t)
    /\ t.kind = "spyx" => c.bag >= t.amount /\ t.to \in c.ata
    /\ t.kind = "swap" => c.bagOpen

After(c, t) ==
    LET p == [c EXCEPT !.purse = @ - Cost(c, t)]
    IN  CASE t.kind = "sol"  -> [p EXCEPT !.sol[t.to] = @ + t.amount]
          [] t.kind = "bag"  -> [p EXCEPT !.bagOpen = TRUE]
          [] t.kind = "ata"  -> [p EXCEPT !.ata = @ \cup {t.to}]
          [] t.kind = "spyx" -> [p EXCEPT !.bag = @ - t.amount, !.spyx[t.to] = @ + t.amount]
          [] t.kind = "swap" -> [p EXCEPT !.bag = @ + t.out]

LandedAfter(t) == IF t.kind = "swap" THEN [landed EXCEPT ![t.stage] = @ + 1] ELSE landed

Fault == faults < MaxFaults /\ faults' = faults + 1

\* A read answers with the balances, or with those before the last transaction.
Reads(v) ==
    \/ v = chain /\ UNCHANGED <<faults, misled>>
    \/ v = prev /\ prev # chain /\ Fault /\ misled' = TRUE

\* Sending t and waiting for it: confirmed, refused before it lands, failed on chain
\* and paid for all the same, or never heard of again.
Sends(t, next) ==
    \/ /\ Valid(chain, t)
       /\ chain' = After(chain, t) /\ prev' = chain /\ landed' = LandedAfter(t)
       /\ paid' = paid + 1
       /\ run' = next
       /\ UNCHANGED <<transit, faults>>
    \/ /\ ~Valid(chain, t)
       /\ run' = Off
       /\ UNCHANGED <<chain, prev, landed, transit, faults, paid>>
    \/ /\ Fault
       /\ chain.purse >= TxFee
       /\ chain' = [chain EXCEPT !.purse = @ - TxFee] /\ prev' = chain
       /\ paid' = paid + 1
       /\ run' = Off
       /\ UNCHANGED <<landed, transit>>
    \/ /\ Fault
       /\ transit = NoTx /\ transit' = t
       /\ run' = Off
       /\ UNCHANGED <<chain, prev, landed, paid>>

\* It lands after its run ended, or its blockhash expires.
Lands ==
    /\ transit # NoTx
    /\ Valid(chain, transit)
    /\ chain' = After(chain, transit) /\ prev' = chain /\ landed' = LandedAfter(transit)
    /\ transit' = NoTx
    /\ misled' = TRUE
    /\ UNCHANGED <<file, run, faults, lost, paid>>

Expires ==
    /\ transit # NoTx
    /\ transit' = NoTx
    /\ UNCHANGED <<chain, prev, file, run, faults, paid, history>>

-----------------------------------------------------------------------------
(* The plan.                                                               *)

Short(have, target) == IF have >= target THEN 0 ELSE target - have

SolShort(c) == SumFunction([w \in Wallets |-> Short(c.sol[w], SolTarget)])
SpyxShort(c) == SumFunction([w \in Wallets |-> Short(c.spyx[w], Target(w))])
RentShort(c) == AtaRent * (Cardinality(Holders \ c.ata) + IF c.bagOpen THEN 0 ELSE 1)

\* buildFundPlan: what the deployer is expected to spend.
Spend(c) ==
    LET buy == Short(c.bag, SpyxShort(c))
    IN  SolShort(c) + RentShort(c) + FeeBuffer + IF buy = 0 THEN 0 ELSE buy + Margin

Affordable(c) == c.purse - Spend(c) >= MinDeployer

Funded(c) == \A w \in Wallets : c.sol[w] >= SolTarget /\ c.spyx[w] >= Target(w)

-----------------------------------------------------------------------------
(* The command.                                                            *)

At(pc) == run.pc = pc
Goto(pc) == [run EXCEPT !.pc = pc, !.w = 1]
NextWallet(pc) == [run EXCEPT !.pc = pc, !.w = @ + 1]

Start ==
    /\ run.pc \in {"off", "done"}
    /\ \E v \in {chain, prev} :
          /\ Reads(v)
          /\ Affordable(v)
          /\ run' = [Off EXCEPT !.pc = "sol", !.needed = SpyxShort(v)]
    /\ paid' = 0
    /\ UNCHANGED <<chain, prev, transit, file, landed, lost>>

\* The SOL transfers: the balance is read anew just before the wallet is served.
SolAmountOnce(v, w) == IF v.sol[w] > 0 THEN 0 ELSE SolTarget  \* Mutant
SolAmount(v, w) == Short(v.sol[w], SolTarget)

ReadSol ==
    /\ At("sol") /\ run.w \in Wallets
    /\ \E v \in {chain, prev} :
          /\ Reads(v)
          /\ run' = IF SolAmount(v, run.w) = 0 THEN NextWallet("sol")
                    ELSE [run EXCEPT !.pc = "sendSol", !.amount = SolAmount(v, run.w)]
    /\ UNCHANGED <<chain, prev, transit, file, landed, lost, paid>>

SendSol ==
    /\ At("sendSol")
    /\ Sends([kind |-> "sol", to |-> run.w, amount |-> run.amount], NextWallet("sol"))
    /\ UNCHANGED <<file, misled, lost>>

\* The deployer's own SPYx account.
ReadBag ==
    /\ At("sol") /\ run.w = N + 1
    /\ \E v \in {chain, prev} :
          /\ Reads(v)
          /\ run' = Goto(IF v.bagOpen THEN "need" ELSE "openBag")
    /\ UNCHANGED <<chain, prev, transit, file, landed, lost, paid>>

OpenBag ==
    /\ At("openBag")
    /\ Sends([kind |-> "bag"], Goto("need"))
    /\ UNCHANGED <<file, misled, lost>>

\* Whether to swap at all: what the plan found missing against the bag now.
Need ==
    /\ At("need")
    /\ \E v \in {chain, prev} :
          /\ Reads(v)
          /\ run' = IF run.needed <= v.bag THEN Goto("give")
                    ELSE IF file["test"].status = "done" THEN Goto("main")
                    ELSE [Goto("swap") EXCEPT !.stage = "test", !.amount = 0]
    /\ UNCHANGED <<chain, prev, transit, file, landed, lost, paid>>

\* What the main swap must deliver.
Remaining(v) == Short(v.bag, run.needed)

Main ==
    /\ At("main")
    /\ \E v \in {chain, prev} :
          /\ Reads(v)
          /\ run' = IF Remaining(v) = 0 THEN Goto("give")
                    ELSE [Goto("swap") EXCEPT !.stage = "main", !.amount = Remaining(v)]
    /\ UNCHANGED <<chain, prev, transit, file, landed, lost, paid>>

-----------------------------------------------------------------------------
(* One swap: runSwap.                                                      *)

Record(s, status) == [file EXCEPT ![s] = [status |-> status, before |-> 0]]
AfterSwap == Goto(IF run.stage = "test" THEN "main" ELSE "give")

\* resolvePendingSwap: the bag tells whether an interrupted swap landed.
InterruptedLandedAtLeast(r, bag) == r.status = "pending" /\ bag >= r.before  \* Mutant
InterruptedLanded(r, bag) == r.status = "pending" /\ bag > r.before

Resolve ==
    /\ At("swap")
    /\ \E v \in {chain, prev} :
          /\ Reads(v)
          /\ IF InterruptedLanded(file[run.stage], v.bag)
             THEN run' = AfterSwap /\ file' = Record(run.stage, "done")
             ELSE run' = [run EXCEPT !.pc = "quote", !.before = v.bag] /\ UNCHANGED file
    /\ UNCHANGED <<chain, prev, transit, landed, lost, paid>>

\* The quotes that pass checkSwapQuote: near the mid price, and the least that
\* may arrive covers what the stage must deliver.
Quotes ==
    IF run.stage = "test"
    THEN {[in |-> TestSize, out |-> TestSize, min |-> TestSize - Slack]}
    ELSE {[in |-> run.amount + s + p, out |-> run.amount + s, min |-> run.amount] :
             s \in 0..Slack, p \in 0..Premium}

\* The swap must not eat the deploy money either.
LeavesDeployMoney(v, in) == v.purse - in >= MinDeployer

Quote ==
    /\ At("quote")
    /\ \E v \in {chain, prev}, q \in Quotes :
          /\ Reads(v)
          /\ IF LeavesDeployMoney(v, q.in)
             THEN /\ run' = [run EXCEPT !.pc = "execute", !.quote = q]
                  /\ file' = [file EXCEPT ![run.stage] =
                                 [status |-> "pending", before |-> run.before]]
             ELSE run' = Off /\ UNCHANGED file
    /\ UNCHANGED <<chain, prev, transit, landed, lost, paid>>

QuoteRefused ==
    /\ At("quote")
    /\ Fault
    /\ file' = Record(run.stage, "failed")
    /\ run' = Off
    /\ UNCHANGED <<chain, prev, transit, paid, history>>

Execute ==
    /\ At("execute")
    /\ \E got \in run.quote.min..run.quote.out :
          Sends([kind |-> "swap", stage |-> run.stage, in |-> run.quote.in, out |-> got],
                Goto("receipt"))
    /\ UNCHANGED <<file, misled, lost>>

\* checkSwapReceipt on the difference of two reads.
Receipt ==
    /\ At("receipt")
    /\ \E v \in {chain, prev} :
          /\ Reads(v)
          /\ IF v.bag - run.before \in run.quote.min..run.quote.out
             THEN run' = AfterSwap /\ file' = Record(run.stage, "done")
             ELSE run' = Off /\ file' = Record(run.stage, "failed")
    /\ UNCHANGED <<chain, prev, transit, landed, lost, paid>>

-----------------------------------------------------------------------------
(* Handing the SPYx out.                                                   *)

ReadHolder ==
    /\ At("give") /\ run.w \in Wallets
    /\ \E v \in {chain, prev} :
          /\ Reads(v)
          /\ run' = IF run.w \notin Holders THEN NextWallet("give")
                    ELSE [run EXCEPT !.pc = IF run.w \in v.ata THEN "give2" ELSE "open",
                                     !.amount = Short(v.spyx[run.w], SpyxTarget)]
    /\ UNCHANGED <<chain, prev, transit, file, landed, lost, paid>>

OpenHolder ==
    /\ At("open")
    /\ Sends([kind |-> "ata", to |-> run.w], [run EXCEPT !.pc = "give2"])
    /\ UNCHANGED <<file, misled, lost>>

CheckBag ==
    /\ At("give2")
    /\ \E v \in {chain, prev} :
          /\ Reads(v)
          /\ run' = IF run.amount = 0 THEN NextWallet("give")
                    ELSE IF v.bag < run.amount THEN Off
                    ELSE [run EXCEPT !.pc = "sendSpyx"]
    /\ UNCHANGED <<chain, prev, transit, file, landed, lost, paid>>

SendSpyx ==
    /\ At("sendSpyx")
    /\ Sends([kind |-> "spyx", to |-> run.w, amount |-> run.amount], NextWallet("give"))
    /\ UNCHANGED <<file, misled, lost>>

\* verifyEndState: exit 0, or exit 5 with the shortfalls.
Verify ==
    /\ At("give") /\ run.w = N + 1
    /\ \E v \in {chain, prev} :
          /\ Reads(v)
          /\ run' = IF Funded(v) /\ v.purse >= MinDeployer THEN [Off EXCEPT !.pc = "done"]
                    ELSE Off
    /\ UNCHANGED <<chain, prev, transit, file, landed, lost, paid>>

-----------------------------------------------------------------------------
(* What else happens.  A kill, an exception, a declined question and a     *)
(* wait that gives up all end the run after what it has done so far.       *)

Crash ==
    /\ run.pc \notin {"off", "done"}
    /\ Fault
    /\ run' = Off
    /\ UNCHANGED <<chain, prev, transit, file, paid, history>>

\* The file is deleted, or the operator asks for a new run.
LoseStateFile ==
    /\ run.pc \in {"off", "done"}
    /\ Fault
    /\ file' = [s \in Stages |-> NoRecord]
    /\ lost' = TRUE
    /\ UNCHANGED <<chain, prev, transit, run, misled, landed, paid>>

Step ==
    \/ Start \/ ReadSol \/ SendSol \/ ReadBag \/ OpenBag \/ Need \/ Main
    \/ Resolve \/ Quote \/ Execute \/ Receipt
    \/ ReadHolder \/ OpenHolder \/ CheckBag \/ SendSpyx \/ Verify

Next == Step \/ QuoteRefused \/ Lands \/ Expires \/ Crash \/ LoseStateFile

\* The operator runs the command again until it exits with 0, and a started
\* command goes on.
Fairness == WF_vars(Step)

Spec == Init /\ [][Next]_vars /\ Fairness

-----------------------------------------------------------------------------
(* What the command promises.                                              *)

Txs == [kind : {"none", "bag"}] \cup [kind : {"ata"}, to : Holders]
       \cup [kind : {"sol", "spyx"}, to : Wallets, amount : Nat]
       \cup [kind : {"swap"}, stage : Stages, in : Nat, out : Nat]

Balances == [sol : [Wallets -> Nat], spyx : [Wallets -> Nat], ata : SUBSET Holders,
             purse : Nat, bag : Nat, bagOpen : BOOLEAN]

\* Types of the balances, the state file and the run; balances never go below 0.
TypeOK ==
    /\ chain \in Balances /\ prev \in Balances
    /\ transit \in Txs
    /\ file \in [Stages -> [status : {"none", "pending", "done", "failed"}, before : Nat]]
    /\ run \in [pc : {"off", "done", "sol", "sendSol", "openBag", "need", "main", "swap",
                      "quote", "execute", "receipt", "give", "give2", "open", "sendSpyx"},
                w : 1..N + 1, needed : Nat, amount : Nat, stage : Stages, before : Nat,
                quote : [in : Nat, out : Nat, min : Nat]]
    /\ faults \in 0..MaxFaults /\ paid \in Nat
    /\ misled \in BOOLEAN /\ lost \in BOOLEAN /\ landed \in [Stages -> Nat]

\* Whatever the number of crashes and reruns, no wallet is sent more than it was
\* missing, unless a run acted on balances that were not the last.
SentOnce ==
    ~misled => \A w \in Wallets : chain.sol[w] <= SolTarget /\ chain.spyx[w] <= Target(w)

\* The same without the reservation (docs/c2-runbook.md: "the only effect of a
\* resume is that the missing transfers are sent").
OnlyMissingSent ==
    \A w \in Wallets : chain.sol[w] <= SolTarget /\ chain.spyx[w] <= Target(w)

\* Every swap of every run together buys what the wallets need and at most the
\* excess of one swap, even when the state file is lost.
BuysOnlyShortfall ==
    LET more == IF Slack > TestSize - 1 THEN Slack ELSE TestSize - 1
    IN  ~misled => chain.bag + SumFunction(chain.spyx)
                     <= SumFunction([w \in Wallets |-> Target(w)]) + more

\* As long as the file is kept, a stage is recorded as done when its swap has
\* landed and only then, and the test swap is made once.
SwapRecordsTrue ==
    ~misled /\ ~lost =>
        /\ \A s \in Stages : file[s].status = "done" => landed[s] >= 1
        /\ landed["test"] <= 1

\* A run pays for a transaction per wallet, one for its own account, one per swap and two
\* per holder at most (libfund.ts:83, "13 transactions at most"), and the deploy money is
\* spent on nothing but their fees and the rent of the holders' accounts, which the swap
\* does not allow for; a purse that had less to begin with is not touched.
MostPaid == N + 3 + 2 * Cardinality(Holders)
DeployKept ==
    /\ paid <= MostPaid
    /\ ~misled => \/ chain.purse >= MinDeployer - AtaRent * Cardinality(chain.ata) - TxFee * paid
                  \/ prev = chain /\ run = Off

\* However often the command is run: nothing is sent, bought or recorded twice, and the
\* deploy money is kept but for fees and rents.
SpendsOnlyNeeded == SentOnce /\ BuysOnlyShortfall /\ SwapRecordsTrue /\ DeployKept

\* The funding aborts rather than dip below the deploy money (fund.ts:1562).
NeverDipsBelow == ~misled => chain.purse >= MinDeployer

\* Whatever interrupts it, running the command again gets every wallet funded,
\* or the deployer is out of money for it.
Worst(c) ==
    LET buy == Short(c.bag, SpyxShort(c))
    IN  SolShort(c) + RentShort(c) + FeeBuffer
        + IF buy = 0 THEN 0 ELSE buy + TestSize + Slack + Premium + Margin

Settled == Funded(chain) \/ chain.purse < MinDeployer + Worst(chain)
Repaired == <>Settled

=============================================================================
