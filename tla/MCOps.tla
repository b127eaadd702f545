------------------------------- MODULE MCOps -------------------------------
(***************************************************************************)
(* The operator's scripts on small instances.  They share no state, so a   *)
(* behaviour exercises one of them, part.                                  *)
(***************************************************************************)
EXTENDS Integers, Sequences, SendGuards

CONSTANTS
    N, Holders, SolTarget, SpyxTarget, Purses, MinDeployer, AtaRent, TxFee, FeeBuffer,
    TestSize, Slack, Premium, Margin,                      \* FundRun
    Deployers, MaxRuns, MaxMarkers,                        \* C2Run
    MaxFaults,                                             \* both
    Binaries, Block, Deposits, MaxChanges                  \* Preflight

\* The test swap brings something however much it slips.
ASSUME FundAssumption ==
    /\ {N, SolTarget, SpyxTarget, MinDeployer, AtaRent, TxFee, FeeBuffer, TestSize, Slack, Premium, Margin} \subseteq Nat
    /\ Holders \subseteq 1..N /\ Purses \subseteq Nat /\ Slack < TestSize /\ MaxFaults \in Nat

ASSUME OpsAssumption ==
    /\ Deployers \subseteq Nat /\ MaxMarkers \in Nat /\ MaxFaults \in Nat
    /\ Binaries \subseteq Seq(Nat) /\ Block \in Nat \ {0} /\ Deposits \subseteq Nat /\ MaxChanges \in Nat

VARIABLES
    part,
    chain, prev, transit, file, run, fundFaults, paid, misled, landed, lost,  \* FundRun
    clusters, marker, runs, pass, price, spent, faults,                 \* C2Run
    local, rehearsed, buffer, program, sol, wallets, done, unrecorded, stage, image, changed, refused, changes \* Preflight

Funding == INSTANCE FundRun WITH faults <- fundFaults
Demo == INSTANCE C2Run
Gate == INSTANCE Preflight

\* Two that differ in a zero in the middle, and one that begins as neither does.
MCBinaries == {<<1, 2>>, <<1, 0, 2>>, <<2>>}

fundVars == <<chain, prev, transit, file, run, fundFaults, paid, misled, landed, lost>>
demoVars == <<clusters, marker, runs, pass, price, spent, faults>>
gateVars == <<local, rehearsed, buffer, program, sol, wallets, done, unrecorded, stage, image, changed, refused, changes>>
MCvars == <<part, fundVars, demoVars, gateVars, vars>>

\* A part that is not exercised stays as it began.
MCInit ==
    /\ part \in {"funding", "demo", "gate", "guards"}
    /\ Funding!Init /\ Demo!Init /\ Gate!Init /\ Init
    /\ chain.sol[1] < SolTarget /\ (part # "funding" => chain.sol[1] = 0 /\ chain.purse = CHOOSE purse \in Purses : TRUE)
    /\ part # "demo" => clusters["mainnet"].sol = CHOOSE d \in Deployers : TRUE
    /\ part # "gate" => local = <<2>> /\ buffer = Gate!Nothing /\ sol = CHOOSE b \in Deposits : TRUE
    /\ part # "guards" => command = (CHOOSE c \in Commands : c.tool = "sdk") /\ node = "down"

MCNext ==
    /\ UNCHANGED part
    /\ \/ part = "funding" /\ Funding!Next /\ UNCHANGED <<demoVars, gateVars, vars>>
       \/ part = "demo" /\ Demo!Next /\ UNCHANGED <<fundVars, gateVars, vars>>
       \/ part = "gate" /\ Gate!Next /\ UNCHANGED <<fundVars, demoVars, vars>>
       \/ part = "guards" /\ Next /\ UNCHANGED <<fundVars, demoVars, gateVars>>

\* The fairness of the parts.  What a part that is not exercised could do is no reason to
\* call its behaviour unfair.
MCFairness ==
    /\ WF_MCvars(\/ part = "funding" /\ Funding!Step /\ UNCHANGED <<part, demoVars, gateVars, vars>>
                 \/ part = "demo" /\ Demo!Goes /\ UNCHANGED <<part, fundVars, gateVars, vars>>
                 \/ part = "gate" /\ Gate!Goes /\ UNCHANGED <<part, fundVars, demoVars, vars>>)
    /\ SF_MCvars(\/ part = "demo" /\ Demo!TopUp /\ UNCHANGED <<part, fundVars, gateVars, vars>>
                 \/ part = "gate" /\ Gate!Repairs /\ UNCHANGED <<part, fundVars, demoVars, vars>>)
    /\ WF_MCvars(\/ part = "demo" /\ Demo!Unpause /\ UNCHANGED <<part, fundVars, gateVars, vars>>
                 \/ /\ part = "gate" /\ Gate!RunPreflight(Gate!Quietly, Gate!Quiet)
                    /\ UNCHANGED <<part, fundVars, demoVars, vars>>)
    /\ \A id \in 1 .. MaxRuns :
          SF_MCvars(part = "demo" /\ Demo!Resume(id, "mainnet") /\ UNCHANGED <<part, fundVars, gateVars, vars>>)
MCSpec == MCInit /\ [][MCNext]_MCvars /\ MCFairness

-----------------------------------------------------------------------------

\* FundRun: however often the command is run, nothing is sent, bought or recorded twice,
\* the deploy money is spent on nothing but fees and the rent of the holders' accounts,
\* the fees are those of a bounded number of transactions, and no balance goes below 0.
SpendsOnlyNeeded == Funding!TypeOK /\ Funding!SpendsOnlyNeeded

\* C2Run: no step is sent twice by a run whose operator is asked, an approval pays for one
\* run, a dry run sends nothing to mainnet.  Preflight: the program that is paid for is the
\* one that was rehearsed, and a resumed run is not blocked by what it has spent, unless
\* it died between the landing of a transaction and the record of its step.
RunsGuarded == Demo!TypeOK /\ Gate!TypeOK /\ TypeOK /\ Demo!RunsGuarded /\ Gate!Guarded

\* FundRun, C2Run, Preflight: what was interrupted is repaired by running it again, as long
\* as there is the money for it and the price does not stay away from the planned one.
RunsComplete ==
    /\ <>((part = "funding" => Funding!Settled) /\ (part = "gate" => Gate!Ended))
    /\ Demo!RunsComplete
=============================================================================
