---------------------------- MODULE MCOps_proofs ----------------------------
(***************************************************************************)
(* The guards of the demo run (C2Run), of its preflight (Preflight), of    *)
(* the commands that send (SendGuards) and of the funding (FundRun), for   *)
(* any number of runs, approvals, faults, rebuilds and wallets, and any    *)
(* binaries, purses and targets.                                           *)
(***************************************************************************)
EXTENDS MCOps, Arithmetic_proofs, SequenceTheorems

-----------------------------------------------------------------------------
(* SendGuards: real money moves only when it is asked for, however often   *)
(* and whenever the node behind the URL is replaced.                       *)

\* The guard at the start has let the command through.
Passed == at \in {"ask", "idle", "guarded", "signed", "swap"} \/ goal # "start"

\* A send that reaches n needs no excuse: n costs nothing, or both switches are on.
Harmless(n) == unseen \/ Overridden \/ n \in {"validator", "surfnet"}

\* What the probe has read so far is true of the node, unless it was replaced meanwhile.
Probed ==
    at \in {"version", "method", "decide"} /\ ~unseen =>
        /\ probe.genesis = "other" => node = "validator"
        /\ probe.version => node = "surfnet"

\* Where no further look at the guard is due, the last one still holds; once the
\* transaction is signed, of the node that gave the blockhash.
Relied ==
    /\ at \in {"ask", "guarded"} \/ (at = "idle" /\ fresh) => Harmless(node)
    /\ at = "signed" => Harmless(hash)

\* What fund.ts found at the start, and no longer looks at.
Cleared ==
    /\ at \in {"start", "kind"} => goal = "start" /\ last = Nowhere
    /\ Passed /\ command.tool = "fund" =>
          IF Overridden
          THEN ~command.loopback /\ kind = "mainnet" /\ command.realMoney /\ Provider = "jupiter"
          ELSE Provider = "cheat"
    /\ at = "swap" \/ goal = "swap" => command.tool = "fund" /\ Provider = "jupiter"
    /\ at \in {"idle", "guarded", "signed", "swap"} \/ goal # "start" => said

LastTyped ==
    /\ command \in Commands
    /\ last \in [what : {"nothing", "transaction", "swap", "cheat"}, node : Nodes, unseen : BOOLEAN]
    /\ fresh \in BOOLEAN /\ said \in BOOLEAN /\ unseen \in BOOLEAN

GuardInv == TypeOK /\ LastTyped /\ Probed /\ Relied /\ Cleared /\ SendsGuarded

LEMMA GuardInit == Init => GuardInv
<1> SUFFICES ASSUME Init PROVE GuardInv
  OBVIOUS
<1>1. TypeOK /\ LastTyped
  BY DEF Init, TypeOK, LastTyped, Nodes, NoProbe, Nowhere
<1>2. Probed /\ Relied /\ Cleared
  BY DEF Init, Probed, Relied, Cleared, Passed
<1>3. SendsGuarded
  BY DEF Init, SendsGuarded, MainnetIsAsked, SpendingIsMeant, WorldsApart, Landed, Nowhere
<1> QED BY <1>1, <1>2, <1>3 DEF GuardInv

\* The last send is judged by what does not change after it.
LEMMA SameLast ==
  ASSUME SendsGuarded, UNCHANGED <<command, last>>, last = Nowhere \/ UNCHANGED kind, said => said'
  PROVE  SendsGuarded'
BY DEF SendsGuarded, MainnetIsAsked, SpendingIsMeant, WorldsApart, Landed, Overridden, Provider, Nowhere

\* Everything below the guard at the start is decided by what Cleared and Relied carry
\* over; the look at the guard itself is ProbeGenesis, ProbeVersion, ProbeMethod, Decide.
LEMMA GuardNext == GuardInv /\ [Next]_vars => GuardInv'
<1> SUFFICES ASSUME GuardInv, [Next]_vars PROVE GuardInv'
  OBVIOUS
<1> USE DEF GuardInv, TypeOK, LastTyped, Probed, Relied, Cleared, SendsGuarded, MainnetIsAsked, SpendingIsMeant,
            WorldsApart, Landed, Passed, Harmless, Nodes, NoProbe, Nowhere, Overridden, Provider, Reads
<1>1. CASE ClassifyVersion
  BY <1>1 DEF ClassifyVersion
<1>2. CASE ClassifyGenesis
  BY <1>2 DEF ClassifyGenesis
<1>3. CASE ProbeGenesis
  <2>1. TypeOK'
    BY <1>3, ZenonT(30) DEF ProbeGenesis
  <2>2. LastTyped'
    BY <1>3 DEF ProbeGenesis
  <2>3. Probed'
    BY <1>3 DEF ProbeGenesis
  <2>4. Relied'
    BY <1>3 DEF ProbeGenesis
  <2>5. Cleared'
    BY <1>3 DEF ProbeGenesis
  <2>6. SendsGuarded'
    BY <1>3, SameLast DEF ProbeGenesis
  <2> QED BY <2>1, <2>2, <2>3, <2>4, <2>5, <2>6
<1>4. CASE ProbeVersion
  <2>1. TypeOK'
    BY <1>4 DEF ProbeVersion
  <2>2. LastTyped'
    BY <1>4 DEF ProbeVersion
  <2>3. Probed'
    BY <1>4 DEF ProbeVersion
  <2>4. Relied'
    BY <1>4 DEF ProbeVersion
  <2>5. Cleared'
    BY <1>4 DEF ProbeVersion
  <2>6. SendsGuarded'
    BY <1>4, SameLast DEF ProbeVersion
  <2> QED BY <2>1, <2>2, <2>3, <2>4, <2>5, <2>6
<1>5. CASE ProbeMethod
  <2>1. TypeOK'
    BY <1>5 DEF ProbeMethod
  <2>2. LastTyped'
    BY <1>5 DEF ProbeMethod
  <2>3. Probed'
    BY <1>5 DEF ProbeMethod
  <2>4. Relied'
    BY <1>5 DEF ProbeMethod
  <2>5. Cleared'
    BY <1>5 DEF ProbeMethod
  <2>6. SendsGuarded'
    BY <1>5, SameLast DEF ProbeMethod
  <2> QED BY <2>1, <2>2, <2>3, <2>4, <2>5, <2>6
<1>6. CASE Decide
  <2>1. TypeOK'
    BY <1>6 DEF Decide
  <2>2. LastTyped'
    BY <1>6 DEF Decide
  <2>3. Probed'
    BY <1>6 DEF Decide, SdkMode, FundAllows, Commands
  <2>4. Relied'
    BY <1>6 DEF Decide, SdkMode, FundAllows, Commands
  <2>5. Cleared'
    BY <1>6, ZenonT(30) DEF Decide, SdkMode, FundAllows, Commands
  <2>6. SendsGuarded'
    BY <1>6, SameLast DEF Decide
  <2> QED BY <2>1, <2>2, <2>3, <2>4, <2>5, <2>6
<1>7. CASE Confirm
  BY <1>7 DEF Confirm
<1>8. CASE BeforeSend
  BY <1>8 DEF BeforeSend
<1>9. CASE Sign
  BY <1>9 DEF Sign
<1>10. CASE Submit
  BY <1>10 DEF Submit
<1>11. CASE JupiterExecutes
  BY <1>11 DEF JupiterExecutes
<1>12. CASE JupiterLands
  BY <1>12 DEF JupiterLands
<1>13. CASE CheatExecutes
  BY <1>13 DEF CheatExecutes
<1>14. CASE TimePasses
  <2>1. TypeOK'
    BY <1>14 DEF TimePasses
  <2>2. LastTyped'
    BY <1>14 DEF TimePasses
  <2>3. Probed'
    BY <1>14 DEF TimePasses
  <2>4. Relied'
    BY <1>14 DEF TimePasses
  <2>5. Cleared'
    BY <1>14 DEF TimePasses
  <2>6. SendsGuarded'
    BY <1>14, SameLast DEF TimePasses
  <2> QED BY <2>1, <2>2, <2>3, <2>4, <2>5, <2>6
<1>15. CASE Replace
  <2>1. TypeOK'
    BY <1>15 DEF Replace
  <2>2. LastTyped'
    BY <1>15 DEF Replace
  <2>3. Probed'
    BY <1>15 DEF Replace
  <2>4. Relied'
    BY <1>15 DEF Replace
  <2>5. Cleared'
    BY <1>15 DEF Replace
  <2>6. SendsGuarded'
    BY <1>15, SameLast DEF Replace
  <2> QED BY <2>1, <2>2, <2>3, <2>4, <2>5, <2>6
<1>16. CASE UNCHANGED vars
  BY <1>16 DEF vars
<1> QED BY <1>1, <1>2, <1>3, <1>4, <1>5, <1>6, <1>7, <1>8, <1>9, <1>10, <1>11, <1>12, <1>13, <1>14, <1>15, <1>16 DEF Next

\* The invariant holds of every state.
LEMMA GuardInvariant == Spec => []GuardInv
BY GuardInit, GuardNext, PTL DEF Spec

\* Types, whatever answers at the URL.
THEOREM GuardTypesTheorem == Spec => []TypeOK
<1>1. GuardInv => TypeOK
  BY DEF GuardInv
<1> QED BY <1>1, GuardInvariant, PTL

(***************************************************************************)
(* No command moves real money unless both override switches are on, and   *)
(* the funding command only if it was told so in so many words, with the   *)
(* exception the code leaves: a node that is replaced after the last look  *)
(* at it that the send waits for (guard.ts, cli.ts, fund.ts:829).  For any *)
(* number of replacements at any time.                                     *)
(***************************************************************************)
THEOREM SendsTheorem == Spec => []SendsGuarded
<1>1. GuardInv => SendsGuarded
  BY DEF GuardInv
<1> QED BY <1>1, GuardInvariant, PTL

-----------------------------------------------------------------------------
(* C2Run.                                                                  *)

Runs ==
    [mode : {"mainnet", "dry"}, asks : BOOLEAN, marker : Nat, plan : {"none"} \cup Demo!Prices, steps : [Demo!AllSteps -> {"todo", "done", "skipped"}],
     launch : BOOLEAN, reserve : Int, graduated : BOOLEAN, outcome : {"open", "completed"},
     landed : [Demo!AllSteps -> Nat]]

Buyers == {"creator", "buyer1", "buyer2"}

Ledgers ==
    [program : {"absent", "buffer", "match"}, paid : Nat, sol : Nat, spyx : [Buyers -> Nat],
     blocked : BOOLEAN]

Passes(from) ==
    [pc : {"idle", "preflight", "step", "prompt", "send"}, run : 0 .. Len(runs), cluster : Demo!Clusters,
     from : {from}, reached : BOOLEAN, i : Nat \ {0}]

DemoTyped ==
    /\ clusters \in [Demo!Clusters -> Ledgers]
    /\ marker \in 0 .. MaxMarkers /\ faults \in 0 .. MaxFaults
    /\ runs \in Seq(Runs)
    /\ pass \in Passes(pass.from)
    /\ price \in Demo!Prices

RightCluster == IF Demo!Run.mode = "mainnet" THEN "mainnet" ELSE "surfnet"

\* The running command has a run, is on the cluster of its mode, and holds an approval
\* if that is mainnet.  Where it asks, it sends only what has not landed, unless it is harmless.
PassOK ==
    /\ pass.pc # "idle" => pass.run \in DOMAIN runs /\ (Demo!Run.mode = "mainnet" => Demo!Run.marker > 0)
    /\ pass.pc \in {"step", "prompt", "send"} => pass.cluster = RightCluster
    /\ pass.pc \in {"prompt", "send"} => pass.i \in 1 .. 11
    /\ pass.pc = "send" /\ Demo!Run.asks /\ Demo!Here \in Demo!NotIdempotent => Demo!Run.landed[Demo!Here] = 0

\* No two runs hold the same approval, and what was spent under one was spent by the run
\* that holds it, or held it and has a newer one.
MarkersApart ==
    /\ \A r \in DOMAIN runs : runs[r].marker <= marker
    /\ \A q, r \in DOMAIN runs : runs[q].marker > 0 /\ runs[q].marker = runs[r].marker => q = r
    /\ \A p \in spent :
          /\ p = <<p[1], p[2]>> /\ p[1] \in Nat \ {0} /\ p[2] \in DOMAIN runs
          /\ p[1] <= runs[p[2]].marker
          /\ runs[p[2]].mode = "mainnet"
          /\ \A q \in DOMAIN runs : runs[q].marker = p[1] => q = p[2]
    /\ Demo!OneRunPerMarker

\* The rent is due only while nothing was paid.
RentOnce == clusters["mainnet"].program = "absent" => clusters["mainnet"].paid = 0

DemoInv == DemoTyped /\ PassOK /\ MarkersApart /\ RentOnce /\ Demo!SentOnce

\* What a reader takes for granted of the steps.
LEMMA StepFacts ==
  /\ Len(Demo!Steps) = 11 /\ DOMAIN Demo!Steps = 1 .. 11
  /\ \A i \in 1 .. 11 : Demo!Steps[i] \in Demo!AllSteps
  /\ Demo!NotIdempotent \subseteq Demo!AllSteps
  /\ "create-launch" \in Demo!AllSteps /\ "deploy" \in Demo!AllSteps
  /\ "deploy" \notin Demo!NotIdempotent /\ "create-launch" \notin Demo!NotIdempotent
<1>1. Len(Demo!Steps) = 11 /\ DOMAIN Demo!Steps = 1 .. 11
  BY DEF Demo!Steps
<1>2. \A i \in 1 .. 11 : Demo!Steps[i] \in Demo!AllSteps
  BY <1>1 DEF Demo!AllSteps
<1>3. Demo!NotIdempotent \cup {"create-launch", "deploy"} \subseteq Demo!AllSteps
  <2>1. /\ Demo!Steps[1] = "deploy" /\ Demo!Steps[2] = "create-launch" /\ Demo!Steps[3] = "buy1"
        /\ Demo!Steps[4] = "buy2" /\ Demo!Steps[6] = "damm-buy" /\ Demo!Steps[7] = "damm-sell"
        /\ Demo!Steps[9] = "redeem1" /\ Demo!Steps[10] = "redeem2"
    BY DEF Demo!Steps
  <2> QED BY <1>1, <2>1 DEF Demo!AllSteps, Demo!NotIdempotent
<1> QED BY <1>1, <1>2, <1>3 DEF Demo!NotIdempotent

\* One run is changed in what it has done, not in what it may.
LEMMA OneRun ==
  ASSUME DemoTyped, NEW r \in DOMAIN runs, NEW new \in Runs,
         runs' = [runs EXCEPT ![r] = new], new.mode = runs[r].mode, new.marker = runs[r].marker,
         new.asks = runs[r].asks
  PROVE  /\ runs' \in Seq(Runs) /\ Len(runs') = Len(runs) /\ DOMAIN runs' = DOMAIN runs
         /\ runs'[r] = new /\ \A q \in DOMAIN runs : q # r => runs'[q] = runs[q]
         /\ \A q \in DOMAIN runs : /\ runs'[q].mode = runs[q].mode /\ runs'[q].marker = runs[q].marker
                                   /\ runs'[q].asks = runs[q].asks
<1>1. runs \in Seq(Runs) /\ r \in 1 .. Len(runs)
  BY DEF DemoTyped
<1>2. /\ runs' \in Seq(Runs) /\ Len(runs') = Len(runs)
      /\ \A j \in 1 .. Len(runs) : runs'[j] = IF j = r THEN new ELSE runs[j]
  BY <1>1, ExceptSeq
<1> QED BY <1>1, <1>2

\* Nothing is spent and nobody is given an approval.
LEMMA MarkersStay ==
  ASSUME DemoTyped, MarkersApart, DOMAIN runs' = DOMAIN runs, marker' >= marker, marker' \in Nat, spent' = spent,
         \A q \in DOMAIN runs : runs'[q].mode = runs[q].mode /\ runs'[q].marker = runs[q].marker
  PROVE  MarkersApart'
<1>1. marker \in Int /\ \A q \in DOMAIN runs : runs[q].marker \in Nat
  <2>1. ASSUME NEW q \in DOMAIN runs PROVE runs[q] \in Runs
    BY ElementOfSeq DEF DemoTyped
  <2> QED BY <2>1 DEF DemoTyped, Runs
<1> QED BY <1>1 DEF MarkersApart, Demo!OneRunPerMarker

\* A pass ends, or something is done outside of it, and nothing else happens to the runs.
LEMMA Outside ==
  ASSUME DemoInv, UNCHANGED <<runs, spent>>, pass' \in {pass, Demo!Idle},
         marker' \in marker .. MaxMarkers, faults' \in 0 .. MaxFaults, price' \in Demo!Prices,
         clusters' \in [Demo!Clusters -> Ledgers],
         clusters'["mainnet"].paid = clusters["mainnet"].paid,
         clusters'["mainnet"].program = "absent" => clusters["mainnet"].program = "absent"
  PROVE  DemoInv'
<1> USE DEF DemoInv
<1>1. DemoTyped'
  <2>1. Len(runs) \in Nat
    BY DEF DemoTyped
  <2>2. CASE pass' = pass
    BY <2>2 DEF DemoTyped, Passes
  <2>3. CASE pass' = Demo!Idle
    BY <2>1, <2>3 DEF DemoTyped, Passes, Demo!Idle, Demo!Clusters
  <2> QED BY <2>2, <2>3
<1>2. PassOK'
  BY DEF PassOK, RightCluster, Demo!Idle, Demo!Run, Demo!Here, Demo!Step
<1>3. MarkersApart'
  BY MarkersStay DEF DemoTyped
<1>4. RentOnce' /\ Demo!SentOnce'
  BY DEF RentOnce, Demo!SentOnce
<1> QED BY <1>1, <1>2, <1>3, <1>4

\* A run is begun or resumed.
LEMMA Entered ==
  ASSUME DemoInv, NEW dirs \in Seq(Runs), NEW id \in DOMAIN dirs, NEW from, NEW cluster \in Demo!Clusters,
         DOMAIN dirs = DOMAIN runs \cup {id}, Len(dirs) >= Len(runs),
         \A q \in DOMAIN runs : dirs[q] = runs[q],
         id \notin DOMAIN runs => dirs[id].marker = 0 /\ dirs[id].landed = [s \in Demo!AllSteps |-> 0],
         Demo!Enter(dirs, id, from, cluster), faults' \in 0 .. MaxFaults
  PROVE  DemoInv'
<1> USE DEF DemoInv
<1>0. /\ marker \in Nat /\ marker \in 0 .. MaxMarkers /\ DOMAIN dirs = 1 .. Len(dirs) /\ Len(dirs) \in Nat
      /\ UNCHANGED <<clusters, marker, price, spent>> /\ DOMAIN runs = 1 .. Len(runs) /\ Len(runs) \in Nat
  <2>1. marker \in 0 .. MaxMarkers /\ runs \in Seq(Runs) /\ marker \in Nat /\ DOMAIN dirs = 1 .. Len(dirs)
        /\ Len(dirs) \in Nat /\ DOMAIN runs = 1 .. Len(runs) /\ Len(runs) \in Nat
    <3>1. marker \in 0 .. MaxMarkers /\ runs \in Seq(Runs)
      BY DEF DemoTyped
    <3>2. marker \in Nat
      BY <3>1
    <3>3. DOMAIN dirs = 1 .. Len(dirs) /\ Len(dirs) \in Nat
      OBVIOUS
    <3>4. DOMAIN runs = 1 .. Len(runs) /\ Len(runs) \in Nat
      BY <3>1
    <3> QED BY <3>1, <3>2, <3>3, <3>4
  <2>2. UNCHANGED <<clusters, marker, price, spent>>
    BY DEF Demo!Enter
  <2> QED BY <2>1, <2>2
<1>1. \A q \in DOMAIN dirs : dirs[q] \in Runs
  BY <1>0, ElementOfSeq
<1>2. CASE dirs[id].mode = "mainnet" /\ Demo!MarkerTaken(id)
  <2>1. runs' = dirs /\ pass' = Demo!Idle
    BY <1>2 DEF Demo!Enter
  <2>2. DemoTyped'
    BY <1>0, <2>1 DEF DemoTyped, Passes, Demo!Idle, Demo!Clusters
  <2>3. PassOK'
    BY <2>1 DEF PassOK, Demo!Idle
  <2>4. MarkersApart'
    <3>1. \A q \in DOMAIN runs' : runs'[q].marker > 0 => q \in DOMAIN runs /\ runs'[q] = runs[q]
      BY <2>1
    <3>2. \A q \in DOMAIN runs' : runs'[q].marker <= marker'
      BY <1>0, <2>1, <3>1 DEF MarkersApart
    <3>3. \A q, r \in DOMAIN runs' : runs'[q].marker > 0 /\ runs'[q].marker = runs'[r].marker => q = r
      BY <3>1, <2>1 DEF MarkersApart
    <3>4. ASSUME NEW p \in spent
          PROVE  /\ p = <<p[1], p[2]>> /\ p[1] \in Nat \ {0} /\ p[2] \in DOMAIN runs'
                 /\ p[1] <= runs'[p[2]].marker
                 /\ runs'[p[2]].mode = "mainnet"
                 /\ \A q \in DOMAIN runs' : runs'[q].marker = p[1] => q = p[2]
      BY <2>1, <3>1 DEF MarkersApart
    <3> QED BY <1>0, <3>2, <3>3, <3>4 DEF MarkersApart, Demo!OneRunPerMarker
  <2>5. RentOnce' /\ Demo!SentOnce'
    BY <1>0, <2>1, StepFacts DEF RentOnce, Demo!SentOnce
  <2> QED BY <2>2, <2>3, <2>4, <2>5
<1>3. CASE ~(dirs[id].mode = "mainnet" /\ Demo!MarkerTaken(id))
  <2> DEFINE m == IF dirs[id].mode = "mainnet" THEN marker ELSE 0
             new == [dirs[id] EXCEPT !.marker = m]
  <2>1. /\ runs' = [dirs EXCEPT ![id] = new]
        /\ pass' = [pc |-> "preflight", run |-> id, cluster |-> cluster, from |-> from, reached |-> FALSE, i |-> 1]
        /\ dirs[id].mode = "mainnet" => m > 0
    BY <1>3 DEF Demo!Enter
  <2>2. new \in Runs /\ new.marker = m /\ new.mode = dirs[id].mode /\ new.landed = dirs[id].landed
        /\ new.asks = dirs[id].asks
    BY <1>0, <1>1, ZenonT(30) DEF Runs
  <2>3. /\ runs' \in Seq(Runs) /\ Len(runs') = Len(dirs)
        /\ \A j \in DOMAIN dirs : runs'[j] = IF j = id THEN new ELSE dirs[j]
    BY <1>0, <2>1, <2>2, ExceptSeq
  <2>4. DOMAIN runs' = DOMAIN dirs
    BY <1>0, <2>3
  <2> HIDE DEF m, new
  <2>5. DemoTyped'
    BY <1>0, <2>1, <2>3 DEF DemoTyped, Passes
  <2>6. PassOK'
    BY <2>1, <2>2, <2>3, <2>4 DEF PassOK, Demo!Run, m
  <2>7. MarkersApart'
    <3>1. m \in Nat /\ m <= marker
      BY <1>0 DEF m
    <3>2. \A q \in DOMAIN runs \ {id} : runs'[q] = runs[q]
      BY <2>3
    <3>3. \A q \in DOMAIN runs' \ {id} : q \in DOMAIN runs
      BY <2>4
    <3>4. m > 0 => m = marker /\ \A q \in DOMAIN runs' \ {id} : runs'[q].marker # m
      BY <1>3, <2>2, <3>2, <3>3 DEF m, Demo!MarkerTaken
    <3>5. \A q \in DOMAIN runs' : runs'[q].marker <= marker'
      BY <1>0, <2>2, <2>3, <3>1, <3>2, <3>3 DEF MarkersApart
    <3>6. \A q, r \in DOMAIN runs' : runs'[q].marker > 0 /\ runs'[q].marker = runs'[r].marker => q = r
      <4>1. runs'[id].marker = m
        BY <2>2, <2>3
      <4> QED BY <3>2, <3>3, <3>4, <4>1 DEF MarkersApart
    <3>7. ASSUME NEW p \in spent
          PROVE  /\ p = <<p[1], p[2]>> /\ p[1] \in Nat \ {0} /\ p[2] \in DOMAIN runs'
                 /\ p[1] <= runs'[p[2]].marker
                 /\ runs'[p[2]].mode = "mainnet"
                 /\ \A q \in DOMAIN runs' : runs'[q].marker = p[1] => q = p[2]
      <4>1. /\ p = <<p[1], p[2]>> /\ p[1] \in Nat \ {0} /\ p[2] \in DOMAIN runs
            /\ p[1] <= runs[p[2]].marker /\ runs[p[2]].mode = "mainnet" /\ runs[p[2]].marker <= marker
            /\ \A q \in DOMAIN runs : runs[q].marker = p[1] => q = p[2]
        BY DEF MarkersApart
      <4>2. runs'[p[2]].mode = "mainnet" /\ p[2] \in DOMAIN runs'
        BY <2>2, <2>3, <2>4, <4>1
      <4>3. p[1] <= runs'[p[2]].marker
        <5>1. CASE p[2] = id
          <6>1. dirs[id].mode = "mainnet" /\ runs[p[2]].marker \in Nat
            BY <4>1, <5>1, <1>1 DEF Runs
          <6> QED BY <1>0, <6>1, <4>1, <5>1, <2>2, <2>3 DEF m
        <5>2. CASE p[2] # id
          BY <4>1, <5>2, <3>2
        <5> QED BY <5>1, <5>2
      <4>4. ASSUME NEW q \in DOMAIN runs', runs'[q].marker = p[1] PROVE q = p[2]
        <5>1. CASE q = id
          <6>1. m = p[1] /\ m = marker
            BY <2>2, <2>3, <3>1, <3>4, <4>1, <4>4, <5>1
          <6>2. runs[p[2]].marker = marker
            <7>1. runs[p[2]].marker \in Nat
              BY <1>1, <4>1 DEF Runs
            <7> QED BY <6>1, <7>1, <4>1, <1>0
          <6>3. ASSUME p[2] # id PROVE FALSE
            BY <6>1, <6>2, <6>3, <3>2, <3>4, <4>1, <4>2
          <6> QED BY <5>1, <6>3
        <5>2. CASE q # id
          BY <3>2, <3>3, <4>1, <4>4, <5>2
        <5> QED BY <5>1, <5>2
      <4> QED BY <4>1, <4>2, <4>3, <4>4
    <3> QED BY <1>0, <3>5, <3>6, <3>7 DEF MarkersApart, Demo!OneRunPerMarker
  <2>8. RentOnce' /\ Demo!SentOnce'
    <3>1. \A q \in DOMAIN runs' : runs'[q].landed = dirs[q].landed /\ runs'[q].asks = dirs[q].asks
      BY <2>2, <2>3, <2>4
    <3> QED BY <1>0, <2>4, <3>1, StepFacts DEF RentOnce, Demo!SentOnce
  <2> QED BY <2>5, <2>6, <2>7, <2>8
<1> QED BY <1>2, <1>3

\* The command goes on and nothing else happens.
LEMMA IdleTypes ==
  ASSUME DemoTyped
  PROVE  Demo!Idle \in Passes("none") /\ Demo!Idle.pc = "idle" /\ Demo!Idle.from = "none"
<1>1. Len(runs) \in Nat
  BY DEF DemoTyped
<1> QED BY <1>1 DEF Passes, Demo!Idle, Demo!Clusters

LEMMA GoOnTypes ==
  ASSUME DemoTyped
  PROVE  /\ Demo!GoOn \in Passes(pass.from) /\ Demo!GoOn.pc = "step" /\ Demo!GoOn.i = pass.i + 1
         /\ Demo!GoOn.run = pass.run /\ Demo!GoOn.cluster = pass.cluster /\ Demo!GoOn.from = pass.from
<1>1. pass \in Passes(pass.from)
  BY DEF DemoTyped
<1>2. pass.i \in Nat /\ pass.i + 1 \in Nat \ {0} /\ pass.reached \in BOOLEAN
  BY <1>1 DEF Passes
<1> DEFINE j == pass.i + 1
<1>3. Demo!GoOn = [pass EXCEPT !.pc = "step", !.i = j]
  BY DEF Demo!GoOn
<1> HIDE DEF j
<1>4. [pass EXCEPT !.pc = "step", !.i = j] \in Passes(pass.from)
  BY <1>1, <1>2 DEF Passes, j
<1> QED BY <1>1, <1>2, <1>3, <1>4 DEF Passes, j

LEMMA Moves ==
  ASSUME DemoInv, UNCHANGED <<clusters, marker, runs, price, spent, faults>>, PassOK',
         NEW pc \in {"step", "prompt", "send"}, NEW i \in {pass.i, pass.i + 1}, NEW reached \in BOOLEAN,
         pass' = [pass EXCEPT !.pc = pc, !.i = i, !.reached = reached]
  PROVE  DemoInv'
<1> USE DEF DemoInv
<1>1. DemoTyped'
  <2>1. i \in Nat \ {0} /\ pass \in Passes(pass.from)
    BY DEF DemoTyped, Passes
  <2>2. (pass \in Passes(pass.from))'
    BY <2>1 DEF Passes
  <2> QED BY <2>2 DEF DemoTyped
<1>2. MarkersApart'
  BY MarkersStay DEF DemoTyped
<1>3. RentOnce' /\ Demo!SentOnce'
  BY DEF RentOnce, Demo!SentOnce
<1> QED BY <1>1, <1>2, <1>3

\* The state file or the launch of one run is changed; nothing of it is sent.
LEMMA Recorded ==
  ASSUME DemoInv, NEW r \in DOMAIN runs, NEW new \in Runs, runs' = [runs EXCEPT ![r] = new],
         new.mode = runs[r].mode, new.marker = runs[r].marker, new.asks = runs[r].asks,
         new.landed = runs[r].landed,
         UNCHANGED <<clusters, marker, price, spent>>, faults' \in 0 .. MaxFaults,
         \/ pass' \in {pass, Demo!Idle}
         \/ pass.pc \in {"step", "prompt"} /\ pass' = Demo!GoOn
         \/ pass.pc = "preflight" /\ pass' = [pass EXCEPT !.pc = "step"] /\ pass.cluster = RightCluster
  PROVE  DemoInv'
<1> USE DEF DemoInv
<1>0. /\ runs' \in Seq(Runs) /\ Len(runs') = Len(runs) /\ DOMAIN runs' = DOMAIN runs
      /\ \A q \in DOMAIN runs : /\ runs'[q].mode = runs[q].mode /\ runs'[q].marker = runs[q].marker
                                /\ runs'[q].asks = runs[q].asks /\ runs'[q].landed = runs[q].landed
  BY OneRun
<1>1. /\ pass'.pc \in {"idle", "preflight", "step", "prompt", "send"} /\ pass'.cluster \in Demo!Clusters
      /\ pass'.i \in Nat \ {0} /\ pass'.run \in 0 .. Len(runs)
      /\ pass'.pc # "idle" => pass.pc # "idle" /\ pass'.run = pass.run /\ pass'.cluster = pass.cluster
      /\ pass'.pc \in {"step", "prompt", "send"} =>
            pass.pc \in {"step", "prompt", "send"} \/ pass.cluster = RightCluster
      /\ pass'.pc \in {"preflight", "prompt", "send"} => pass' = pass
  <2>1. CASE pass' = pass
    BY <2>1 DEF DemoTyped, Passes
  <2>2. CASE pass' = Demo!Idle
    BY <2>2, IdleTypes DEF Passes, Demo!Idle
  <2>3. CASE pass' = Demo!GoOn /\ pass.pc \in {"step", "prompt"}
    BY <2>3, GoOnTypes DEF DemoTyped, Passes
  <2>4. CASE /\ pass.pc = "preflight" /\ pass' = [pass EXCEPT !.pc = "step"] /\ pass.cluster = RightCluster
    BY <2>4 DEF DemoTyped, Passes
  <2> QED BY <2>1, <2>2, <2>3, <2>4
<1>2. DemoTyped'
  <2>1. pass' \in Passes(pass'.from)
    <3>1. pass \in Passes(pass.from)
      BY DEF DemoTyped
    <3>2. [pass EXCEPT !.pc = "step"] \in Passes(pass.from) /\ [pass EXCEPT !.pc = "step"].from = pass.from
      BY <3>1 DEF Passes
    <3> QED BY <3>1, <3>2, IdleTypes, GoOnTypes DEF DemoTyped
  <2>2. (pass \in Passes(pass.from))'
    BY <1>0, <2>1 DEF Passes
  <2> QED BY <1>0, <2>2 DEF DemoTyped
<1>3. PassOK'
  <2>1. pass'.pc # "idle" => /\ pass.run \in DOMAIN runs /\ Demo!Run'.mode = Demo!Run.mode
                             /\ Demo!Run'.marker = Demo!Run.marker /\ Demo!Run'.asks = Demo!Run.asks
                             /\ Demo!Run'.landed = Demo!Run.landed
    BY <1>0, <1>1 DEF PassOK, Demo!Run
  <2>2. (RightCluster = IF Demo!Run.mode = "mainnet" THEN "mainnet" ELSE "surfnet")
        /\ (RightCluster = IF Demo!Run.mode = "mainnet" THEN "mainnet" ELSE "surfnet")'
    BY DEF RightCluster
  <2> QED BY <1>0, <1>1, <2>1, <2>2 DEF PassOK, Demo!Here, Demo!Step
<1>4. MarkersApart'
  BY <1>0, MarkersStay DEF DemoTyped
<1>5. RentOnce' /\ Demo!SentOnce'
  BY <1>0 DEF RentOnce, Demo!SentOnce
<1> QED BY <1>2, <1>3, <1>4, <1>5

LEMMA PriceTypes ==
  ASSUME Demo!Run \in Runs, NEW step
  PROVE  Demo!Price(step).amount \in Int /\ Demo!Price(step).w \in Buyers
<1>1. Demo!Offer \in Int
  BY DEF Demo!Offer, Runs
<1>2. Demo!Price(step) \in [w : Buyers, amount : Int]
  <2>1. CASE step = "create-launch"
    BY <2>1 DEF Demo!Price, Buyers
  <2>2. CASE step = "buy1"
    BY <2>2 DEF Demo!Price, Buyers
  <2>3. CASE step = "buy2"
    BY <1>1, <2>3 DEF Demo!Price, Buyers
  <2>4. CASE step = "damm-buy"
    BY <2>4 DEF Demo!Price, Buyers
  <2>5. CASE step \notin {"create-launch", "buy1", "buy2", "damm-buy"}
    BY <2>5 DEF Demo!Price, Buyers
  <2> QED BY <2>1, <2>2, <2>3, <2>4, <2>5
<1> QED BY <1>2

LEMMA RentPaid ==
  ASSUME DemoInv, pass.cluster \in Demo!Clusters, Demo!Can("deploy"), NEW program_ \in {"buffer", "match"},
         Demo!PayRent(program_)
  PROVE  /\ clusters' \in [Demo!Clusters -> Ledgers]
         /\ clusters'["mainnet"].program = "absent" => clusters'["mainnet"].paid = 0
         /\ clusters'["mainnet"].paid <= 1
<1> DEFINE c == Demo!Chain
           rent == IF Demo!RentDue THEN c.sol - Demo!DeployCost ELSE c.sol
           paidUp == IF Demo!RentDue THEN c.paid + 1 ELSE c.paid
           new == [c EXCEPT !.program = program_, !.sol = rent, !.paid = paidUp]
<1>1. clusters' = [clusters EXCEPT ![pass.cluster] = new]
  BY DEF Demo!PayRent
<1>2. c \in Ledgers /\ clusters \in [Demo!Clusters -> Ledgers] /\ c = clusters[pass.cluster]
  BY DEF DemoInv, DemoTyped, Demo!Chain
<1>3. rent \in Nat /\ paidUp \in Nat
  BY <1>2 DEF Demo!Can, Demo!RentDue, Ledgers, Demo!DeployCost
<1>4. pass.cluster = "mainnet" => paidUp <= 1
  BY <1>2 DEF DemoInv, RentOnce, Demo!SentOnce, Demo!RentDue, Ledgers
<1> HIDE DEF rent, paidUp, c
<1>5. new \in Ledgers /\ new.program = program_ /\ new.paid = paidUp
  BY <1>2, <1>3 DEF Ledgers
<1> HIDE DEF new
<1> QED BY <1>1, <1>2, <1>4, <1>5 DEF DemoInv, RentOnce, Demo!SentOnce, Demo!Clusters

\* What is sent lands: no approval pays for a second run, nothing lands twice.
LEMMA LandsOnce ==
  ASSUME DemoInv, pass.pc = "send", NEW status \in {"todo", "done"}, Demo!Lands(status),
         pass' \in {Demo!GoOn, Demo!Idle}, faults' \in 0 .. MaxFaults
  PROVE  DemoInv'
<1> USE DEF DemoInv
<1>0. /\ pass.run \in DOMAIN runs /\ Demo!Run \in Runs /\ pass.i \in 1 .. 11 /\ Demo!Here \in Demo!AllSteps
      /\ pass.cluster = RightCluster /\ pass.cluster \in Demo!Clusters
      /\ Demo!Run.mode = "mainnet" => Demo!Run.marker > 0
      /\ Demo!Run.asks /\ Demo!Here \in Demo!NotIdempotent => Demo!Run.landed[Demo!Here] = 0
  <2>1. pass.run \in DOMAIN runs /\ pass.i \in 1 .. 11 /\ runs \in Seq(Runs) /\ pass.cluster \in Demo!Clusters
    BY DEF DemoTyped, PassOK, Passes
  <2>2. Demo!Run \in Runs
    BY <2>1, ElementOfSeq DEF Demo!Run
  <2>3. Demo!Here \in Demo!AllSteps
    BY <2>1, StepFacts DEF Demo!Here, Demo!Step
  <2> QED BY <2>1, <2>2, <2>3 DEF PassOK
<1> DEFINE s == Demo!Here
           own == Demo!Run
           n == IF Demo!Again(s) THEN own.landed[s] ELSE own.landed[s] + 1
           launch == own.launch \/ (s = "create-launch" /\ status = "done")
           reserve == IF s \in {"create-launch", "buy1", "buy2"} /\ ~Demo!Again(s)
                      THEN own.reserve + Demo!Price(s).amount ELSE own.reserve
           graduated == own.graduated \/ s = "crank-graduate"
           new == [own EXCEPT !.landed[s] = n, !.steps[s] = status, !.launch = launch, !.reserve = reserve,
                              !.graduated = graduated]
<1>1. runs' = [runs EXCEPT ![pass.run] = new] /\ Demo!Can(s) /\ UNCHANGED <<marker, price>>
  <2>1. Demo!Can(s) /\ UNCHANGED <<marker, price>>
    BY DEF Demo!Lands
  <2>2. runs' = [runs EXCEPT ![pass.run] = new]
    BY DEF Demo!Lands, Demo!Run
  <2> QED BY <2>1, <2>2
<1>2. Demo!Price(s).amount \in Int /\ Demo!Price(s).w \in Buyers
  BY <1>0, PriceTypes
<1>3. /\ new \in Runs /\ new.mode = own.mode /\ new.marker = own.marker /\ new.asks = own.asks
      /\ \A t \in Demo!AllSteps : t # s => new.landed[t] = own.landed[t]
      /\ s # "create-launch" => new.landed[s] = own.landed[s] + 1
  <2>1. n \in Nat /\ reserve \in Int /\ launch \in BOOLEAN /\ graduated \in BOOLEAN
    BY <1>0, <1>2 DEF Runs
  <2>2. s # "create-launch" => n = own.landed[s] + 1
    BY DEF Demo!Again
  <2> HIDE DEF n, reserve, launch, graduated, own, s
  <2>3. own \in Runs /\ s \in Demo!AllSteps
    BY <1>0 DEF own, s
  <2> QED BY <2>1, <2>2, <2>3 DEF Runs
<1> HIDE DEF new, s, own
<1>4. /\ runs' \in Seq(Runs) /\ Len(runs') = Len(runs) /\ DOMAIN runs' = DOMAIN runs
      /\ runs'[pass.run] = new /\ \A q \in DOMAIN runs : q # pass.run => runs'[q] = runs[q]
      /\ \A q \in DOMAIN runs : /\ runs'[q].mode = runs[q].mode /\ runs'[q].marker = runs[q].marker
                                /\ runs'[q].asks = runs[q].asks
  BY <1>0, <1>1, <1>3, OneRun DEF own, Demo!Run
<1>5. /\ clusters' \in [Demo!Clusters -> Ledgers]
      /\ clusters'["mainnet"].program = "absent" => clusters'["mainnet"].paid = 0
      /\ clusters'["mainnet"].paid <= 1
  <2>1. CASE s = "deploy"
    BY <1>0, <1>1, <2>1, RentPaid DEF Demo!Lands, s
  <2>2. CASE s # "deploy"
    <3> DEFINE w == Demo!Price(s).w
               left == IF Demo!Again(s) THEN Demo!Chain.spyx[w] ELSE Demo!Chain.spyx[w] - Demo!Price(s).amount
    <3>1. clusters' = [clusters EXCEPT ![pass.cluster].spyx[w] = left]
      BY <2>2 DEF Demo!Lands, Demo!Chain, s
    <3>2. Demo!Chain \in Ledgers /\ clusters \in [Demo!Clusters -> Ledgers] /\ w \in Buyers
      BY <1>0, <1>2 DEF DemoTyped, Demo!Chain
    <3>3. left \in Nat
      BY <1>1, <1>2, <3>2 DEF Demo!Can, Ledgers
    <3> HIDE DEF w, left
    <3>4. clusters' \in [Demo!Clusters -> Ledgers]
      BY <1>0, <3>1, <3>2, <3>3 DEF Ledgers, Demo!Chain
    <3>5. \A c \in Demo!Clusters : clusters'[c].paid = clusters[c].paid /\ clusters'[c].program = clusters[c].program
      BY <1>0, <3>1, <3>2 DEF Ledgers
    <3> QED BY <3>4, <3>5 DEF RentOnce, Demo!SentOnce, Demo!Clusters
  <2> QED BY <2>1, <2>2
<1>6. DemoTyped'
  <2>1. pass' \in Passes(pass'.from)
    BY IdleTypes, GoOnTypes
  <2>2. (pass \in Passes(pass.from))'
    BY <1>4, <2>1 DEF Passes
  <2> QED BY <1>1, <1>4, <1>5, <2>2 DEF DemoTyped
<1>7. PassOK'
  <2>1. CASE pass' = Demo!GoOn
    <3>1. pass'.pc = "step" /\ pass'.run = pass.run /\ pass'.cluster = pass.cluster
      BY <2>1, GoOnTypes
    <3> QED BY <1>0, <1>4, <3>1 DEF PassOK, RightCluster, Demo!Run
  <2>2. CASE pass' = Demo!Idle
    BY <2>2 DEF PassOK, Demo!Idle
  <2> QED BY <2>1, <2>2
<1>8. MarkersApart'
  <2>1. CASE spent' = spent
    BY <1>1, <1>4, <2>1, MarkersStay DEF DemoTyped
  <2>2. CASE pass.cluster = "mainnet" /\ spent' = spent \cup {<<own.marker, pass.run>>}
    <3> DEFINE p == <<own.marker, pass.run>>
    <3>1. own.mode = "mainnet" /\ own.marker \in Nat \ {0} /\ own = runs[pass.run]
      BY <1>0, <2>2 DEF own, Demo!Run, RightCluster, Runs
    <3>2. /\ p = <<p[1], p[2]>> /\ p[1] \in Nat \ {0} /\ p[2] \in DOMAIN runs' /\ p[1] <= runs'[p[2]].marker
          /\ runs'[p[2]].mode = "mainnet" /\ \A q \in DOMAIN runs' : runs'[q].marker = p[1] => q = p[2]
      BY <1>0, <1>4, <3>1 DEF MarkersApart
    <3>3. ASSUME NEW z \in spent
          PROVE  /\ z = <<z[1], z[2]>> /\ z[1] \in Nat \ {0} /\ z[2] \in DOMAIN runs' /\ z[1] <= runs'[z[2]].marker
                 /\ runs'[z[2]].mode = "mainnet" /\ \A q \in DOMAIN runs' : runs'[q].marker = z[1] => q = z[2]
      BY <1>4 DEF MarkersApart
    <3>4. /\ \A r \in DOMAIN runs' : runs'[r].marker <= marker'
          /\ \A q, r \in DOMAIN runs' : runs'[q].marker > 0 /\ runs'[q].marker = runs'[r].marker => q = r
      BY <1>1, <1>4 DEF MarkersApart
    <3>5. Demo!OneRunPerMarker'
      <4>1. \A z \in spent : z[1] = p[1] => z[2] = p[2]
        BY <1>0, <3>1 DEF MarkersApart
      <4> HIDE DEF p
      <4> QED BY <2>2, <4>1 DEF Demo!OneRunPerMarker, MarkersApart, p
    <3> QED BY <2>2, <3>2, <3>3, <3>4, <3>5 DEF MarkersApart
  <2> QED BY <2>1, <2>2 DEF Demo!Lands, own
<1>9. Demo!SentOnce'
  <2>1. ASSUME NEW q \in DOMAIN runs', runs'[q].asks, NEW t \in Demo!NotIdempotent
        PROVE  runs'[q].landed[t] <= 1
    <3>1. runs[q].landed[t] <= 1 /\ runs[q].asks /\ t \in Demo!AllSteps
      BY <1>4, <2>1, StepFacts DEF Demo!SentOnce
    <3>2. CASE q # pass.run \/ t # s
      BY <1>3, <1>4, <3>1, <3>2 DEF own, Demo!Run
    <3>3. CASE q = pass.run /\ t = s
      <4>1. own.asks /\ own.landed[s] = 0
        BY <1>0, <3>1, <3>3 DEF own, s, Demo!Run
      <4>2. s # "create-launch"
        BY <3>3, StepFacts
      <4> QED BY <1>3, <1>4, <3>3, <4>1, <4>2
    <3> QED BY <3>2, <3>3
  <2> QED BY <1>5, <2>1 DEF Demo!SentOnce
<1>10. RentOnce'
  BY <1>5 DEF RentOnce
<1> QED BY <1>6, <1>7, <1>8, <1>9, <1>10

LEMMA Stopped ==
  ASSUME DemoTyped, marker' = marker, runs' = runs, price' = price, faults' \in 0 .. MaxFaults,
         clusters' \in [Demo!Clusters -> Ledgers], pass' = Demo!Idle
  PROVE  DemoTyped' /\ PassOK'
<1>1. pass' \in Passes(pass'.from) /\ pass'.pc = "idle"
  BY IdleTypes
<1>2. (pass \in Passes(pass.from))'
  BY <1>1 DEF Passes
<1> QED BY <1>1, <1>2 DEF DemoTyped, PassOK

\* The state file says of the step at hand what became of it.
MarkedRun ==
    \E new \in Runs :
       /\ runs' = [runs EXCEPT ![pass.run] = new] /\ pass.run \in DOMAIN runs
       /\ new.mode = runs[pass.run].mode /\ new.marker = runs[pass.run].marker /\ new.landed = runs[pass.run].landed
       /\ new.asks = runs[pass.run].asks

LEMMA Marked ==
  ASSUME DemoTyped, PassOK, pass.pc # "idle", pass.i <= 11, NEW status \in {"todo", "done", "skipped"},
         runs' = Demo!Mark(status)
  PROVE  MarkedRun
<1>1. pass.run \in DOMAIN runs /\ pass.i \in 1 .. 11 /\ runs \in Seq(Runs)
  BY DEF DemoTyped, PassOK, Passes
<1>2. runs[pass.run] \in Runs /\ Demo!Here \in Demo!AllSteps
  BY <1>1, ElementOfSeq, StepFacts DEF Demo!Here, Demo!Step
<1> DEFINE new == [runs[pass.run] EXCEPT !.steps[Demo!Here] = status]
<1>3. /\ new \in Runs
      /\ new.mode = runs[pass.run].mode /\ new.marker = runs[pass.run].marker /\ new.landed = runs[pass.run].landed
      /\ new.asks = runs[pass.run].asks
  BY <1>2 DEF Runs
<1>4. runs' = [runs EXCEPT ![pass.run] = new]
  BY DEF Demo!Mark
<1> HIDE DEF new
<1> QED BY <1>1, <1>3, <1>4 DEF MarkedRun

\* Nothing is paid for the program.
SameProgram ==
    /\ clusters' \in [Demo!Clusters -> Ledgers]
    /\ clusters'["mainnet"].paid = clusters["mainnet"].paid
    /\ clusters'["mainnet"].program = clusters["mainnet"].program

LEMMA DemoInit == OpsAssumption /\ Demo!Init => DemoInv
<1> SUFFICES ASSUME OpsAssumption, Demo!Init PROVE DemoInv
  OBVIOUS
<1>1. runs = <<>> /\ spent = {} /\ marker = 0 /\ faults = 0 /\ pass = Demo!Idle
  BY DEF Demo!Init
<1>2. DemoTyped
  <2>1. clusters \in [Demo!Clusters -> Ledgers]
    <3>1. Demo!Given \in [Buyers -> Nat]
      BY DEF Demo!Given, Buyers
    <3>2. PICK d \in Nat :
             clusters = [c \in Demo!Clusters |->
                           [program |-> "absent", paid |-> 0, sol |-> d, spyx |-> Demo!Given, blocked |-> FALSE]]
      BY DEF Demo!Init, OpsAssumption
    <3> QED BY <3>1, <3>2 DEF Ledgers
  <2>2. runs \in Seq(Runs) /\ Len(runs) = 0
    BY <1>1, EmptySeq
  <2>3. pass \in Passes(pass.from)
    BY <1>1, <2>2 DEF Passes, Demo!Idle, Demo!Clusters
  <2>4. price \in Demo!Prices
    BY DEF Demo!Init, Demo!Prices
  <2> QED BY <1>1, <2>1, <2>2, <2>3, <2>4 DEF DemoTyped, OpsAssumption
<1>3. DOMAIN runs = {}
  BY <1>1
<1>4. PassOK /\ MarkersApart
  BY <1>1, <1>3 DEF PassOK, MarkersApart, Demo!OneRunPerMarker, Demo!Idle
<1>5. RentOnce /\ Demo!SentOnce
  BY <1>3 DEF RentOnce, Demo!SentOnce, Demo!Init, Demo!Clusters
<1> QED BY <1>2, <1>4, <1>5 DEF DemoInv

LEMMA DemoNext == OpsAssumption /\ DemoInv /\ Demo!Next => DemoInv'
<1> SUFFICES ASSUME OpsAssumption, DemoInv, Demo!Next PROVE DemoInv'
  OBVIOUS
<1>0. /\ DemoTyped /\ PassOK /\ marker \in 0 .. MaxMarkers /\ faults \in 0 .. MaxFaults
      /\ clusters \in [Demo!Clusters -> Ledgers] /\ runs \in Seq(Runs) /\ pass \in Passes(pass.from)
      /\ price \in Demo!Prices
      /\ Len(runs) \in Nat /\ DOMAIN runs = 1 .. Len(runs) /\ MaxFaults \in Nat /\ MaxMarkers \in Nat
  <2>1. DemoTyped /\ PassOK /\ MaxFaults \in Nat /\ MaxMarkers \in Nat
    BY DEF DemoInv, OpsAssumption
  <2> QED BY <2>1 DEF DemoTyped
<1>f. Demo!Fault => faults' \in 0 .. MaxFaults
  BY <1>0 DEF Demo!Fault
<1>1. CASE Demo!WriteMarker
  BY <1>0, <1>1, Outside DEF Demo!WriteMarker
<1>2. CASE Demo!Start
  <2>1. PICK way \in Demo!Ways, cluster \in Demo!Clusters :
           Demo!Enter(Append(runs, Demo!NewRun(way[1], way[2])), Len(runs) + 1, "none", cluster)
    BY <1>2 DEF Demo!Start
  <2> DEFINE fresh_ == Demo!NewRun(way[1], way[2])
             dirs == Append(runs, fresh_)
  <2>2. fresh_ \in Runs /\ fresh_.marker = 0 /\ fresh_.landed = [t \in Demo!AllSteps |-> 0]
    <3>1. way \in {<<"mainnet", TRUE>>, <<"mainnet", FALSE>>, <<"dry", FALSE>>}
      BY DEF Demo!Ways
    <3>2. CASE way = <<"mainnet", TRUE>>
      BY <3>2 DEF Demo!NewRun, Runs
    <3>3. CASE way = <<"mainnet", FALSE>>
      BY <3>3 DEF Demo!NewRun, Runs
    <3>4. CASE way = <<"dry", FALSE>>
      BY <3>4 DEF Demo!NewRun, Runs
    <3> QED BY <3>1, <3>2, <3>3, <3>4
  <2> HIDE DEF fresh_
  <2>3. /\ dirs \in Seq(Runs) /\ Len(dirs) = Len(runs) + 1 /\ dirs[Len(runs) + 1] = fresh_
        /\ \A q \in 1 .. Len(runs) : dirs[q] = runs[q]
    BY <1>0, <2>2, AppendProperties
  <2> HIDE DEF dirs
  <2>4. DOMAIN dirs = DOMAIN runs \cup {Len(runs) + 1} /\ Len(runs) + 1 \in DOMAIN dirs
    BY <1>0, <2>3
  <2>5. faults' \in 0 .. MaxFaults
    BY <1>0, <1>2, <1>f DEF Demo!Start
  <2>6. Demo!Enter(dirs, Len(runs) + 1, "none", cluster)
    BY <2>1 DEF dirs, fresh_
  <2>7. /\ Len(dirs) >= Len(runs) /\ \A q \in DOMAIN runs : dirs[q] = runs[q]
        /\ dirs[Len(runs) + 1].marker = 0 /\ dirs[Len(runs) + 1].landed = [t \in Demo!AllSteps |-> 0]
    BY <1>0, <2>2, <2>3
  <2> QED BY <2>3, <2>4, <2>5, <2>6, <2>7, Entered
<1>3. CASE \E id \in 1 .. MaxRuns, c \in Demo!Clusters : Demo!Resume(id, c)
  <2>1. PICK id \in 1 .. MaxRuns, c \in Demo!Clusters : Demo!Resume(id, c)
    BY <1>3
  <2>2. id \in DOMAIN runs /\ Demo!Enter(runs, id, Demo!From(id), c) /\ UNCHANGED faults
    BY <2>1 DEF Demo!Resume
  <2>3. DOMAIN runs = DOMAIN runs \cup {id} /\ Len(runs) >= Len(runs) /\ faults' \in 0 .. MaxFaults
    BY <1>0, <2>2
  <2>4. runs \in Seq(Runs) /\ id \in DOMAIN runs /\ Demo!Enter(runs, id, Demo!From(id), c)
    BY <1>0, <2>2
  <2> QED BY <2>3, <2>4, Entered
<1>4. CASE Demo!Preflight
  <2>1. CASE Demo!Abort
    BY <1>0, <2>1, Outside DEF Demo!Abort
  <2>2. CASE ~(Demo!Run.mode = "dry" /\ pass.cluster = "mainnet")
    <3>1. /\ pass.pc = "preflight" /\ runs' = Demo!Planned /\ UNCHANGED <<clusters, marker, price, spent, faults>>
          /\ pass' = IF Demo!Run.mode = "mainnet" /\ (pass.cluster # "mainnet" \/ Demo!NoGo(Demo!Chain))
                     THEN Demo!Idle ELSE [pass EXCEPT !.pc = "step"]
      BY <1>4, <2>2 DEF Demo!Preflight
    <3>2. pass.run \in DOMAIN runs /\ Demo!Run \in Runs /\ Demo!Run = runs[pass.run]
      BY <1>0, <3>1, ElementOfSeq DEF PassOK, Demo!Run
    <3> DEFINE plan == IF runs[pass.run].plan = "none" THEN price ELSE runs[pass.run].plan
               new == [runs[pass.run] EXCEPT !.plan = plan]
    <3>3. runs' = [runs EXCEPT ![pass.run] = new]
      BY <3>1 DEF Demo!Planned
    <3>4. plan \in {"none"} \cup Demo!Prices
      BY <1>0, <3>2 DEF Runs
    <3> HIDE DEF plan
    <3>5. /\ new \in Runs /\ new.mode = runs[pass.run].mode /\ new.marker = runs[pass.run].marker
          /\ new.asks = runs[pass.run].asks /\ new.landed = runs[pass.run].landed
      BY <3>2, <3>4 DEF Runs
    <3> HIDE DEF new
    <3>6. pass' = Demo!Idle \/ (pass' = [pass EXCEPT !.pc = "step"] /\ pass.cluster = RightCluster)
      <4>1. Demo!Run.mode \in {"mainnet", "dry"} /\ pass.cluster \in {"mainnet", "surfnet"}
        BY <1>0, <3>2 DEF Runs, Passes, Demo!Clusters
      <4> QED BY <2>2, <3>1, <4>1 DEF RightCluster
    <3> QED BY <1>0, <3>1, <3>2, <3>3, <3>5, <3>6, Recorded
  <2> QED BY <1>4, <2>1, <2>2 DEF Demo!Preflight
<1>5. CASE Demo!PassOver
  <2>1. pass.pc = "step" /\ pass' = Demo!GoOn /\ UNCHANGED <<clusters, marker, price, spent, faults>>
    BY <1>5 DEF Demo!PassOver
  <2>2. CASE UNCHANGED runs
    <3>1. Demo!GoOn = [pass EXCEPT !.pc = "step", !.i = pass.i + 1, !.reached = pass.reached]
      BY <1>0 DEF Demo!GoOn, Passes
    <3>2. PassOK'
      BY <1>0, <2>1, <2>2, GoOnTypes DEF PassOK, RightCluster, Demo!Run
    <3>3. pass.reached \in BOOLEAN
      BY <1>0 DEF Passes
    <3> QED BY <2>1, <2>2, <3>1, <3>2, <3>3, Moves
  <2>3. CASE runs' = Demo!Mark("skipped") /\ pass.i <= 11
    <3>1. MarkedRun
      BY <1>0, <2>1, <2>3, Marked
    <3> QED BY <1>0, <2>1, <3>1, Recorded DEF MarkedRun
  <2> QED BY <1>5, <2>2, <2>3, StepFacts DEF Demo!PassOver
<1>g. ASSUME NEW told \in BOOLEAN, Demo!GuardsWith(told), faults' \in 0 .. MaxFaults PROVE DemoInv'
  <2>1. UNCHANGED <<clusters, marker, runs, price, spent>> /\ pass.pc = "step" /\ pass.i <= 11
    BY <1>g, StepFacts DEF Demo!GuardsWith
  <2>2. CASE pass' = Demo!Idle
    BY <1>0, <1>g, <2>1, <2>2, Outside
  <2>3. CASE pass' = [pass EXCEPT !.pc = "prompt", !.reached = pass.from # "none"]
    <3>1. pass'.pc = "prompt" /\ pass'.run = pass.run /\ pass'.cluster = pass.cluster /\ pass'.i = pass.i
      BY <1>0, <2>3 DEF Passes
    <3>2. PassOK'
      <4>1. pass.i \in 1 .. 11
        BY <1>0, <2>1 DEF Passes
      <4>2. Demo!Run' = Demo!Run /\ RightCluster' = RightCluster
        BY <2>1, <3>1 DEF Demo!Run, RightCluster
      <4> QED BY <1>0, <2>1, <3>1, <4>1, <4>2 DEF PassOK
    <3>3. pass' \in Passes(pass'.from)
      <4>1. (pass.from # "none") \in BOOLEAN
        OBVIOUS
      <4> QED BY <1>0, <2>3, <4>1 DEF Passes
    <3>4. DemoTyped'
      <4>1. (pass \in Passes(pass.from))'
        BY <2>1, <3>3 DEF Passes
      <4> QED BY <1>0, <1>g, <2>1, <4>1 DEF DemoTyped
    <3>5. MarkersApart' /\ RentOnce' /\ Demo!SentOnce'
      BY <1>0, <2>1, MarkersStay DEF DemoInv, RentOnce, Demo!SentOnce
    <3> QED BY <3>2, <3>4, <3>5 DEF DemoInv
  <2> QED BY <1>g, <2>2, <2>3 DEF Demo!GuardsWith
<1>6. CASE Demo!Guards
  BY <1>0, <1>6, <1>g DEF Demo!Guards
<1>7. CASE Demo!NoPrice
  BY <1>f, <1>7, <1>g DEF Demo!NoPrice
<1>8. CASE Demo!Answer
  <2>1. pass.pc = "prompt" /\ UNCHANGED <<clusters, marker, price, spent, faults>> /\ pass.i \in 1 .. 11
    BY <1>0, <1>8 DEF Demo!Answer, PassOK
  <2>2. CASE runs' = Demo!Mark("skipped") /\ pass' = Demo!GoOn
    <3>1. MarkedRun
      BY <1>0, <2>1, <2>2, Marked
    <3> QED BY <1>0, <2>1, <2>2, <3>1, Recorded DEF MarkedRun
  <2>3. CASE /\ pass' = [pass EXCEPT !.pc = "send"] /\ UNCHANGED runs
             /\ ~(Demo!Run.asks /\ Demo!Here \in Demo!NotIdempotent /\ Demo!Run.landed[Demo!Here] > 0)
    <3>1. pass' = [pass EXCEPT !.pc = "send", !.i = pass.i, !.reached = pass.reached]
      BY <1>0, <2>3 DEF Passes
    <3>2. pass'.pc = "send" /\ pass'.run = pass.run /\ pass'.cluster = pass.cluster /\ pass'.i = pass.i
      BY <1>0, <2>3 DEF Passes
    <3>3. Demo!Run \in Runs /\ Demo!Here \in Demo!AllSteps
      BY <1>0, <2>1, ElementOfSeq, StepFacts DEF PassOK, Demo!Run, Demo!Here, Demo!Step
    <3>4. Demo!Run.landed[Demo!Here] \in Nat
      BY <3>3 DEF Runs
    <3>5. Demo!Run' = Demo!Run /\ Demo!Here' = Demo!Here /\ RightCluster' = RightCluster
      BY <2>3, <3>2 DEF Demo!Run, Demo!Here, Demo!Step, RightCluster
    <3>6. PassOK'
      BY <1>0, <2>1, <2>3, <3>2, <3>4, <3>5 DEF PassOK
    <3>7. pass.reached \in BOOLEAN
      BY <1>0 DEF Passes
    <3> QED BY <2>1, <2>3, <3>1, <3>6, <3>7, Moves
  <2> QED BY <1>8, <2>2, <2>3 DEF Demo!Answer
<1>9. CASE Demo!Send
  <2>1. UNCHANGED faults /\ Demo!Lands("done") /\ pass' = Demo!GoOn /\ pass.pc = "send"
    BY <1>9 DEF Demo!Send
  <2> QED BY <1>0, <2>1, LandsOnce
<1>10. CASE Demo!SendUnconfirmed
  <2>1. Demo!Fault /\ Demo!Lands("todo") /\ pass' = Demo!Idle /\ pass.pc = "send"
    BY <1>10 DEF Demo!SendUnconfirmed
  <2> QED BY <1>f, <2>1, LandsOnce
<1>11. CASE Demo!SendFails
  <2>1. /\ pass.pc = "send" /\ faults' \in 0 .. MaxFaults /\ pass' = Demo!Idle /\ Demo!Can(Demo!Here)
        /\ UNCHANGED <<marker, runs, price, spent>>
    BY <1>f, <1>11 DEF Demo!SendFails
  <2>2. CASE UNCHANGED clusters
    BY <1>0, <2>1, <2>2, Outside
  <2>3. CASE Demo!Here = "deploy" /\ Demo!PayRent("buffer")
    <3>1. /\ clusters' \in [Demo!Clusters -> Ledgers] /\ clusters'["mainnet"].paid <= 1
          /\ clusters'["mainnet"].program = "absent" => clusters'["mainnet"].paid = 0
      BY <1>0, <2>1, <2>3, RentPaid DEF Passes
    <3>2. DemoTyped' /\ PassOK'
      BY <1>0, <2>1, <3>1, Stopped
    <3>3. MarkersApart'
      BY <1>0, <2>1, MarkersStay DEF DemoInv
    <3> QED BY <2>1, <3>1, <3>2, <3>3 DEF DemoInv, RentOnce, Demo!SentOnce
  <2> QED BY <1>11, <2>2, <2>3 DEF Demo!SendFails
<1>12. CASE Demo!Refused
  BY <1>0, <1>12, Outside DEF Demo!Refused, Demo!Abort
<1>13. CASE Demo!Finish
  <2>1. /\ pass.pc = "step" /\ pass' = Demo!Idle /\ UNCHANGED <<clusters, marker, price, spent, faults>>
        /\ runs' = [runs EXCEPT ![pass.run].outcome = "completed"] /\ pass.run \in DOMAIN runs
    BY <1>0, <1>13 DEF Demo!Finish, PassOK
  <2> DEFINE new == [runs[pass.run] EXCEPT !.outcome = "completed"]
  <2>2. runs[pass.run] \in Runs
    BY <1>0, <2>1, ElementOfSeq
  <2>3. /\ new \in Runs /\ new.mode = runs[pass.run].mode /\ new.marker = runs[pass.run].marker
        /\ new.asks = runs[pass.run].asks /\ new.landed = runs[pass.run].landed /\ runs' = [runs EXCEPT ![pass.run] = new]
    BY <2>1, <2>2 DEF Runs
  <2> HIDE DEF new
  <2> QED BY <1>0, <2>1, <2>3, Recorded
<1>14. CASE Demo!Interrupted
  BY <1>0, <1>f, <1>14, Outside DEF Demo!Interrupted
<1>15. CASE Demo!OthersTrade
  <2>1. UNCHANGED <<clusters, marker, pass, price, spent>>
    BY <1>15 DEF Demo!OthersTrade
  <2>2. PICK r \in DOMAIN runs :
           \/ runs' = [runs EXCEPT ![r].graduated = TRUE] /\ UNCHANGED faults
           \/ Demo!Fault /\ runs' = [runs EXCEPT ![r].reserve = 100]
    BY <1>15 DEF Demo!OthersTrade
  <2>3. runs[r] \in Runs
    BY <1>0, ElementOfSeq
  <2>4. faults' \in 0 .. MaxFaults
    BY <1>0, <1>f, <2>2
  <2>5. CASE runs' = [runs EXCEPT ![r].graduated = TRUE]
    <3> DEFINE new == [runs[r] EXCEPT !.graduated = TRUE]
    <3>1. /\ new \in Runs /\ new.mode = runs[r].mode /\ new.marker = runs[r].marker
          /\ new.asks = runs[r].asks /\ new.landed = runs[r].landed /\ runs' = [runs EXCEPT ![r] = new]
      BY <2>3, <2>5 DEF Runs
    <3> HIDE DEF new
    <3> QED BY <2>1, <2>4, <3>1, Recorded
  <2>6. CASE runs' = [runs EXCEPT ![r].reserve = 100]
    <3> DEFINE new == [runs[r] EXCEPT !.reserve = 100]
    <3>1. /\ new \in Runs /\ new.mode = runs[r].mode /\ new.marker = runs[r].marker
          /\ new.asks = runs[r].asks /\ new.landed = runs[r].landed /\ runs' = [runs EXCEPT ![r] = new]
      BY <2>3, <2>6, SMTT(30) DEF Runs
    <3> HIDE DEF new
    <3> QED BY <2>1, <2>4, <3>1, Recorded
  <2> QED BY <2>2, <2>5, <2>6
<1>16. CASE Demo!Pause
  <2>1. clusters' = [clusters EXCEPT !["mainnet"].blocked = TRUE] /\ UNCHANGED <<marker, runs, pass, price, spent>>
    BY <1>16 DEF Demo!Pause
  <2>2. SameProgram
    BY <1>0, <2>1 DEF SameProgram, Ledgers, Demo!Clusters
  <2>3. faults' \in 0 .. MaxFaults
    BY <1>f, <1>16 DEF Demo!Pause
  <2> QED BY <1>0, <2>1, <2>2, <2>3, Outside DEF SameProgram
<1>17. CASE Demo!Unpause
  <2>1. clusters' = [clusters EXCEPT !["mainnet"].blocked = FALSE] /\ UNCHANGED <<marker, runs, pass, price, spent, faults>>
    BY <1>17 DEF Demo!Unpause
  <2>2. SameProgram
    BY <1>0, <2>1 DEF SameProgram, Ledgers, Demo!Clusters
  <2> QED BY <1>0, <2>1, <2>2, Outside DEF SameProgram
<1>18. CASE Demo!TopUp
  <2>1. UNCHANGED <<marker, runs, pass, price, spent, faults>>
    BY <1>18 DEF Demo!TopUp
  <2> DEFINE c == clusters["mainnet"]
             sol_ == IF c.sol < Demo!DeployCost THEN Demo!DeployCost ELSE c.sol
  <2>2. clusters' = [clusters EXCEPT !["mainnet"].sol = sol_, !["mainnet"].spyx = Demo!Given]
    BY <1>18 DEF Demo!TopUp
  <2>3. c \in Ledgers
    BY <1>0 DEF Demo!Clusters
  <2>4. sol_ \in Nat /\ Demo!Given \in [Buyers -> Nat]
    BY <2>3 DEF Ledgers, Demo!DeployCost, Demo!Given, Buyers
  <2> HIDE DEF sol_
  <2>5. SameProgram
    BY <1>0, <2>2, <2>3, <2>4 DEF SameProgram, Ledgers, Demo!Clusters
  <2> QED BY <1>0, <2>1, <2>5, Outside DEF SameProgram
<1>19. CASE Demo!PriceMoves
  <2>1. UNCHANGED <<clusters, marker, runs, pass, spent>> /\ Demo!Fault /\ price' \in Demo!Prices
    BY <1>19 DEF Demo!PriceMoves
  <2> QED BY <1>0, <1>f, <2>1, Outside
<1> QED BY <1>1, <1>2, <1>3, <1>4, <1>5, <1>6, <1>7, <1>8, <1>9, <1>10, <1>11, <1>12, <1>13, <1>14, <1>15, <1>16,
           <1>17, <1>18, <1>19 DEF Demo!Next, Demo!Goes

-----------------------------------------------------------------------------
(* Preflight.                                                              *)

Bytes == Seq(Nat)

Buffers == [tag : {0, 1}, authority : {"none", "deployer", "other"}, payload : Bytes]

GateTyped ==
    /\ local \in Binaries /\ rehearsed \in Binaries /\ image \in Bytes /\ program \in Bytes
    /\ buffer \in Buffers
    /\ sol \in Int /\ done \subseteq Gate!Roles /\ unrecorded \subseteq Gate!Roles
    /\ stage \in {"idle", "go", "writing", "verify", "deployed"} \cup Gate!Roles
    /\ changed \in BOOLEAN /\ refused \in BOOLEAN /\ changes \in 0 .. MaxChanges

\* A wallet has what it was given, or what its step leaves of that, and has spent nothing
\* unless that is recorded, or about to be, or was not because the pass died.
Left(r) ==
    [sol |-> Gate!SolRecommended[r] - Gate!SolSpent[r],
     spyx |-> (Gate!SpyxPlan[r] * 11) \div 10 - Gate!SpyxPlan[r]]
WalletsTell ==
    /\ wallets \in [Gate!Roles -> [sol : Int, spyx : Int]]
    /\ \A r \in Gate!Roles :
          /\ wallets[r] \in {Gate!Supplied(r), Left(r)}
          /\ r \notin done \cup unrecorded \cup {stage} => wallets[r] = Gate!Supplied(r)

\* The buffer holds part of elf, or nothing.
PartOf(elf) == \A i \in DOMAIN buffer.payload : buffer.payload[i] \in {Gate!ExpectedByte(elf, i), 0}

\* What the table has found stays true until the deploy ends, unless the binary is rebuilt.
FoundByTable ==
    ~changed /\ stage \in {"go", "writing"} =>
        /\ local = rehearsed
        /\ PartOf(local)
        /\ stage = "go" => sol >= Gate!DeployCost(local)
        /\ stage = "writing" => image = local

GateInv == GateTyped /\ WalletsTell /\ FoundByTable /\ Gate!DeployedIsLocal

LEMMA MaxLenTypes ==
  ASSUME OpsAssumption, NEW elf \in Bytes
  PROVE  Len(elf) \in Nat /\ Gate!MaxLen(elf) \in Nat
<1>1. Len(elf) \in Nat /\ Block \in Nat \ {0}
  BY DEF Bytes, OpsAssumption
<1>2. Len(elf) \div Block \in Nat
  BY <1>1
<1> QED BY <1>1, <1>2 DEF Gate!MaxLen

LEMMA BinaryTypes ==
  ASSUME OpsAssumption, GateTyped
  PROVE  /\ local \in Bytes /\ rehearsed \in Bytes /\ buffer.payload \in Bytes /\ Len(buffer.payload) \in Nat
         /\ Gate!MaxLen(local) \in Nat /\ Gate!MaxLen(image) \in Nat /\ Len(local) \in Nat /\ Len(image) \in Nat
         /\ Gate!DeployCost(local) \in Nat /\ Gate!Remaining \in Int /\ Gate!Remaining <= Gate!DeployCost(local)
<1>1. /\ local \in Bytes /\ rehearsed \in Bytes /\ buffer.payload \in Bytes /\ image \in Bytes
      /\ buffer.payload \in Seq(Nat)
  <2>1. buffer.payload \in Bytes
    BY DEF GateTyped, Buffers
  <2> QED BY <2>1 DEF GateTyped, OpsAssumption, Bytes
<1>2. /\ Len(buffer.payload) \in Nat
      /\ Gate!MaxLen(local) \in Nat /\ Gate!MaxLen(image) \in Nat /\ Len(local) \in Nat /\ Len(image) \in Nat
  BY <1>1, MaxLenTypes
<1>3. /\ Gate!DeployCost(local) \in Nat /\ Gate!Remaining \in Int /\ Gate!Remaining <= Gate!DeployCost(local)
  <2>1. CASE buffer = Gate!Nothing
    BY <1>2, <2>1, SMTT(30) DEF Gate!DeployCost, Gate!Remaining, Gate!RentExempt
  <2>2. CASE buffer # Gate!Nothing
    <3> DEFINE m == Gate!MaxLen(local)
               p == Len(buffer.payload)
               l == Len(local)
    <3>1. m \in Nat /\ p \in Nat /\ l \in Nat
      BY <1>2
    <3>2. Gate!Remaining = 128 + (m + 45) + (128 + 36) + 1 + l + (-(128 + (p + 37)))
      BY <2>2 DEF Gate!Remaining, Gate!RentExempt
    <3>3. Gate!DeployCost(local) = 128 + (m + 45) + (128 + 36) + 2 + l
      BY DEF Gate!DeployCost, Gate!RentExempt
    <3> HIDE DEF m, p, l
    <3> QED BY <3>1, <3>2, <3>3
  <2> QED BY <2>1, <2>2
<1> QED BY <1>1, <1>2, <1>3

LEMMA BufferTypes ==
  /\ Gate!Nothing \in Buffers /\ DOMAIN Gate!Nothing.payload = {}
  /\ \A who \in {"deployer", "other"}, bytes \in Bytes :
        /\ [tag |-> 1, authority |-> who, payload |-> bytes] \in Buffers
        /\ [tag |-> 1, authority |-> who, payload |-> bytes].payload = bytes
<1>1. <<>> \in Bytes /\ DOMAIN <<>> = {}
  BY EmptySeq DEF Bytes
<1> QED BY <1>1 DEF Gate!Nothing, Buffers

\* What GO says of the rows the deploy depends on.
LEMMA GoMeans ==
  ASSUME NEW flags, NEW world, Gate!Verdict(flags, world) = "GO", flags.expect = "mainnet"
  PROVE  Gate!BinaryRow(flags) # "NO-GO" /\ Gate!DeployBufferRow # "NO-GO" /\ Gate!FundDeployerRow(flags) # "NO-GO"
<1> DEFINE rows == Gate!Rows(flags, world)
<1>1. \A id \in DOMAIN rows : rows[id] # "NO-GO"
  BY DEF Gate!Verdict
<1>2. Gate!ClassifyCluster(world.endpoint) # "unknown"
  <2>1. SUFFICES ASSUME Gate!ClassifyCluster(world.endpoint) = "unknown" PROVE FALSE
    OBVIOUS
  <2>2. rows = [rpc |-> Gate!RpcRow(flags, world)]
    BY <2>1 DEF Gate!Rows
  <2>3. Gate!RpcRow(flags, world) = "NO-GO"
    BY <2>1 DEF Gate!RpcRow, Gate!RowStatus
  <2> QED BY <1>1, <2>2, <2>3
<1>3. /\ "binary" \in DOMAIN rows /\ "deployBuffer" \in DOMAIN rows /\ "deployer" \in DOMAIN rows
      /\ rows["binary"] = Gate!BinaryRow(flags) /\ rows["deployBuffer"] = Gate!DeployBufferRow
      /\ rows["deployer"] = Gate!FundDeployerRow(flags)
  BY <1>2 DEF Gate!Rows
<1> HIDE DEF rows
<1> QED BY <1>1, <1>3

LEMMA WalletFacts ==
  \A r \in Gate!Roles :
     /\ Gate!Supplied(r) \in [sol : Int, spyx : Int] /\ Left(r) \in [sol : Int, spyx : Int]
     /\ Gate!Supplied(r).spyx >= Gate!SpyxPlan[r] /\ ~(Left(r).spyx >= Gate!SpyxPlan[r])
     /\ Left(r).sol >= 0 /\ Left(r).spyx >= 0 /\ (r # "creator" => Left(r).sol >= Gate!SolSpent[r])
     /\ Gate!Supplied(r).sol >= Gate!SolSpent[r] /\ Gate!SolSpent[r] \in Nat /\ Gate!SpyxPlan[r] \in Nat
     /\ Left(r) = [sol |-> Gate!Supplied(r).sol - Gate!SolSpent[r], spyx |-> Gate!Supplied(r).spyx - Gate!SpyxPlan[r]]
     /\ r \notin {"idle", "go", "writing", "verify", "deployed"}
BY DEF Gate!Roles, Gate!Supplied, Left, Gate!SolRecommended, Gate!SolSpent, Gate!SpyxPlan

\* Nothing is spent or recorded.
LEMMA WalletsStay ==
  ASSUME WalletsTell, UNCHANGED <<wallets, done, unrecorded>>, stage' = stage \/ stage \notin Gate!Roles
  PROVE  WalletsTell'
BY WalletFacts DEF WalletsTell

LEMMA GateInit == OpsAssumption /\ Gate!Init => GateInv
<1> SUFFICES ASSUME OpsAssumption, Gate!Init PROVE GateInv
  OBVIOUS
<1>1. GateTyped
  <2>1. <<>> \in Bytes
    BY DEF Bytes
  <2>2. local \in Binaries /\ local \in Bytes
    BY DEF Gate!Init, OpsAssumption, Bytes
  <2>3. buffer \in Buffers
    BY <2>2, BufferTypes DEF Gate!Init
  <2>4. 0 \in 0 .. MaxChanges /\ Deposits \subseteq Int
    BY DEF OpsAssumption
  <2> QED BY <2>1, <2>2, <2>3, <2>4 DEF GateTyped, Gate!Init
<1>2. WalletsTell
  BY WalletFacts DEF Gate!Init, WalletsTell
<1>3. FoundByTable /\ Gate!DeployedIsLocal
  BY DEF Gate!Init, FoundByTable, Gate!DeployedIsLocal
<1> QED BY <1>1, <1>2, <1>3 DEF GateInv

LEMMA GateGuarded == OpsAssumption /\ GateInv => Gate!Guarded /\ Gate!TypeOK
<1> SUFFICES ASSUME OpsAssumption, GateInv PROVE Gate!Guarded /\ Gate!TypeOK
  OBVIOUS
<1>1. Gate!DeployIsPaid
  BY BinaryTypes DEF GateInv, GateTyped, FoundByTable, Gate!DeployIsPaid
<1>2. Gate!WalletsNeverBlock
  <2>1. SUFFICES ASSUME NEW r \in Gate!Roles \ (unrecorded \cup {stage}) PROVE Gate!WalletRow(r) # "NO-GO"
    BY DEF Gate!WalletsNeverBlock
  <2> DEFINE finished == r = "creator" /\ r \in done
             solNeeded == IF finished THEN 0 ELSE Gate!SolSpent[r]
             spyxNeeded == IF r \in done THEN 0 ELSE Gate!SpyxPlan[r]
  <2>2. wallets[r].sol >= solNeeded /\ wallets[r].spyx >= spyxNeeded
    <3>1. r \in Gate!Roles /\ wallets[r] \in {Gate!Supplied(r), Left(r)}
          /\ (r \notin done => wallets[r] = Gate!Supplied(r))
      BY <2>1 DEF GateInv, WalletsTell
    <3>2. CASE r \notin done
      BY <3>1, <3>2, WalletFacts
    <3>3. CASE r \in done /\ wallets[r] = Left(r)
      BY <3>1, <3>3, WalletFacts
    <3>4. CASE r \in done /\ wallets[r] = Gate!Supplied(r)
      <4>1. /\ Gate!Supplied(r).sol >= Gate!SolSpent[r] /\ Gate!Supplied(r).spyx >= Gate!SpyxPlan[r]
            /\ Gate!SolSpent[r] \in Nat /\ Gate!SpyxPlan[r] \in Nat /\ Gate!Supplied(r) \in [sol : Int, spyx : Int]
        BY <3>1, WalletFacts
      <4> QED BY <3>4, <4>1
    <3> QED BY <3>1, <3>2, <3>3, <3>4
  <2>3. Gate!WalletRow(r) = Gate!RowStatus(TRUE, (~finished /\ wallets[r].sol < Gate!SolRecommended[r])
                                                 \/ wallets[r].spyx * 100 < spyxNeeded * 110)
    BY <2>2 DEF Gate!WalletRow
  <2> QED BY <2>3 DEF Gate!RowStatus
<1>3. Gate!TypeOK
  BY DEF GateInv, GateTyped, Gate!TypeOK, Buffers
<1> QED BY <1>1, <1>2, <1>3 DEF GateInv, Gate!Guarded

LEMMA GateNext == OpsAssumption /\ GateInv /\ Gate!Next => GateInv'
<1> SUFFICES ASSUME OpsAssumption, GateInv, Gate!Next PROVE GateInv'
  OBVIOUS
<1>0. GateTyped /\ WalletsTell /\ FoundByTable /\ Gate!DeployedIsLocal
  BY DEF GateInv
<1>1. CASE Gate!Rebuild
  <2>1. GateTyped'
    BY <1>0, <1>1 DEF GateTyped, Gate!Rebuild, Gate!Change, Gate!purse
  <2>2. WalletsTell'
    BY <1>0, <1>1, WalletsStay DEF Gate!Rebuild, Gate!purse
  <2>3. FoundByTable' /\ Gate!DeployedIsLocal'
    BY <1>1 DEF FoundByTable, Gate!DeployedIsLocal, Gate!Rebuild
  <2> QED BY <2>1, <2>2, <2>3 DEF GateInv
<1>2. CASE Gate!Interrupted
  <2>1. GateTyped'
    BY <1>0, <1>2 DEF GateTyped, Gate!Interrupted, Gate!Change, Gate!binaries
  <2>2. WalletsTell'
    BY <1>0, <1>2 DEF WalletsTell, Gate!Interrupted
  <2>3. FoundByTable' /\ Gate!DeployedIsLocal'
    BY <1>2 DEF FoundByTable, Gate!DeployedIsLocal, Gate!Interrupted
  <2> QED BY <2>1, <2>2, <2>3 DEF GateInv
<1>3. CASE Gate!CloseBuffers
  <2>0. sol' \in Int
    BY <1>0, <1>3, BinaryTypes DEF Gate!CloseBuffers, GateTyped, Gate!RentExempt
  <2>1. GateTyped'
    BY <1>0, <1>3, <2>0, BufferTypes DEF GateTyped, Gate!CloseBuffers, Gate!binaries
  <2>2. WalletsTell'
    BY <1>0, <1>3, WalletsStay DEF Gate!CloseBuffers
  <2>3. FoundByTable' /\ Gate!DeployedIsLocal'
    BY <1>3 DEF FoundByTable, Gate!DeployedIsLocal, Gate!CloseBuffers
  <2> QED BY <2>1, <2>2, <2>3 DEF GateInv
<1>4. CASE Gate!TopUp
  <2>0. sol' \in Int
    BY <1>0, <1>4, BinaryTypes DEF Gate!TopUp
  <2>1. GateTyped'
    BY <1>0, <1>4, <2>0 DEF GateTyped, Gate!TopUp, Gate!binaries, Gate!runVars
  <2>2. WalletsTell'
    BY <1>0, <1>4, WalletsStay DEF Gate!TopUp, Gate!runVars
  <2>3. FoundByTable' /\ Gate!DeployedIsLocal'
    BY <1>4 DEF FoundByTable, Gate!DeployedIsLocal, Gate!TopUp, Gate!runVars
  <2> QED BY <2>1, <2>2, <2>3 DEF GateInv
<1>5. CASE Gate!Rehearse
  <2>1. GateTyped'
    BY <1>0, <1>5 DEF GateTyped, Gate!Rehearse, Gate!purse, Gate!runVars
  <2>2. WalletsTell'
    BY <1>0, <1>5, WalletsStay DEF Gate!Rehearse, Gate!purse, Gate!runVars
  <2>3. FoundByTable' /\ Gate!DeployedIsLocal'
    BY <1>5 DEF FoundByTable, Gate!DeployedIsLocal, Gate!Rehearse, Gate!runVars
  <2> QED BY <2>1, <2>2, <2>3 DEF GateInv
<1>6. CASE \E flags \in Gate!Flags, world \in Gate!Worlds : Gate!RunPreflight(flags, world)
  <2>1. PICK flags \in Gate!Flags, world \in Gate!Worlds : Gate!RunPreflight(flags, world)
    BY <1>6
  <2>2. GateTyped'
    BY <1>0, <2>1 DEF GateTyped, Gate!RunPreflight, Gate!binaries, Gate!purse
  <2>3. WalletsTell'
    <3>1. stage \notin Gate!Roles
      BY <2>1, WalletFacts DEF Gate!RunPreflight
    <3> QED BY <1>0, <2>1, <3>1, WalletsStay DEF Gate!RunPreflight, Gate!purse
  <2>4. FoundByTable'
    <3>1. SUFFICES ASSUME ~changed', stage' \in {"go", "writing"} PROVE FoundByTable'
      BY DEF FoundByTable
    <3>2. /\ stage' = "go" /\ flags.sha = <<>> /\ flags.expect = "mainnet" /\ Gate!Verdict(flags, world) = "GO"
          /\ UNCHANGED <<local, rehearsed, buffer, sol>>
      BY <2>1, <3>1 DEF Gate!RunPreflight, Gate!binaries, Gate!purse
    <3>3. Gate!BinaryRow(flags) # "NO-GO" /\ Gate!DeployBufferRow # "NO-GO" /\ Gate!FundDeployerRow(flags) # "NO-GO"
      BY <3>2, GoMeans
    <3>4. local = rehearsed
      BY <3>2, <3>3 DEF Gate!BinaryRow, Gate!RowStatus
    <3>5. PartOf(local)
      <4>1. CASE buffer = Gate!Nothing
        BY <4>1, BufferTypes DEF PartOf
      <4>2. CASE buffer # Gate!Nothing
        BY <3>3, <4>2 DEF Gate!DeployBufferRow, Gate!RowStatus, Gate!InspectDeployBuffer, PartOf
      <4> QED BY <4>1, <4>2
    <3>6. sol >= Gate!DeployCost(local)
      BY <3>3 DEF Gate!FundDeployerRow, Gate!RowStatus
    <3> QED BY <3>2, <3>4, <3>5, <3>6 DEF FoundByTable, PartOf, Gate!DeployCost, Gate!MaxLen
  <2>5. Gate!DeployedIsLocal'
    BY <2>1 DEF Gate!DeployedIsLocal, Gate!RunPreflight
  <2> QED BY <2>2, <2>3, <2>4, <2>5 DEF GateInv
<1>7. CASE Gate!DeployBegins
  <2>0. /\ Gate!MaxLen(local) \in Nat /\ local \in Bytes /\ sol \in Int
        /\ UNCHANGED <<local, rehearsed, program, wallets, done, unrecorded, changed, changes>>
        /\ stage = "go" /\ stage' \in {"deployed", "writing", "idle"} /\ refused' = FALSE
        /\ image' = IF stage' = "writing" THEN local ELSE image
    BY <1>0, <1>7, BinaryTypes DEF Gate!DeployBegins, Gate!binaries, GateTyped
  <2> DEFINE zeros == [i \in 1 .. Gate!MaxLen(local) |-> 0]
  <2>1. \/ UNCHANGED <<buffer, sol>>
        \/ /\ buffer' = [tag |-> 1, authority |-> "deployer", payload |-> zeros]
           /\ sol' = sol - Gate!RentExempt(Gate!MaxLen(local) + 37) - 1
    BY <1>7 DEF Gate!DeployBegins
  <2>s. sol' \in Int
    BY <2>0, <2>1 DEF Gate!RentExempt
  <2>2. zeros \in Bytes /\ \A i \in DOMAIN zeros : zeros[i] = 0
    BY <2>0 DEF Bytes
  <2> HIDE DEF zeros
  <2>3. GateTyped'
    <3>1. buffer' \in Buffers
      BY <1>0, <2>1, <2>2, BufferTypes DEF GateTyped
    <3>2. image' \in Bytes
      BY <1>0, <2>0 DEF GateTyped
    <3> QED BY <1>0, <2>0, <2>s, <3>1, <3>2 DEF GateTyped
  <2>4. WalletsTell'
    <3>1. stage \notin Gate!Roles
      BY <2>0, WalletFacts
    <3> QED BY <1>0, <2>0, <3>1, WalletsStay
  <2>5. FoundByTable'
    BY <1>0, <2>0, <2>1, <2>2 DEF FoundByTable, PartOf, Gate!ExpectedByte
  <2>6. Gate!DeployedIsLocal'
    BY <2>0 DEF Gate!DeployedIsLocal
  <2> QED BY <2>3, <2>4, <2>5, <2>6 DEF GateInv
<1>8. CASE Gate!WriteChunk
  <2>1. PICK i \in Gate!Unwritten : buffer' = [buffer EXCEPT !.payload[i] = image[i]]
    BY <1>8 DEF Gate!WriteChunk
  <2>2. /\ i \in 1 .. Len(buffer.payload) /\ image[i] \in Nat /\ i \in DOMAIN image /\ buffer.payload \in Seq(Nat)
        /\ image \in Seq(Nat)
    BY <1>0, <2>1, SMTT(30) DEF Gate!Unwritten, GateTyped, Buffers, Bytes
  <2> DEFINE payload == [buffer.payload EXCEPT ![i] = image[i]]
  <2>3. /\ payload \in Seq(Nat) /\ Len(payload) = Len(buffer.payload)
        /\ \A j \in 1 .. Len(buffer.payload) : payload[j] = IF j = i THEN image[i] ELSE buffer.payload[j]
    BY <2>2, ExceptSeq
  <2>4. buffer' = [buffer EXCEPT !.payload = payload]
    BY <2>1
  <2> HIDE DEF payload
  <2>5. buffer' \in Buffers /\ buffer'.payload = payload
    BY <1>0, <2>3, <2>4 DEF GateTyped, Buffers, Bytes
  <2>6. /\ sol' \in Int /\ stage = "writing"
        /\ UNCHANGED <<local, rehearsed, program, wallets, done, unrecorded, stage, image, changed, refused, changes>>
    BY <1>0, <1>8 DEF Gate!WriteChunk, Gate!binaries, Gate!runVars, GateTyped
  <2>7. GateTyped'
    BY <1>0, <2>5, <2>6 DEF GateTyped
  <2>8. WalletsTell'
    BY <1>0, <2>6, WalletsStay
  <2>9. FoundByTable'
    <3>1. SUFFICES ASSUME ~changed PROVE FoundByTable'
      BY <2>6 DEF FoundByTable
    <3>2. local = rehearsed /\ image = local /\ PartOf(local)
      BY <1>0, <2>6, <3>1 DEF FoundByTable
    <3>3. ASSUME NEW j \in DOMAIN buffer'.payload
          PROVE  buffer'.payload[j] \in {Gate!ExpectedByte(local, j), 0}
      <4>1. j \in 1 .. Len(buffer.payload)
        BY <2>2, <2>3, <2>5
      <4>2. CASE j = i
        BY <2>2, <2>3, <2>5, <3>2, <4>1, <4>2 DEF Gate!ExpectedByte
      <4>3. CASE j # i
        BY <2>2, <2>3, <2>5, <3>2, <4>1, <4>3 DEF PartOf
      <4> QED BY <4>2, <4>3
    <3> QED BY <2>6, <3>2, <3>3 DEF FoundByTable, PartOf, Gate!ExpectedByte
  <2>10. Gate!DeployedIsLocal'
    BY <2>6 DEF Gate!DeployedIsLocal
  <2> QED BY <2>7, <2>8, <2>9, <2>10 DEF GateInv
<1>9. CASE Gate!DeployFinishes
  <2> DEFINE p == buffer.payload
             k == Gate!MaxLen(image) - Len(p)
             zeros == [i \in 1 .. k |-> 0]
  <2>0. /\ stage = "writing" /\ UNCHANGED <<local, rehearsed, wallets, done, unrecorded, image, changed, changes>>
        /\ \A i \in Gate!Unwritten : p[i] # 0
    BY <1>9 DEF Gate!DeployFinishes, Gate!binaries
  <2>w. WalletsTell'
    <3>1. stage \notin Gate!Roles
      BY <2>0, WalletFacts
    <3> QED BY <1>0, <2>0, <3>1, WalletsStay
  <2>1. CASE stage' = "idle" /\ refused' = TRUE /\ UNCHANGED <<program, buffer, sol>>
    <3>1. GateTyped'
      BY <1>0, <2>0, <2>1 DEF GateTyped
    <3>2. FoundByTable' /\ Gate!DeployedIsLocal'
      BY <2>1 DEF FoundByTable, Gate!DeployedIsLocal
    <3> QED BY <2>w, <3>1, <3>2 DEF GateInv
  <2>2. CASE /\ Len(p) \in Len(image) .. Gate!MaxLen(image) /\ program' = p \o zeros
             /\ buffer' = Gate!Nothing /\ stage' = "verify" /\ UNCHANGED refused /\ sol' \in Int
    <3>1. p \in Bytes /\ image \in Bytes /\ Len(p) \in Nat /\ Len(image) \in Nat /\ k \in Nat /\ Len(image) <= Len(p)
          /\ DOMAIN p = 1 .. Len(p) /\ DOMAIN image = 1 .. Len(image) /\ local \in Bytes /\ DOMAIN local = 1 .. Len(local)
      BY <1>0, <2>2, BinaryTypes DEF GateTyped, Bytes
    <3>2. zeros \in Bytes /\ Len(zeros) = k /\ \A i \in 1 .. k : zeros[i] = 0
      BY <3>1 DEF Bytes
    <3> HIDE DEF zeros, p, k
    <3>3. /\ program' \in Bytes /\ Len(program') = Len(p) + k
          /\ \A i \in 1 .. Len(p) + k : program'[i] = IF i <= Len(p) THEN p[i] ELSE zeros[i - Len(p)]
      BY <2>2, <3>1, <3>2, ConcatProperties DEF Bytes
    <3>4. GateTyped'
      BY <1>0, <2>0, <2>2, <3>3, BufferTypes DEF GateTyped
    <3>6. FoundByTable'
      BY <2>2 DEF FoundByTable
    <3>7. Gate!DeployedIsLocal'
      <4>1. SUFFICES ASSUME ~changed PROVE Gate!DeployedIsLocal'
        BY <2>0 DEF Gate!DeployedIsLocal
      <4>2. local = rehearsed /\ image = local /\ PartOf(local)
        BY <1>0, <2>0, <4>1 DEF FoundByTable
      <4>3. ASSUME NEW i \in 1 .. Len(p) PROVE p[i] = IF i <= Len(image) THEN image[i] ELSE 0
        <5>1. p[i] \in {Gate!ExpectedByte(local, i), 0}
          BY <3>1, <4>2 DEF PartOf, p
        <5>2. CASE i <= Len(image)
          <6>1. i \notin Gate!Unwritten => p[i] = image[i]
            BY <3>1, <5>2 DEF Gate!Unwritten, p
          <6> QED BY <2>0, <4>2, <5>1, <5>2, <6>1 DEF Gate!ExpectedByte, p
        <5>3. CASE i > Len(image)
          BY <3>1, <4>2, <5>1, <5>3 DEF Gate!ExpectedByte
        <5> QED BY <3>1, <5>2, <5>3
      <4> DEFINE n == Len(program') - Len(image)
                 tail == [i \in 1 .. n |-> 0]
      <4>4. n \in Nat
        BY <3>1, <3>3
      <4>5. tail \in Bytes /\ Len(tail) = n /\ \A i \in 1 .. n : tail[i] = 0
        BY <4>4 DEF Bytes
      <4> HIDE DEF n, tail
      <4>6. /\ image \o tail \in Bytes /\ Len(image \o tail) = Len(image) + n
            /\ \A i \in 1 .. Len(image) + n : (image \o tail)[i] = IF i <= Len(image) THEN image[i] ELSE tail[i - Len(image)]
        BY <3>1, <4>5, ConcatProperties, ZenonT(30) DEF Bytes
      <4>7. Len(image \o tail) = Len(program') /\ Len(program') \in Nat
        BY <3>1, <3>3, <4>6 DEF n
      <4>8. ASSUME NEW i \in 1 .. Len(program') PROVE program'[i] = (image \o tail)[i]
        <5>1. (image \o tail)[i] = IF i <= Len(image) THEN image[i] ELSE 0
          <6>1. i \in 1 .. Len(image) + n
            BY <4>6, <4>7
          <6>2. i > Len(image) => i - Len(image) \in 1 .. n
            BY <3>1, <4>4, <6>1
          <6> QED BY <3>1, <4>5, <4>6, <6>1, <6>2
        <5>2. program'[i] = IF i <= Len(image) THEN image[i] ELSE 0
          <6>1. CASE i <= Len(p)
            BY <3>1, <3>3, <4>3, <6>1
          <6>2. CASE i > Len(p)
            <7>1. i - Len(p) \in 1 .. k /\ ~(i <= Len(image))
              BY <3>1, <3>3, <6>2
            <7> QED BY <3>1, <3>2, <3>3, <6>2, <7>1
          <6> QED BY <3>1, <6>1, <6>2
        <5> QED BY <5>1, <5>2
      <4>9. program' = image \o tail
        BY <3>3, <4>6, <4>7, <4>8, SeqEqual DEF Bytes
      <4> QED BY <2>0, <4>2, <4>9 DEF Gate!DeployedIsLocal, tail, n
    <3> QED BY <2>w, <3>4, <3>6, <3>7 DEF GateInv
  <2>3. sol + Gate!RentExempt(Len(p) + 37) - Gate!RentExempt(Gate!MaxLen(image) + 45) - Gate!RentExempt(36) - 1 \in Int
    <3>1. \A a, b \in Nat : sol + (128 + (a + 37)) - (128 + (b + 45)) - (128 + 36) - 1 \in Int
      BY <1>0 DEF GateTyped
    <3>2. Len(p) \in Nat /\ Gate!MaxLen(image) \in Nat
      BY <1>0, BinaryTypes
    <3> HIDE DEF p
    <3> QED BY <3>1, <3>2, ZenonT(30) DEF Gate!RentExempt
  <2> QED BY <1>9, <2>1, <2>2, <2>3 DEF Gate!DeployFinishes
<1>10. CASE Gate!Verify
  <2>1. GateTyped'
    BY <1>0, <1>10 DEF GateTyped, Gate!Verify, Gate!purse, Gate!binaries
  <2>2. WalletsTell'
    <3>1. stage \notin Gate!Roles
      BY <1>10, WalletFacts DEF Gate!Verify
    <3> QED BY <1>0, <1>10, <3>1, WalletsStay DEF Gate!Verify, Gate!purse
  <2>3. FoundByTable' /\ Gate!DeployedIsLocal'
    BY <1>10 DEF FoundByTable, Gate!DeployedIsLocal, Gate!Verify
  <2> QED BY <2>1, <2>2, <2>3 DEF GateInv
<1>11. ASSUME NEW r \in Gate!Roles, Gate!Spend(r) PROVE GateInv'
  <2>1. /\ stage = "deployed" /\ r \notin done /\ wallets[r].spyx >= Gate!SpyxPlan[r] /\ stage' = r
        /\ wallets' = [wallets EXCEPT ![r] = [sol |-> wallets[r].sol - Gate!SolSpent[r],
                                             spyx |-> wallets[r].spyx - Gate!SpyxPlan[r]]]
        /\ UNCHANGED <<local, rehearsed, buffer, program, sol, done, unrecorded, image, changed, refused, changes>>
    BY <1>11 DEF Gate!Spend, Gate!binaries
  <2>2. GateTyped'
    BY <1>0, <2>1 DEF GateTyped
  <2>3. WalletsTell'
    <3>1. wallets[r] = Gate!Supplied(r)
      BY <1>0, <2>1, WalletFacts DEF WalletsTell
    <3>2. wallets' = [wallets EXCEPT ![r] = Left(r)]
      BY <2>1, <3>1, WalletFacts
    <3>3. stage \notin Gate!Roles
      BY <2>1, WalletFacts
    <3>4. wallets' \in [Gate!Roles -> [sol : Int, spyx : Int]] /\ wallets'[r] = Left(r)
          /\ \A q \in Gate!Roles \ {r} : wallets'[q] = wallets[q]
      BY <1>0, <3>2, WalletFacts DEF WalletsTell
    <3> HIDE DEF Left
    <3> QED BY <1>0, <2>1, <3>3, <3>4 DEF WalletsTell
  <2>4. FoundByTable' /\ Gate!DeployedIsLocal'
    <3>1. r \notin {"go", "writing", "verify"}
      BY WalletFacts
    <3> QED BY <2>1, <3>1 DEF FoundByTable, Gate!DeployedIsLocal
  <2> QED BY <2>2, <2>3, <2>4 DEF GateInv
<1>12. CASE Gate!RecordStep
  <2>1. /\ stage \in Gate!Roles /\ done' = done \cup {stage} /\ unrecorded' = unrecorded \ {stage} /\ stage' = "deployed"
        /\ UNCHANGED <<local, rehearsed, buffer, program, sol, wallets, image, changed, refused, changes>>
    BY <1>12 DEF Gate!RecordStep, Gate!binaries
  <2>2. GateTyped'
    BY <1>0, <2>1 DEF GateTyped
  <2>3. WalletsTell'
    BY <1>0, <2>1 DEF WalletsTell
  <2>4. FoundByTable' /\ Gate!DeployedIsLocal'
    BY <2>1 DEF FoundByTable, Gate!DeployedIsLocal
  <2> QED BY <2>2, <2>3, <2>4 DEF GateInv
<1>13. CASE Gate!LaunchResumed
  <2>1. /\ stage = "deployed" /\ stage' = "creator"
        /\ UNCHANGED <<local, rehearsed, buffer, program, sol, wallets, done, unrecorded, image, changed, refused, changes>>
    BY <1>13 DEF Gate!LaunchResumed, Gate!binaries, Gate!purse
  <2>2. GateTyped'
    BY <1>0, <2>1 DEF GateTyped, Gate!Roles
  <2>3. WalletsTell'
    BY <1>0, <2>1, WalletFacts, WalletsStay
  <2>4. FoundByTable' /\ Gate!DeployedIsLocal'
    BY <2>1 DEF FoundByTable, Gate!DeployedIsLocal
  <2> QED BY <2>2, <2>3, <2>4 DEF GateInv
<1>14. ASSUME NEW r \in Gate!Roles, Gate!TopUpWallet(r) PROVE GateInv'
  <2>1. /\ stage = "idle" /\ wallets' = [wallets EXCEPT ![r] = Gate!Supplied(r)]
        /\ UNCHANGED <<local, rehearsed, buffer, program, sol, done, unrecorded, stage, image, changed, refused, changes>>
    BY <1>14 DEF Gate!TopUpWallet, Gate!binaries, Gate!runVars
  <2>2. GateTyped'
    BY <1>0, <2>1 DEF GateTyped
  <2>3. WalletsTell'
    <3>1. wallets' \in [Gate!Roles -> [sol : Int, spyx : Int]] /\ wallets'[r] = Gate!Supplied(r)
          /\ \A q \in Gate!Roles \ {r} : wallets'[q] = wallets[q]
      BY <1>0, <2>1, WalletFacts DEF WalletsTell
    <3> QED BY <1>0, <2>1, <3>1 DEF WalletsTell
  <2>4. FoundByTable' /\ Gate!DeployedIsLocal'
    BY <2>1 DEF FoundByTable, Gate!DeployedIsLocal
  <2> QED BY <2>2, <2>3, <2>4 DEF GateInv
<1>15. CASE \E r \in Gate!Roles : Gate!TopUpWallet(r) \/ Gate!Again(r)
  BY <1>11, <1>14, <1>15 DEF Gate!Again
<1>16. CASE Gate!Goes
  BY <1>7, <1>8, <1>9, <1>10, <1>11, <1>12, <1>13, <1>16 DEF Gate!Goes
<1> QED BY <1>1, <1>2, <1>3, <1>4, <1>5, <1>6, <1>15, <1>16 DEF Gate!Next

-----------------------------------------------------------------------------
(* The scripts together.                                                   *)

LEMMA DemoGuarded == DemoInv => Demo!RunsGuarded /\ Demo!TypeOK
<1> SUFFICES ASSUME DemoInv PROVE Demo!RunsGuarded /\ Demo!TypeOK
  OBVIOUS
<1>1. Demo!OneRunPerMarker
  BY DEF DemoInv, MarkersApart
<1>2. Demo!DryStaysLocal
  BY DEF DemoInv, MarkersApart, Demo!DryStaysLocal
<1>3. Demo!TypeOK
  <2>1. DOMAIN Demo!Needs = Buyers /\ DOMAIN clusters = Demo!Clusters
    BY DEF DemoInv, DemoTyped, Demo!Needs, Buyers
  <2>2. ASSUME NEW c \in Demo!Clusters
        PROVE  /\ clusters[c].sol \in Nat /\ clusters[c].program \in {"absent", "buffer", "match"}
               /\ \A w \in Buyers : clusters[c].spyx[w] \in Nat
    <3>1. clusters[c] \in Ledgers
      BY DEF DemoInv, DemoTyped
    <3> QED BY <3>1 DEF Ledgers
  <2>3. pass.pc \in {"idle", "preflight", "step", "prompt", "send"} /\ pass.run \in 0 .. Len(runs)
    BY DEF DemoInv, DemoTyped, Passes
  <2> QED BY <2>1, <2>2, <2>3 DEF DemoInv, DemoTyped, Demo!TypeOK
<1> QED BY <1>1, <1>2, <1>3 DEF DemoInv, Demo!RunsGuarded

\* A script that is not exercised stays as it was.
LEMMA DemoStays == DemoInv /\ UNCHANGED demoVars => DemoInv'
<1> SUFFICES ASSUME DemoInv, UNCHANGED demoVars PROVE DemoInv'
  OBVIOUS
<1>1. UNCHANGED <<clusters, marker, runs, pass, price, spent, faults>>
  BY DEF demoVars
<1> QED BY <1>1 DEF DemoInv, DemoTyped, PassOK, RightCluster, MarkersApart, Demo!OneRunPerMarker, RentOnce, Demo!SentOnce, Passes,
                  Demo!Run, Demo!Here, Demo!Step

LEMMA GateStays == GateInv /\ UNCHANGED gateVars => GateInv'
<1> SUFFICES ASSUME GateInv, UNCHANGED gateVars PROVE GateInv'
  OBVIOUS
<1>1. UNCHANGED <<local, rehearsed, buffer, program, sol, wallets, done, unrecorded, stage, image, changed, refused, changes>>
  BY DEF gateVars
<1> QED BY <1>1 DEF GateInv, GateTyped, WalletsTell, FoundByTable, PartOf, Gate!DeployedIsLocal, Gate!DeployCost,
                  Gate!MaxLen

-----------------------------------------------------------------------------
(* FundRun: what a run under way has found missing is still missing, until *)
(* it is sent; the bag and what was given add up to at most the targets    *)
(* and the excess of one swap; the state file and the balances together    *)
(* tell which swaps landed.  A step taken on a stale reading needs only    *)
(* its types: nothing is promised after it.                                *)

FundRecords == [Funding!Stages -> [status : {"none", "pending", "done", "failed"}, before : Nat]]

FundRuns ==
    [pc : {"off", "done", "sol", "sendSol", "openBag", "need", "main", "swap", "quote", "execute", "receipt",
           "give", "give2", "open", "sendSpyx"},
     w : 1 .. N + 1, needed : Nat, amount : Nat, stage : Funding!Stages, before : Nat,
     quote : [in : Nat, out : Nat, min : Nat]]

\* A wallet is served only while there is one left, and gets SPYx only if it is a holder.
AtWallet ==
    /\ run.pc = "sendSol" => run.w \in Funding!Wallets
    /\ run.pc \in {"open", "give2", "sendSpyx"} => run.w \in Holders

FundTyped == Funding!TypeOK /\ AtWallet

\* What the run has paid in fees.
Fees == TxFee * paid

\* What a run under way counts on when it sends SOL and rent, and what it leaves.
SolPlan ==
    /\ run.pc = "sendSol" => run.amount = SolTarget - chain.sol[run.w]
    /\ run.pc \in {"sol", "sendSol", "openBag"} =>
          chain.purse + Fees >= MinDeployer + Funding!SolShort(chain) + (IF chain.bagOpen THEN 0 ELSE AtaRent)
    /\ run.pc = "openBag" => ~chain.bagOpen
    /\ run.pc = "execute" => chain.purse - run.quote.in >= MinDeployer
    /\ run.pc = "open" => run.w \notin chain.ata

\* The SPYx of the wallets, and what they should have.
Given == Sum(chain.spyx, Funding!Wallets)
Targets == [w \in Funding!Wallets |-> Funding!Target(w)]
Wanted == Sum(Targets, Funding!Wallets)
More == IF Slack > TestSize - 1 THEN Slack ELSE TestSize - 1

Swapping == {"swap", "quote", "execute", "receipt"}
Buying == {"sol", "sendSol", "openBag", "need", "main"} \cup Swapping
Giving == {"give", "open", "give2", "sendSpyx"}

\* What the run remembers of the shortfall stays true until it hands SPYx out; a swap is
\* for something that is missing, and its receipt is right.
RunSpyx ==
    /\ run.pc \in {"open", "give2", "sendSpyx"} => chain.spyx[run.w] + run.amount <= SpyxTarget
    /\ run.pc \in Buying => run.needed + Given = Wanted
    /\ run.pc \in {"swap", "quote", "execute"} =>
          IF run.stage = "test" THEN chain.bag < run.needed ELSE chain.bag + run.amount = run.needed
    /\ run.pc \in {"quote", "execute"} => run.before = chain.bag
    /\ run.pc = "execute" =>
          /\ run.quote.min > 0
          /\ run.quote.out <= IF run.stage = "test" THEN TestSize ELSE run.amount + Slack
    /\ run.pc = "receipt" => chain.bag - run.before \in run.quote.min .. run.quote.out

NotOver == chain.bag + Given <= Wanted + More

\* The main swap has something to buy.
MainBuys == run.pc \in {"swap", "quote", "execute"} /\ run.stage = "main" => run.amount > 0

\* No wallet has more than its target.
NoneOver == \A w \in Funding!Wallets : chain.sol[w] <= SolTarget /\ chain.spyx[w] <= Funding!Target(w)

Kept == \/ chain.purse >= MinDeployer - AtaRent * Cardinality(chain.ata) - Fees
        \/ prev = chain /\ run = Funding!Off

\* The state file: what it says of a swap is so, or the balances tell; the main swap
\* comes after the test swap is recorded; a test swap that landed is on record or has
\* left nothing to buy.
RecordsSo ==
    /\ \A s \in Funding!Stages :
          /\ file[s].status = "done" => landed[s] >= 1
          /\ file[s].status = "pending" /\ chain.bag > file[s].before => landed[s] >= 1
    /\ file["main"].status # "none" => file["test"].status = "done"
    /\ landed["test"] <= 1
    /\ landed["test"] >= 1 => \/ file["test"].status = "done"
                              \/ file["test"].status = "pending" /\ chain.bag > file["test"].before
                              \/ chain.bag + Given >= Wanted

\* The run knows of it.
RunTells ==
    /\ run.pc = "main" \/ (run.pc \in Swapping /\ run.stage = "main") => file["test"].status = "done"
    /\ run.pc \in Swapping /\ run.stage = "test" => file["test"].status # "done"
    /\ run.pc \in {"quote", "execute"} /\ run.stage = "test" => landed["test"] = 0
    /\ run.pc = "execute" => file[run.stage] = [status |-> "pending", before |-> run.before]
    /\ run.pc = "receipt" => file[run.stage].status = "pending" /\ landed[run.stage] >= 1
    /\ run.pc \in Giving => file["test"].status = "done" \/ chain.bag + Given >= Wanted

RunPlan == SolPlan /\ RunSpyx /\ MainBuys
SpendPlan == NoneOver /\ NotOver /\ Kept /\ RunPlan

FundInv ==
    /\ FundTyped
    /\ ~misled => SpendPlan
    /\ ~misled /\ ~lost => RecordsSo /\ RunTells

LEMMA FundConstants ==
         /\ N \in Nat /\ SolTarget \in Nat /\ SpyxTarget \in Nat /\ MinDeployer \in Nat /\ AtaRent \in Nat
         /\ TxFee \in Nat /\ FeeBuffer \in Nat /\ TestSize \in Nat /\ Slack \in Nat /\ Premium \in Nat /\ Margin \in Nat
         /\ Slack < TestSize /\ MaxFaults \in Nat
         /\ Holders \subseteq Funding!Wallets /\ IsFiniteSet(Funding!Wallets) /\ IsFiniteSet(Holders)
         /\ Funding!Wallets \subseteq 1 .. N + 1 /\ \A w \in Funding!Wallets : w + 1 \in 1 .. N + 1
         /\ \A w \in Funding!Wallets : Funding!Target(w) \in Nat
         /\ \A w \in Holders : Funding!Target(w) = SpyxTarget
<1>1. /\ N \in Nat /\ SolTarget \in Nat /\ SpyxTarget \in Nat /\ MinDeployer \in Nat /\ AtaRent \in Nat
      /\ TxFee \in Nat /\ FeeBuffer \in Nat /\ TestSize \in Nat /\ Slack \in Nat /\ Premium \in Nat /\ Margin \in Nat
      /\ Slack < TestSize /\ MaxFaults \in Nat /\ Holders \subseteq Funding!Wallets
  BY FundAssumption DEF Funding!Wallets
<1>2. IsFiniteSet(Funding!Wallets)
  BY <1>1, FS_Interval DEF Funding!Wallets
<1>3. IsFiniteSet(Holders)
  BY <1>1, <1>2, FS_Subset
<1>4. /\ Funding!Wallets \subseteq 1 .. N + 1 /\ \A w \in Funding!Wallets : w + 1 \in 1 .. N + 1
      /\ \A w \in Funding!Wallets : Funding!Target(w) \in Nat
      /\ \A w \in Holders : Funding!Target(w) = SpyxTarget
  BY <1>1 DEF Funding!Wallets, Funding!Target
<1> QED BY <1>1, <1>2, <1>3, <1>4

LEMMA FundFields ==
  ASSUME FundTyped
  PROVE  /\ run \in FundRuns /\ run.pc \in {"off", "done", "sol", "sendSol", "openBag", "need", "main", "swap",
                "quote", "execute", "receipt", "give", "give2", "open", "sendSpyx"}
         /\ run.w \in 1 .. N + 1 /\ run.needed \in Nat /\ run.amount \in Nat /\ run.stage \in Funding!Stages
         /\ run.before \in Nat /\ run.quote.in \in Nat /\ run.quote.out \in Nat /\ run.quote.min \in Nat
         /\ chain \in Funding!Balances /\ prev \in Funding!Balances
         /\ file \in FundRecords /\ transit \in Funding!Txs /\ landed \in [Funding!Stages -> Nat]
         /\ paid \in Nat
BY DEF FundTyped, Funding!TypeOK, FundRuns, FundRecords

LEMMA FeesOfRun ==
  ASSUME FundTyped
  PROVE  /\ Fees \in Nat /\ TxFee \in Nat
         /\ paid' = paid => Fees' = Fees
         /\ paid' = 0 => Fees' = 0
         /\ paid' = paid + 1 => Fees' = Fees + TxFee
<1>1. paid \in Nat /\ TxFee \in Nat
  BY FundFields, FundConstants
<1>2. \A f \in Nat, n \in Nat : f * n \in Nat /\ f * 0 = 0 /\ f * (n + 1) = f * n + f
  OBVIOUS
<1>3. TxFee * paid \in Nat /\ TxFee * 0 = 0 /\ TxFee * (paid + 1) = TxFee * paid + TxFee
  BY <1>1, <1>2
<1> QED BY <1>1, <1>3 DEF Fees

LEMMA BalanceFields ==
  ASSUME NEW c \in Funding!Balances
  PROVE  /\ c.purse \in Nat /\ c.bag \in Nat /\ c.bagOpen \in BOOLEAN /\ c.ata \subseteq Holders
         /\ c.sol \in [Funding!Wallets -> Nat] /\ c.spyx \in [Funding!Wallets -> Nat]
BY DEF Funding!Balances

-----------------------------------------------------------------------------
(* What a transaction does to the balances.                                *)

\* Every transaction takes its cost out of the purse and does one thing more.
LEMMA Paid ==
  ASSUME FundTyped, NEW t, Funding!Valid(chain, t), NEW k \in Nat, Funding!Cost(chain, t) = TxFee + k
  PROVE  /\ [chain EXCEPT !.purse = @ - Funding!Cost(chain, t)] \in Funding!Balances
         /\ [chain EXCEPT !.purse = @ - Funding!Cost(chain, t)] = [chain EXCEPT !.purse = chain.purse - TxFee - k]
         /\ chain.purse - TxFee - k \in Nat
         /\ chain \in Funding!Balances
<1>1. chain \in Funding!Balances /\ chain.purse \in Nat /\ TxFee \in Nat
  BY FundFields, BalanceFields, FundConstants
<1>2. chain.purse >= TxFee + k
  BY DEF Funding!Valid
<1>3. chain.purse - TxFee - k \in Nat /\ chain.purse - (TxFee + k) = chain.purse - TxFee - k
  BY <1>1, <1>2
<1>4. [chain EXCEPT !.purse = @ - Funding!Cost(chain, t)] = [chain EXCEPT !.purse = chain.purse - TxFee - k]
  BY <1>3
<1> QED BY <1>1, <1>3, <1>4 DEF Funding!Balances

LEMMA SolLands ==
  ASSUME FundTyped, NEW w \in Funding!Wallets, NEW a \in Nat,
         Funding!Valid(chain, [kind |-> "sol", to |-> w, amount |-> a]),
         chain' = Funding!After(chain, [kind |-> "sol", to |-> w, amount |-> a])
  PROVE  /\ chain' \in Funding!Balances
         /\ chain'.purse = chain.purse - a - TxFee /\ chain'.sol = [chain.sol EXCEPT ![w] = chain.sol[w] + a]
         /\ chain'.spyx = chain.spyx /\ chain'.ata = chain.ata /\ chain'.bag = chain.bag
         /\ chain'.bagOpen = chain.bagOpen
<1> DEFINE t == [kind |-> "sol", to |-> w, amount |-> a]
           p == [chain EXCEPT !.purse = chain.purse - TxFee - a]
<1>1. Funding!Cost(chain, t) = TxFee + a
  BY DEF Funding!Cost
<1>2. p \in Funding!Balances /\ [chain EXCEPT !.purse = @ - Funding!Cost(chain, t)] = p /\ chain \in Funding!Balances
      /\ chain.purse - TxFee - a \in Nat
  BY <1>1, Paid
<1>3. chain' = [p EXCEPT !.sol[w] = @ + a]
  BY <1>2 DEF Funding!After
<1>4. p.sol = chain.sol /\ p.purse = chain.purse - TxFee - a /\ p.spyx = chain.spyx /\ p.ata = chain.ata
      /\ p.bag = chain.bag /\ p.bagOpen = chain.bagOpen
  BY <1>2 DEF Funding!Balances
<1>5. chain.sol \in [Funding!Wallets -> Nat] /\ chain.purse \in Nat /\ TxFee \in Nat /\ chain.sol[w] + a \in Nat
  BY <1>2, BalanceFields, FundConstants
<1>6. [chain.sol EXCEPT ![w] = chain.sol[w] + a] \in [Funding!Wallets -> Nat]
  BY <1>5
<1> HIDE DEF p, t
<1>7. chain' = [p EXCEPT !.sol = [chain.sol EXCEPT ![w] = chain.sol[w] + a]]
  BY <1>3, <1>4
<1>8. /\ chain' \in Funding!Balances /\ chain'.sol = [chain.sol EXCEPT ![w] = chain.sol[w] + a]
      /\ chain'.purse = p.purse /\ chain'.spyx = p.spyx /\ chain'.ata = p.ata /\ chain'.bag = p.bag
      /\ chain'.bagOpen = p.bagOpen
  BY <1>2, <1>6, <1>7 DEF Funding!Balances
<1> QED BY <1>4, <1>5, <1>8

LEMMA SpyxLands ==
  ASSUME FundTyped, NEW w \in Funding!Wallets, NEW a \in Nat,
         Funding!Valid(chain, [kind |-> "spyx", to |-> w, amount |-> a]),
         chain' = Funding!After(chain, [kind |-> "spyx", to |-> w, amount |-> a])
  PROVE  /\ chain' \in Funding!Balances
         /\ chain'.bag = chain.bag - a /\ chain'.spyx = [chain.spyx EXCEPT ![w] = chain.spyx[w] + a]
         /\ chain'.sol = chain.sol /\ chain'.ata = chain.ata /\ chain'.purse = chain.purse - TxFee
         /\ chain'.bagOpen = chain.bagOpen
<1> DEFINE t == [kind |-> "spyx", to |-> w, amount |-> a]
           p == [chain EXCEPT !.purse = chain.purse - TxFee - 0]
<1>1. Funding!Cost(chain, t) = TxFee + 0
  BY DEF Funding!Cost, Funding!Rent
<1>2. p \in Funding!Balances /\ [chain EXCEPT !.purse = @ - Funding!Cost(chain, t)] = p /\ chain \in Funding!Balances
  BY <1>1, Paid
<1>3. chain' = [p EXCEPT !.bag = @ - a, !.spyx[w] = @ + a]
  BY <1>2 DEF Funding!After
<1>4. p.sol = chain.sol /\ p.purse = chain.purse - TxFee - 0 /\ p.spyx = chain.spyx /\ p.ata = chain.ata
      /\ p.bag = chain.bag /\ p.bagOpen = chain.bagOpen
  BY <1>2 DEF Funding!Balances
<1>5. /\ chain.spyx \in [Funding!Wallets -> Nat] /\ chain.purse \in Nat /\ TxFee \in Nat
      /\ chain.spyx[w] + a \in Nat /\ chain.bag \in Nat /\ chain.bag >= a
  BY <1>2, BalanceFields, FundConstants DEF Funding!Valid
<1>6. [chain.spyx EXCEPT ![w] = chain.spyx[w] + a] \in [Funding!Wallets -> Nat] /\ chain.bag - a \in Nat
  BY <1>5
<1> HIDE DEF p, t
<1>7. chain' = [p EXCEPT !.bag = chain.bag - a, !.spyx = [chain.spyx EXCEPT ![w] = chain.spyx[w] + a]]
  BY <1>3, <1>4
<1>8. /\ chain' \in Funding!Balances /\ chain'.spyx = [chain.spyx EXCEPT ![w] = chain.spyx[w] + a]
      /\ chain'.purse = p.purse /\ chain'.sol = p.sol /\ chain'.ata = p.ata /\ chain'.bag = chain.bag - a
      /\ chain'.bagOpen = p.bagOpen
  BY <1>2, <1>6, <1>7 DEF Funding!Balances
<1> QED BY <1>4, <1>5, <1>8

LEMMA BagOpens ==
  ASSUME FundTyped, Funding!Valid(chain, [kind |-> "bag"]), chain' = Funding!After(chain, [kind |-> "bag"])
  PROVE  /\ chain' \in Funding!Balances
         /\ chain'.purse = chain.purse - TxFee - (IF chain.bagOpen THEN 0 ELSE AtaRent)
         /\ chain'.spyx = chain.spyx /\ chain'.sol = chain.sol /\ chain'.ata = chain.ata /\ chain'.bag = chain.bag
         /\ chain'.bagOpen
<1> DEFINE t == [kind |-> "bag"]
           k == IF chain.bagOpen THEN 0 ELSE AtaRent
           p == [chain EXCEPT !.purse = chain.purse - TxFee - k]
<1>1. Funding!Cost(chain, t) = TxFee + k /\ k \in Nat
  BY FundConstants DEF Funding!Cost, Funding!Rent
<1>2. /\ chain' = [[chain EXCEPT !.purse = @ - Funding!Cost(chain, t)] EXCEPT !.bagOpen = TRUE]
      /\ Funding!Valid(chain, t)
  BY DEF Funding!After
<1> HIDE DEF t, k
<1>3. p \in Funding!Balances /\ [chain EXCEPT !.purse = @ - Funding!Cost(chain, t)] = p /\ chain \in Funding!Balances
  BY <1>1, <1>2, Paid
<1>4. p.sol = chain.sol /\ p.purse = chain.purse - TxFee - k /\ p.spyx = chain.spyx /\ p.ata = chain.ata
      /\ p.bag = chain.bag
  BY <1>3 DEF Funding!Balances
<1> HIDE DEF p
<1>5. chain' = [p EXCEPT !.bagOpen = TRUE]
  BY <1>2, <1>3
<1>6. /\ chain' \in Funding!Balances /\ chain'.bagOpen = TRUE
      /\ chain'.purse = p.purse /\ chain'.sol = p.sol /\ chain'.spyx = p.spyx /\ chain'.ata = p.ata /\ chain'.bag = p.bag
  BY <1>3, <1>5 DEF Funding!Balances
<1> QED BY <1>4, <1>6 DEF k

LEMMA AtaOpens ==
  ASSUME FundTyped, NEW w \in Holders, Funding!Valid(chain, [kind |-> "ata", to |-> w]),
         chain' = Funding!After(chain, [kind |-> "ata", to |-> w])
  PROVE  /\ chain' \in Funding!Balances
         /\ chain'.purse = chain.purse - TxFee - (IF w \in chain.ata THEN 0 ELSE AtaRent)
         /\ chain'.spyx = chain.spyx /\ chain'.sol = chain.sol /\ chain'.ata = chain.ata \cup {w} /\ chain'.bag = chain.bag
         /\ chain'.bagOpen = chain.bagOpen
<1> DEFINE t == [kind |-> "ata", to |-> w]
           k == IF w \in chain.ata THEN 0 ELSE AtaRent
           p == [chain EXCEPT !.purse = chain.purse - TxFee - k]
<1>1. Funding!Cost(chain, t) = TxFee + k /\ k \in Nat
  BY FundConstants DEF Funding!Cost, Funding!Rent
<1>2. /\ chain' = [[chain EXCEPT !.purse = @ - Funding!Cost(chain, t)] EXCEPT !.ata = @ \cup {w}]
      /\ Funding!Valid(chain, t)
  BY DEF Funding!After
<1> HIDE DEF t, k
<1>3. p \in Funding!Balances /\ [chain EXCEPT !.purse = @ - Funding!Cost(chain, t)] = p /\ chain \in Funding!Balances
  BY <1>1, <1>2, Paid
<1>4. p.sol = chain.sol /\ p.purse = chain.purse - TxFee - k /\ p.spyx = chain.spyx /\ p.ata = chain.ata
      /\ p.bag = chain.bag /\ p.bagOpen = chain.bagOpen
  BY <1>3 DEF Funding!Balances
<1>5. chain.ata \cup {w} \in SUBSET Holders
  BY <1>3, BalanceFields
<1> HIDE DEF p
<1>6. chain' = [p EXCEPT !.ata = chain.ata \cup {w}]
  BY <1>2, <1>3, <1>4
<1>7. /\ chain' \in Funding!Balances /\ chain'.ata = chain.ata \cup {w}
      /\ chain'.purse = p.purse /\ chain'.sol = p.sol /\ chain'.spyx = p.spyx /\ chain'.bag = p.bag
      /\ chain'.bagOpen = p.bagOpen
  BY <1>3, <1>5, <1>6 DEF Funding!Balances
<1> QED BY <1>4, <1>7 DEF k

LEMMA SwapLands ==
  ASSUME FundTyped, NEW in \in Nat, NEW out \in Nat, NEW s,
         Funding!Valid(chain, [kind |-> "swap", stage |-> s, in |-> in, out |-> out]),
         chain' = Funding!After(chain, [kind |-> "swap", stage |-> s, in |-> in, out |-> out])
  PROVE  /\ chain' \in Funding!Balances
         /\ chain'.purse = chain.purse - in - TxFee /\ chain'.bag = chain.bag + out
         /\ chain'.spyx = chain.spyx /\ chain'.sol = chain.sol /\ chain'.ata = chain.ata
         /\ chain'.bagOpen = chain.bagOpen
<1> DEFINE t == [kind |-> "swap", stage |-> s, in |-> in, out |-> out]
           p == [chain EXCEPT !.purse = chain.purse - TxFee - in]
<1>1. Funding!Cost(chain, t) = TxFee + in
  BY DEF Funding!Cost
<1>2. p \in Funding!Balances /\ [chain EXCEPT !.purse = @ - Funding!Cost(chain, t)] = p /\ chain \in Funding!Balances
  BY <1>1, Paid
<1>3. chain' = [p EXCEPT !.bag = @ + out]
  BY <1>2 DEF Funding!After
<1>4. p.sol = chain.sol /\ p.purse = chain.purse - TxFee - in /\ p.spyx = chain.spyx /\ p.ata = chain.ata
      /\ p.bag = chain.bag /\ p.bagOpen = chain.bagOpen
  BY <1>2 DEF Funding!Balances
<1>5. chain.bag \in Nat /\ chain.purse \in Nat /\ TxFee \in Nat /\ chain.bag + out \in Nat
  BY <1>2, BalanceFields, FundConstants
<1> HIDE DEF p, t
<1>6. chain' = [p EXCEPT !.bag = chain.bag + out]
  BY <1>3, <1>4
<1>7. /\ chain' \in Funding!Balances /\ chain'.bag = chain.bag + out
      /\ chain'.purse = p.purse /\ chain'.spyx = p.spyx /\ chain'.ata = p.ata /\ chain'.sol = p.sol
      /\ chain'.bagOpen = p.bagOpen
  BY <1>2, <1>5, <1>6 DEF Funding!Balances
<1> QED BY <1>4, <1>5, <1>7

\* Whatever lands leaves balances that are natural.
LEMMA AnyLands ==
  ASSUME FundTyped, NEW t \in Funding!Txs, t # Funding!NoTx,
         Funding!Valid(chain, t), chain' = Funding!After(chain, t)
  PROVE  chain' \in Funding!Balances
<1>1. CASE t \in [kind : {"none", "bag"}]
  <2>1. t = [kind |-> "bag"]
    BY <1>1 DEF Funding!NoTx
  <2> QED BY <2>1, BagOpens
<1>2. CASE t \in [kind : {"ata"}, to : Holders]
  <2>1. PICK w \in Holders : t = [kind |-> "ata", to |-> w]
    BY <1>2
  <2> QED BY <2>1, AtaOpens
<1>3. CASE t \in [kind : {"sol", "spyx"}, to : Funding!Wallets, amount : Nat]
  <2>1. PICK w \in Funding!Wallets, a \in Nat, k \in {"sol", "spyx"} : t = [kind |-> k, to |-> w, amount |-> a]
    BY <1>3
  <2> QED BY <2>1, SolLands, SpyxLands
<1>4. CASE t \in [kind : {"swap"}, stage : Funding!Stages, in : Nat, out : Nat]
  <2>1. PICK s \in Funding!Stages, in \in Nat, out \in Nat : t = [kind |-> "swap", stage |-> s, in |-> in, out |-> out]
    BY <1>4
  <2> QED BY <2>1, SwapLands
<1> QED BY <1>1, <1>2, <1>3, <1>4 DEF Funding!Txs

-----------------------------------------------------------------------------
(* Sums.                                                                   *)

LEMMA FundSum == ASSUME NEW f PROVE Funding!SumFunction(f) = Sum(f, DOMAIN f)
BY DEF Funding!SumFunction, Funding!SumFunctionOnSet, Funding!FoldFunctionOnSet, Funding!MapThenFoldSet,
       Sum, FoldFunctionOnSet, MapThenFoldSet

SolShorts(c) == [w \in Funding!Wallets |-> Funding!Short(c.sol[w], SolTarget)]
SpyxShorts(c) == [w \in Funding!Wallets |-> Funding!Short(c.spyx[w], Funding!Target(w))]

LEMMA ShortTypes ==
  ASSUME NEW have \in Nat, NEW target \in Nat
  PROVE  /\ Funding!Short(have, target) \in Nat
         /\ have <= target => Funding!Short(have, target) = target - have
BY DEF Funding!Short

LEMMA ShortSums ==
  ASSUME NEW c \in Funding!Balances
  PROVE  /\ Funding!SolShort(c) = Sum(SolShorts(c), Funding!Wallets) /\ Funding!SolShort(c) \in Nat
         /\ Funding!SpyxShort(c) = Sum(SpyxShorts(c), Funding!Wallets) /\ Funding!SpyxShort(c) \in Nat
<1>1. /\ DOMAIN SolShorts(c) = Funding!Wallets /\ \A w \in Funding!Wallets : SolShorts(c)[w] \in Nat
      /\ DOMAIN SpyxShorts(c) = Funding!Wallets /\ \A w \in Funding!Wallets : SpyxShorts(c)[w] \in Nat
  <2>1. \A w \in Funding!Wallets : c.sol[w] \in Nat /\ c.spyx[w] \in Nat
    BY BalanceFields
  <2>2. \A w \in Funding!Wallets : Funding!Target(w) \in Nat /\ SolTarget \in Nat
    BY FundConstants
  <2> QED BY <2>1, <2>2, ShortTypes DEF SolShorts, SpyxShorts
<1>2. Funding!SolShort(c) = Sum(SolShorts(c), Funding!Wallets)
  BY <1>1, FundSum DEF Funding!SolShort, SolShorts
<1>3. Funding!SpyxShort(c) = Sum(SpyxShorts(c), Funding!Wallets)
  BY <1>1, FundSum DEF Funding!SpyxShort, SpyxShorts
<1>4. IsFiniteSet(Funding!Wallets)
  BY FundConstants
<1>5. Sum(SolShorts(c), Funding!Wallets) \in Nat /\ Sum(SpyxShorts(c), Funding!Wallets) \in Nat
  BY <1>1, <1>4, SumNat
<1> QED BY <1>2, <1>3, <1>5

LEMMA GivenTypes ==
  ASSUME FundTyped
  PROVE  Given \in Nat /\ Wanted \in Nat /\ More \in Nat
<1>1. IsFiniteSet(Funding!Wallets) /\ Slack \in Nat /\ TestSize \in Nat /\ Slack < TestSize
  BY FundConstants
<1>2. \A w \in Funding!Wallets : Targets[w] \in Nat
  BY FundConstants DEF Targets
<1>3. \A w \in Funding!Wallets : chain.spyx[w] \in Nat
  BY FundFields, BalanceFields
<1>4. Given \in Nat
  BY <1>1, <1>3, SumNat DEF Given
<1>5. Wanted \in Nat
  BY <1>1, <1>2, SumNat DEF Wanted
<1> QED BY <1>1, <1>4, <1>5 DEF More

\* What is missing is the difference, as nobody has too much.
LEMMA MissingIsRest ==
  ASSUME FundTyped, NoneOver
  PROVE  Funding!SpyxShort(chain) + Given = Wanted
<1>1. IsFiniteSet(Funding!Wallets) /\ chain \in Funding!Balances
  BY FundConstants, FundFields
<1>2. Together(SpyxShorts(chain), chain.spyx, Targets, Funding!Wallets)
  <2>1. ASSUME NEW w \in Funding!Wallets
        PROVE  /\ SpyxShorts(chain)[w] \in Int /\ chain.spyx[w] \in Int
               /\ Targets[w] = SpyxShorts(chain)[w] + chain.spyx[w]
    <3>1. chain.spyx[w] \in Nat /\ Funding!Target(w) \in Nat /\ chain.spyx[w] <= Funding!Target(w)
      BY <1>1, BalanceFields, FundConstants DEF NoneOver
    <3>2. Funding!Short(chain.spyx[w], Funding!Target(w)) = Funding!Target(w) - chain.spyx[w]
      BY <3>1, ShortTypes
    <3>3. SpyxShorts(chain)[w] = Funding!Target(w) - chain.spyx[w] /\ Targets[w] = Funding!Target(w)
      BY <3>2 DEF SpyxShorts, Targets
    <3> QED BY <3>1, <3>3
  <2> QED BY <2>1 DEF Together
<1>3. Sum(Targets, Funding!Wallets) = Sum(SpyxShorts(chain), Funding!Wallets) + Sum(chain.spyx, Funding!Wallets)
  BY <1>1, <1>2, SumTogether
<1> QED BY <1>1, <1>3, ShortSums DEF Given, Wanted

\* A wallet that gets what it misses leaves that much less missing.
LEMMA SolServed ==
  ASSUME FundTyped, chain' \in Funding!Balances, NEW w \in Funding!Wallets, NEW a \in Nat,
         chain'.sol = [chain.sol EXCEPT ![w] = chain.sol[w] + a], chain.sol[w] + a <= SolTarget
  PROVE  Funding!SolShort(chain') = Funding!SolShort(chain) - a
<1>1. IsFiniteSet(Funding!Wallets) /\ chain \in Funding!Balances /\ SolTarget \in Nat
  BY FundConstants, FundFields
<1>2. chain.sol \in [Funding!Wallets -> Nat] /\ chain'.sol \in [Funding!Wallets -> Nat]
  BY <1>1, BalanceFields
<1>3. SameBut(SolShorts(chain), SolShorts(chain'), Funding!Wallets, w)
  <2>1. ASSUME NEW y \in Funding!Wallets
        PROVE  /\ SolShorts(chain)[y] \in Int /\ SolShorts(chain')[y] \in Int
               /\ y # w => SolShorts(chain')[y] = SolShorts(chain)[y]
    <3>1. chain.sol[y] \in Nat /\ chain'.sol[y] \in Nat /\ (y # w => chain'.sol[y] = chain.sol[y])
      BY <1>2
    <3>2. Funding!Short(chain.sol[y], SolTarget) \in Nat /\ Funding!Short(chain'.sol[y], SolTarget) \in Nat
      BY <1>1, <3>1, ShortTypes
    <3>3. /\ SolShorts(chain)[y] = Funding!Short(chain.sol[y], SolTarget)
          /\ SolShorts(chain')[y] = Funding!Short(chain'.sol[y], SolTarget)
      BY DEF SolShorts
    <3> QED BY <3>1, <3>2, <3>3
  <2> QED BY <2>1 DEF SameBut
<1>4. SolShorts(chain')[w] = SolShorts(chain)[w] - a /\ SolShorts(chain)[w] \in Int
  <2>1. chain.sol[w] \in Nat /\ chain'.sol[w] = chain.sol[w] + a /\ chain'.sol[w] \in Nat
    BY <1>2
  <2>2. /\ Funding!Short(chain.sol[w], SolTarget) = SolTarget - chain.sol[w]
        /\ Funding!Short(chain'.sol[w], SolTarget) = SolTarget - (chain.sol[w] + a)
    <3>1. chain.sol[w] <= SolTarget /\ chain.sol[w] + a \in Nat
      BY <1>1, <2>1
    <3>2. Funding!Short(chain.sol[w], SolTarget) = SolTarget - chain.sol[w]
      BY <1>1, <2>1, <3>1 DEF Funding!Short
    <3>3. Funding!Short(chain.sol[w] + a, SolTarget) = SolTarget - (chain.sol[w] + a)
      BY <1>1, <3>1 DEF Funding!Short
    <3> QED BY <2>1, <3>2, <3>3
  <2>3. SolShorts(chain)[w] = SolTarget - chain.sol[w] /\ SolShorts(chain')[w] = SolTarget - (chain.sol[w] + a)
    BY <2>2 DEF SolShorts
  <2> QED BY <1>1, <2>1, <2>3
<1>5. /\ Sum(SolShorts(chain'), Funding!Wallets)
           = Sum(SolShorts(chain), Funding!Wallets) - SolShorts(chain)[w] + SolShorts(chain')[w]
      /\ Sum(SolShorts(chain), Funding!Wallets) \in Int /\ Sum(SolShorts(chain'), Funding!Wallets) \in Int
  <2>1. IsFiniteSet(Funding!Wallets)
    BY <1>1
  <2> QED BY ONLY <2>1, <1>3, SumChanged, ZenonT(30)
<1>6. /\ Funding!SolShort(chain) = Sum(SolShorts(chain), Funding!Wallets)
      /\ Funding!SolShort(chain') = Sum(SolShorts(chain'), Funding!Wallets)
  BY <1>1, ShortSums
<1> QED BY <1>4, <1>5, <1>6

LEMMA SpyxGiven ==
  ASSUME FundTyped, NEW w \in Funding!Wallets, NEW a \in Nat,
         chain'.spyx = [chain.spyx EXCEPT ![w] = chain.spyx[w] + a]
  PROVE  Given' = Given + a
<1>1. IsFiniteSet(Funding!Wallets) /\ chain.spyx \in [Funding!Wallets -> Nat]
  BY FundConstants, FundFields, BalanceFields
<1>2. chain.spyx[w] \in Nat /\ chain'.spyx[w] = chain.spyx[w] + a
  BY <1>1
<1>3. SameBut(chain.spyx, chain'.spyx, Funding!Wallets, w)
  BY <1>1 DEF SameBut
<1>4. /\ Sum(chain'.spyx, Funding!Wallets) = Sum(chain.spyx, Funding!Wallets) - chain.spyx[w] + chain'.spyx[w]
      /\ Sum(chain.spyx, Funding!Wallets) \in Int /\ Sum(chain'.spyx, Funding!Wallets) \in Int
  <2>1. IsFiniteSet(Funding!Wallets)
    BY <1>1
  <2> QED BY ONLY <2>1, <1>3, SumChanged, ZenonT(30)
<1> QED BY <1>2, <1>4 DEF Given

-----------------------------------------------------------------------------
(* Steps that leave the balances alone.                                    *)

LEMMA Unmoved ==
  ASSUME FundTyped, chain' = chain
  PROVE  /\ Given' = Given /\ Wanted' = Wanted /\ More' = More
         /\ NoneOver => NoneOver'
         /\ NotOver => NotOver'
<1>1. Given' = Given
  BY DEF Given
<1>2. Wanted' = Wanted /\ More' = More
  BY DEF Wanted, More
<1> QED BY <1>1, <1>2 DEF NoneOver, NotOver

\* Once a run is under way the deploy money is kept.
LEMMA KeptNow ==
  ASSUME Kept, run.pc # "off"
  PROVE  chain.purse >= MinDeployer - AtaRent * Cardinality(chain.ata) - Fees
BY DEF Kept, Funding!Off

\* The deploy money covers accounts and fees as well.
LEMMA KeptRoom ==
  ASSUME FundTyped, NEW p \in Int, NEW f \in Nat, p + f >= MinDeployer, NEW S, S \subseteq Holders
  PROVE  p >= MinDeployer - AtaRent * Cardinality(S) - f
<1>1. Cardinality(S) \in Nat /\ AtaRent \in Nat /\ MinDeployer \in Nat
  BY FundConstants, FS_Subset, FS_CardinalityType
<1>2. AtaRent * Cardinality(S) \in Nat
  BY <1>1
<1> QED BY <1>1, <1>2

\* A fee is accounted for.
LEMMA KeptLess ==
  ASSUME FundTyped, chain.purse >= MinDeployer - AtaRent * Cardinality(chain.ata) - Fees,
         chain'.purse = chain.purse - TxFee, chain'.ata = chain.ata, Fees' = Fees + TxFee
  PROVE  chain'.purse >= MinDeployer - AtaRent * Cardinality(chain'.ata) - Fees'
<1>1. /\ Cardinality(chain.ata) \in Nat /\ AtaRent \in Nat /\ MinDeployer \in Nat /\ TxFee \in Nat /\ Fees \in Nat
      /\ chain.purse \in Nat
  BY FundFields, BalanceFields, FundConstants, FeesOfRun, FS_Subset, FS_CardinalityType
<1>2. AtaRent * Cardinality(chain.ata) \in Nat
  BY <1>1
<1> QED BY <1>1, <1>2

LEMMA Continues ==
  ASSUME FundInv, UNCHANGED <<chain, prev, landed>>, paid' \in {paid, 0},
         run' \in FundRuns, AtWallet', file' \in FundRecords, transit' \in Funding!Txs,
         fundFaults' \in 0 .. MaxFaults, misled' \in BOOLEAN, lost' \in BOOLEAN,
         ~misled' => ~misled /\ RunPlan',
         ~misled' => \/ paid' = paid /\ (run' = run \/ run.pc # "off")
                     \/ chain.purse >= MinDeployer,
         ~misled' /\ ~lost' => RecordsSo' /\ RunTells'
  PROVE  FundInv'
<1>1. FundTyped
  BY DEF FundInv
<1>2. FundTyped'
  BY <1>1, FundFields DEF FundTyped, Funding!TypeOK, FundRuns, FundRecords
<1>3. ASSUME ~misled'
      PROVE  SpendPlan'
  <2>1. SpendPlan
    BY <1>3 DEF FundInv
  <2>2. NoneOver' /\ NotOver'
    BY <1>1, <2>1, Unmoved DEF SpendPlan
  <2>3. Kept'
    <3>1. CASE paid' = paid /\ run' = run
      BY <1>1, <2>1, <3>1, FeesOfRun DEF SpendPlan, Kept
    <3>2. CASE paid' = paid /\ run.pc # "off"
      BY <1>1, <2>1, <3>2, KeptNow, FeesOfRun DEF SpendPlan, Kept
    <3>3. CASE chain.purse >= MinDeployer
      <4>1. Fees' \in Nat
        BY <1>1, FeesOfRun
      <4>2. chain.purse \in Nat /\ chain.purse + Fees' >= MinDeployer /\ chain.ata \subseteq Holders
        BY <1>1, <3>3, <4>1, FundFields, BalanceFields, FundConstants
      <4> HIDE DEF Kept
      <4>3. chain.purse >= MinDeployer - AtaRent * Cardinality(chain.ata) - Fees'
        BY <1>1, <4>1, <4>2, KeptRoom
      <4> QED BY <4>3 DEF Kept
    <3> QED BY <1>3, <3>1, <3>2, <3>3
  <2> QED BY <1>3, <2>2, <2>3 DEF SpendPlan
<1> QED BY <1>2, <1>3 DEF FundInv

\* A command that has ended remembers nothing.
LEMMA Ended ==
  ASSUME run'.pc \in {"off", "done"}
  PROVE  RunPlan' /\ RunTells' /\ AtWallet'
<1>1. AtWallet'
  BY DEF AtWallet
<1>2. SolPlan'
  BY DEF SolPlan
<1>3. RunSpyx' /\ MainBuys'
  BY DEF RunSpyx, MainBuys, Buying, Swapping
<1>4. RunTells'
  BY DEF RunTells, Swapping, Giving
<1> QED BY <1>1, <1>2, <1>3, <1>4 DEF RunPlan

LEMMA Rests ==
  ASSUME FundInv, UNCHANGED <<chain, prev, landed, paid>>,
         run' \in FundRuns, run'.pc \in {"off", "done"}, run' = run \/ run.pc # "off",
         file' \in FundRecords, transit' \in Funding!Txs,
         fundFaults' \in 0 .. MaxFaults, misled' \in BOOLEAN, lost' \in BOOLEAN,
         ~misled' => ~misled,
         ~misled' /\ ~lost' => RecordsSo'
  PROVE  FundInv'
BY Ended, Continues

LEMMA OffTyped == Funding!Off \in FundRuns /\ Funding!Off.pc = "off"
<1>1. 1 \in 1 .. N + 1
  BY FundConstants
<1> QED BY <1>1 DEF Funding!Off, FundRuns, Funding!NoQuote, Funding!Stages

LEMMA Faulted == ASSUME FundTyped, Funding!Fault PROVE fundFaults' \in 0 .. MaxFaults
<1>1. fundFaults \in 0 .. MaxFaults /\ fundFaults < MaxFaults /\ fundFaults' = fundFaults + 1 /\ MaxFaults \in Nat
  BY FundConstants DEF FundTyped, Funding!TypeOK, Funding!Fault
<1> QED BY <1>1

LEMMA ReadTyped ==
  ASSUME FundTyped, NEW v \in {chain, prev}, Funding!Reads(v)
  PROVE  /\ v \in Funding!Balances
         /\ fundFaults' \in 0 .. MaxFaults /\ misled' \in BOOLEAN
         /\ ~misled' => v = chain /\ ~misled
<1>1. v \in Funding!Balances
  BY FundFields
<1>2. CASE v = chain /\ UNCHANGED <<fundFaults, misled>>
  BY <1>1, <1>2 DEF FundTyped, Funding!TypeOK
<1>3. CASE v = prev /\ prev # chain /\ Funding!Fault /\ misled' = TRUE
  BY <1>1, <1>3, Faulted
<1> QED BY <1>2, <1>3 DEF Funding!Reads

\* Where the run goes next.
LEMMA Went ==
  ASSUME FundTyped, NEW pc \in {"off", "done", "sol", "sendSol", "openBag", "need", "main", "swap", "quote",
                                "execute", "receipt", "give", "give2", "open", "sendSpyx"},
         run' = Funding!Goto(pc)
  PROVE  /\ run' \in FundRuns /\ run'.pc = pc /\ run'.w = 1
         /\ run'.needed = run.needed /\ run'.amount = run.amount /\ run'.stage = run.stage
         /\ run'.before = run.before /\ run'.quote = run.quote
<1>1. run \in FundRuns /\ 1 \in 1 .. N + 1
  BY FundFields, FundConstants
<1> QED BY <1>1 DEF Funding!Goto, FundRuns

LEMMA WentOn ==
  ASSUME FundTyped, NEW pc \in {"off", "done", "sol", "sendSol", "openBag", "need", "main", "swap", "quote",
                                "execute", "receipt", "give", "give2", "open", "sendSpyx"},
         run.w \in Funding!Wallets, run' = Funding!NextWallet(pc)
  PROVE  /\ run' \in FundRuns /\ run'.pc = pc /\ run'.w = run.w + 1
         /\ run'.needed = run.needed /\ run'.amount = run.amount /\ run'.stage = run.stage
         /\ run'.before = run.before /\ run'.quote = run.quote
<1>1. run \in FundRuns /\ run.w + 1 \in 1 .. N + 1
  BY FundFields, FundConstants
<1> QED BY <1>1 DEF Funding!NextWallet, FundRuns

-----------------------------------------------------------------------------
(* The steps that read.                                                    *)

LEMMA FundCard == ASSUME NEW S PROVE Funding!Cardinality(S) = Cardinality(S)
BY DEF Funding!Cardinality, Cardinality

LEMMA RentNat ==
  ASSUME FundTyped
  PROVE  /\ Funding!RentShort(chain) \in Nat
         /\ Funding!RentShort(chain) >= IF chain.bagOpen THEN 0 ELSE AtaRent
<1>1. Cardinality(Holders \ chain.ata) \in Nat /\ AtaRent \in Nat
  BY FundConstants, FS_Difference, FS_CardinalityType
<1>2. \A k \in Nat, a \in Nat : a * (k + 0) \in Nat /\ a * (k + 1) \in Nat /\ a * (k + 1) >= a
  OBVIOUS
<1>3. CASE chain.bagOpen
  <2>1. Funding!RentShort(chain) = AtaRent * (Cardinality(Holders \ chain.ata) + 0)
    BY <1>3, FundCard DEF Funding!RentShort
  <2> QED BY <1>1, <1>2, <1>3, <2>1
<1>4. CASE ~chain.bagOpen
  <2>1. Funding!RentShort(chain) = AtaRent * (Cardinality(Holders \ chain.ata) + 1)
    BY <1>4, FundCard DEF Funding!RentShort
  <2> QED BY <1>1, <1>2, <1>4, <2>1
<1> QED BY <1>3, <1>4

LEMMA StartStays == FundInv /\ Funding!Start => FundInv'
<1> SUFFICES ASSUME FundInv, Funding!Start PROVE FundInv'
  OBVIOUS
<1>1. FundTyped
  BY DEF FundInv
<1>2. PICK v \in {chain, prev} :
           /\ Funding!Reads(v) /\ Funding!Affordable(v)
           /\ run' = [Funding!Off EXCEPT !.pc = "sol", !.needed = Funding!SpyxShort(v)]
  BY DEF Funding!Start
<1>3. /\ v \in Funding!Balances /\ fundFaults' \in 0 .. MaxFaults /\ misled' \in BOOLEAN
      /\ ~misled' => v = chain /\ ~misled
  BY <1>1, <1>2, ReadTyped
<1>4. /\ run.pc \in {"off", "done"} /\ UNCHANGED <<chain, prev, landed>> /\ file' = file /\ transit' = transit
      /\ lost' = lost /\ paid' = 0
  BY DEF Funding!Start
<1>5. Funding!SpyxShort(v) \in Nat
  BY <1>3, ShortSums
<1>6. run' \in FundRuns /\ run'.pc = "sol" /\ run'.needed = Funding!SpyxShort(v) /\ run'.stage = "test"
  BY <1>2, <1>5, OffTyped DEF FundRuns, Funding!Off, Funding!Stages
<1>7. AtWallet'
  BY <1>6 DEF AtWallet
<1>8. ASSUME ~misled'
      PROVE  chain.purse >= MinDeployer /\ RunPlan'
  <2>1. v = chain /\ SpendPlan
    BY <1>3, <1>8 DEF FundInv
  <2>2. /\ chain.purse \in Nat /\ Funding!SolShort(chain) \in Nat /\ Funding!RentShort(chain) \in Nat
        /\ Funding!RentShort(chain) >= (IF chain.bagOpen THEN 0 ELSE AtaRent)
        /\ Funding!Short(chain.bag, Funding!SpyxShort(chain)) \in Nat
        /\ MinDeployer \in Nat /\ FeeBuffer \in Nat /\ Margin \in Nat /\ AtaRent \in Nat
    BY <1>1, FundFields, BalanceFields, FundConstants, RentNat, ShortSums, ShortTypes
  <2>3. chain.purse >= MinDeployer + Funding!SolShort(chain) + Funding!RentShort(chain)
    BY <1>2, <2>1, <2>2 DEF Funding!Affordable, Funding!Spend
  <2>4. chain.purse >= MinDeployer + Funding!SolShort(chain) + (IF chain.bagOpen THEN 0 ELSE AtaRent)
    BY <2>2, <2>3
  <2>5. Funding!SpyxShort(chain) + Given = Wanted
    BY <1>1, <2>1, MissingIsRest DEF SpendPlan
  <2>6. chain.purse >= MinDeployer
    BY <2>2, <2>3
  <2>7. SolPlan'
    <3>1. Fees' = 0
      BY <1>1, <1>4, FeesOfRun
    <3>2. chain'.purse + Fees' >= MinDeployer + Funding!SolShort(chain') + (IF chain'.bagOpen THEN 0 ELSE AtaRent)
      BY <1>4, <2>2, <2>4, <3>1
    <3> QED BY <1>6, <3>2 DEF SolPlan
  <2>8. run'.needed + Given' = Wanted'
    BY <1>1, <1>4, <1>6, <2>1, <2>5, Unmoved
  <2>9. RunSpyx' /\ MainBuys'
    BY <1>6, <2>8 DEF RunSpyx, MainBuys, Buying, Swapping
  <2> QED BY <2>6, <2>7, <2>9 DEF RunPlan
<1>9. ASSUME ~misled', ~lost'
      PROVE  RecordsSo' /\ RunTells'
  <2>1. RecordsSo
    BY <1>3, <1>4, <1>9 DEF FundInv
  <2>2. RecordsSo'
    BY <1>1, <1>4, <2>1, Unmoved DEF RecordsSo
  <2>3. RunTells'
    BY <1>6 DEF RunTells, Swapping, Giving
  <2> QED BY <2>2, <2>3
<1>10. file' \in FundRecords /\ transit' \in Funding!Txs /\ lost' \in BOOLEAN
  BY <1>1, <1>4, FundFields DEF FundTyped, Funding!TypeOK
<1> QED BY <1>3, <1>4, <1>6, <1>7, <1>8, <1>9, <1>10, Continues

\* A step that reads, goes on with the run and leaves the state file.
LEMMA ReadsOn ==
  ASSUME FundInv, NEW v \in {chain, prev}, Funding!Reads(v),
         UNCHANGED <<chain, prev, transit, file, landed, lost, paid>>,
         run.pc # "off", run' \in FundRuns, AtWallet',
         ~misled /\ v = chain => RunPlan',
         ~misled /\ ~lost /\ v = chain => RunTells'
  PROVE  FundInv'
<1>1. FundTyped
  BY DEF FundInv
<1>2. /\ fundFaults' \in 0 .. MaxFaults /\ misled' \in BOOLEAN
      /\ ~misled' => v = chain /\ ~misled
  BY <1>1, ReadTyped
<1>3. file' \in FundRecords /\ transit' \in Funding!Txs /\ lost' \in BOOLEAN
  BY <1>1, FundFields DEF FundTyped, Funding!TypeOK
<1>4. ~misled' /\ ~lost' => RecordsSo'
  BY <1>1, <1>2, Unmoved DEF FundInv, RecordsSo
<1> QED BY <1>2, <1>3, <1>4, Continues

LEMMA ReadSolStays == FundInv /\ Funding!ReadSol => FundInv'
<1> SUFFICES ASSUME FundInv, Funding!ReadSol PROVE FundInv'
  OBVIOUS
<1>1. FundTyped
  BY DEF FundInv
<1>2. /\ run.pc = "sol" /\ run.w \in Funding!Wallets
      /\ UNCHANGED <<chain, prev, transit, file, landed, lost, paid>>
  BY DEF Funding!ReadSol, Funding!At
<1>3. PICK v \in {chain, prev} :
         /\ Funding!Reads(v)
         /\ run' = IF Funding!SolAmount(v, run.w) = 0 THEN Funding!NextWallet("sol")
                   ELSE [run EXCEPT !.pc = "sendSol", !.amount = Funding!SolAmount(v, run.w)]
  BY DEF Funding!ReadSol
<1>4. Funding!SolAmount(v, run.w) \in Nat
  BY <1>1, <1>2, <1>3, ReadTyped, BalanceFields, FundConstants, ShortTypes DEF Funding!SolAmount
<1>5. CASE Funding!SolAmount(v, run.w) = 0
  <2>1. /\ run' \in FundRuns /\ run'.pc = "sol" /\ run'.needed = run.needed /\ run'.stage = run.stage
    BY <1>1, <1>2, <1>3, <1>5, WentOn
  <2>2. AtWallet' /\ RunTells'
    BY <2>1 DEF AtWallet, RunTells, Swapping, Giving
  <2>3. ASSUME ~misled PROVE RunPlan'
    <3>1. SolPlan'
      BY <1>1, <1>2, <2>1, <2>3, FeesOfRun DEF FundInv, SpendPlan, RunPlan, SolPlan
    <3>2. run'.needed + Given' = Wanted'
      BY <1>1, <1>2, <2>1, <2>3, Unmoved DEF FundInv, SpendPlan, RunPlan, RunSpyx, Buying
    <3> QED BY <2>1, <3>1, <3>2 DEF RunPlan, RunSpyx, MainBuys, Buying, Swapping
  <2> QED BY <1>2, <1>3, <2>1, <2>2, <2>3, ReadsOn
<1>6. CASE Funding!SolAmount(v, run.w) # 0
  <2>1. run' = [run EXCEPT !.pc = "sendSol", !.amount = Funding!SolAmount(v, run.w)] /\ run \in FundRuns
    BY <1>1, <1>3, <1>6, FundFields
  <2>2. /\ run' \in FundRuns /\ run'.pc = "sendSol" /\ run'.needed = run.needed /\ run'.stage = run.stage
        /\ run'.w = run.w /\ run'.amount = Funding!SolAmount(v, run.w)
    BY <1>4, <2>1 DEF FundRuns
  <2>3. AtWallet'
    BY <1>2, <2>2 DEF AtWallet, Funding!Wallets
  <2>4. RunTells'
    BY <2>2 DEF RunTells, Swapping, Giving
  <2>5. ASSUME ~misled, v = chain PROVE RunPlan'
    <3>1. chain.sol[run.w] \in Nat /\ SolTarget \in Nat
      BY <1>1, <1>2, FundFields, BalanceFields, FundConstants
    <3>2. run'.amount = SolTarget - chain.sol[run.w]
      BY <1>6, <2>2, <2>5, <3>1 DEF Funding!SolAmount, Funding!Short
    <3>3. SolPlan'
      BY <1>1, <1>2, <2>2, <2>5, <3>2, FeesOfRun DEF FundInv, SpendPlan, RunPlan, SolPlan
    <3>4. run'.needed + Given' = Wanted'
      BY <1>1, <1>2, <2>2, <2>5, Unmoved DEF FundInv, SpendPlan, RunPlan, RunSpyx, Buying
    <3> QED BY <2>2, <3>3, <3>4 DEF RunPlan, RunSpyx, MainBuys, Buying, Swapping
  <2> QED BY <1>2, <1>3, <2>2, <2>3, <2>4, <2>5, ReadsOn
<1> QED BY <1>5, <1>6

LEMMA ReadBagStays == FundInv /\ Funding!ReadBag => FundInv'
<1> SUFFICES ASSUME FundInv, Funding!ReadBag PROVE FundInv'
  OBVIOUS
<1>1. FundTyped
  BY DEF FundInv
<1>2. run.pc = "sol" /\ UNCHANGED <<chain, prev, transit, file, landed, lost, paid>>
  BY DEF Funding!ReadBag, Funding!At
<1>3. PICK v \in {chain, prev} :
         Funding!Reads(v) /\ run' = Funding!Goto(IF v.bagOpen THEN "need" ELSE "openBag")
  BY DEF Funding!ReadBag
<1>4. /\ run' \in FundRuns /\ run'.pc = (IF v.bagOpen THEN "need" ELSE "openBag")
      /\ run'.needed = run.needed /\ run'.stage = run.stage
  BY <1>1, <1>3, Went
<1>5. AtWallet' /\ RunTells'
  BY <1>4 DEF AtWallet, RunTells, Swapping, Giving
<1>6. ASSUME ~misled, v = chain PROVE RunPlan'
  <2>1. SolPlan'
    BY <1>1, <1>2, <1>4, <1>6, FeesOfRun DEF FundInv, SpendPlan, RunPlan, SolPlan
  <2>2. run'.needed + Given' = Wanted'
    BY <1>1, <1>2, <1>4, <1>6, Unmoved DEF FundInv, SpendPlan, RunPlan, RunSpyx, Buying
  <2> QED BY <1>4, <2>1, <2>2 DEF RunPlan, RunSpyx, MainBuys, Buying, Swapping
<1> QED BY <1>2, <1>3, <1>4, <1>5, <1>6, ReadsOn

LEMMA NeedStays == FundInv /\ Funding!Need => FundInv'
<1> SUFFICES ASSUME FundInv, Funding!Need PROVE FundInv'
  OBVIOUS
<1>1. FundTyped
  BY DEF FundInv
<1>2. run.pc = "need" /\ UNCHANGED <<chain, prev, transit, file, landed, lost, paid>>
  BY DEF Funding!Need, Funding!At
<1>3. PICK v \in {chain, prev} :
         /\ Funding!Reads(v)
         /\ run' = IF run.needed <= v.bag THEN Funding!Goto("give")
                   ELSE IF file["test"].status = "done" THEN Funding!Goto("main")
                   ELSE [Funding!Goto("swap") EXCEPT !.stage = "test", !.amount = 0]
  BY DEF Funding!Need
<1>4. /\ v.bag \in Nat /\ chain.bag \in Nat /\ run.needed \in Nat /\ Given \in Nat /\ Wanted \in Nat
      /\ run \in FundRuns /\ 1 \in 1 .. N + 1
  BY <1>1, <1>3, ReadTyped, FundFields, BalanceFields, GivenTypes, FundConstants
<1>5. ~misled => run.needed + Given = Wanted
  BY <1>2 DEF FundInv, SpendPlan, RunPlan, RunSpyx, Buying
<1>6. CASE run.needed <= v.bag
  <2>1. run' \in FundRuns /\ run'.pc = "give"
    BY <1>1, <1>3, <1>6, Went
  <2>2. AtWallet' /\ RunPlan'
    BY <2>1 DEF AtWallet, RunPlan, SolPlan, RunSpyx, MainBuys, Buying, Swapping
  <2>3. ASSUME ~misled, v = chain PROVE chain.bag + Given >= Wanted
    BY <1>4, <1>5, <1>6, <2>3
  <2>4. ASSUME ~misled, v = chain PROVE RunTells'
    <3>1. chain'.bag + Given' >= Wanted'
      BY <1>1, <1>2, <2>3, <2>4, Unmoved
    <3> QED BY <2>1, <3>1 DEF RunTells, Swapping, Giving
  <2> QED BY <1>2, <1>3, <2>1, <2>2, <2>4, ReadsOn
<1>7. CASE ~(run.needed <= v.bag) /\ file["test"].status = "done"
  <2>1. /\ run' \in FundRuns /\ run'.pc = "main" /\ run'.needed = run.needed
    BY <1>1, <1>3, <1>7, Went
  <2>2. AtWallet' /\ RunTells'
    BY <1>2, <1>7, <2>1 DEF AtWallet, RunTells, Swapping, Giving
  <2>3. ASSUME ~misled PROVE RunPlan'
    <3>1. run'.needed + Given' = Wanted'
      BY <1>1, <1>2, <1>5, <2>1, <2>3, Unmoved
    <3> QED BY <2>1, <3>1 DEF RunPlan, SolPlan, RunSpyx, MainBuys, Buying, Swapping
  <2> QED BY <1>2, <1>3, <2>1, <2>2, <2>3, ReadsOn
<1>8. CASE ~(run.needed <= v.bag) /\ file["test"].status # "done"
  <2>1. run' = [Funding!Goto("swap") EXCEPT !.stage = "test", !.amount = 0]
    BY <1>3, <1>8
  <2>2. run' \in FundRuns /\ run'.pc = "swap" /\ run'.needed = run.needed /\ run'.stage = "test"
    BY <1>4, <2>1 DEF FundRuns, Funding!Goto, Funding!Stages
  <2>3. AtWallet' /\ RunTells'
    BY <1>2, <1>8, <2>2 DEF AtWallet, RunTells, Swapping, Giving
  <2>4. ASSUME ~misled, v = chain PROVE RunPlan'
    <3>1. run'.needed + Given' = Wanted'
      BY <1>1, <1>2, <1>5, <2>2, <2>4, Unmoved
    <3>2. chain'.bag < run'.needed
      BY <1>2, <1>4, <1>8, <2>2, <2>4
    <3> QED BY <2>2, <3>1, <3>2 DEF RunPlan, SolPlan, RunSpyx, MainBuys, Buying, Swapping
  <2> QED BY <1>2, <1>3, <2>2, <2>3, <2>4, ReadsOn
<1> QED BY <1>6, <1>7, <1>8

LEMMA MainStays == FundInv /\ Funding!Main => FundInv'
<1> SUFFICES ASSUME FundInv, Funding!Main PROVE FundInv'
  OBVIOUS
<1>1. FundTyped
  BY DEF FundInv
<1>2. run.pc = "main" /\ UNCHANGED <<chain, prev, transit, file, landed, lost, paid>>
  BY DEF Funding!Main, Funding!At
<1>3. PICK v \in {chain, prev} :
         /\ Funding!Reads(v)
         /\ run' = IF Funding!Remaining(v) = 0 THEN Funding!Goto("give")
                   ELSE [Funding!Goto("swap") EXCEPT !.stage = "main", !.amount = Funding!Remaining(v)]
  BY DEF Funding!Main
<1>4. /\ v.bag \in Nat /\ chain.bag \in Nat /\ run.needed \in Nat /\ Given \in Nat /\ Wanted \in Nat
      /\ run \in FundRuns /\ 1 \in 1 .. N + 1
  BY <1>1, <1>3, ReadTyped, FundFields, BalanceFields, GivenTypes, FundConstants
<1>5. Funding!Remaining(v) \in Nat
  BY <1>4, ShortTypes DEF Funding!Remaining
<1>6. ~misled => run.needed + Given = Wanted
  BY <1>2 DEF FundInv, SpendPlan, RunPlan, RunSpyx, Buying
<1>7. ~misled /\ ~lost => file["test"].status = "done"
  BY <1>2 DEF FundInv, RunTells
<1>8. CASE Funding!Remaining(v) = 0
  <2>1. run' \in FundRuns /\ run'.pc = "give"
    BY <1>1, <1>3, <1>8, Went
  <2>2. AtWallet' /\ RunPlan'
    BY <2>1 DEF AtWallet, RunPlan, SolPlan, RunSpyx, MainBuys, Buying, Swapping
  <2>3. ~misled /\ ~lost => RunTells'
    BY <1>2, <1>7, <2>1 DEF RunTells, Swapping, Giving
  <2> QED BY <1>2, <1>3, <2>1, <2>2, <2>3, ReadsOn
<1>9. CASE Funding!Remaining(v) # 0
  <2>1. run' = [Funding!Goto("swap") EXCEPT !.stage = "main", !.amount = Funding!Remaining(v)]
    BY <1>3, <1>9
  <2>2. /\ run' \in FundRuns /\ run'.pc = "swap" /\ run'.needed = run.needed /\ run'.stage = "main"
        /\ run'.amount = Funding!Remaining(v)
    BY <1>4, <1>5, <2>1 DEF FundRuns, Funding!Goto, Funding!Stages
  <2>3. AtWallet'
    BY <2>2 DEF AtWallet
  <2>4. ~misled /\ ~lost => RunTells'
    BY <1>2, <1>7, <2>2 DEF RunTells, Swapping, Giving
  <2>5. ASSUME ~misled, v = chain PROVE RunPlan'
    <3>1. run'.needed + Given' = Wanted'
      BY <1>1, <1>2, <1>6, <2>2, <2>5, Unmoved
    <3>2. chain'.bag + run'.amount = run'.needed
      BY <1>2, <1>4, <1>9, <2>2, <2>5 DEF Funding!Remaining, Funding!Short
    <3>3. run'.amount > 0
      BY <1>5, <1>9, <2>2
    <3> QED BY <2>2, <3>1, <3>2, <3>3 DEF RunPlan, SolPlan, RunSpyx, MainBuys, Buying, Swapping
  <2> QED BY <1>2, <1>3, <2>2, <2>3, <2>4, <2>5, ReadsOn
<1> QED BY <1>8, <1>9

LEMMA ReadHolderStays == FundInv /\ Funding!ReadHolder => FundInv'
<1> SUFFICES ASSUME FundInv, Funding!ReadHolder PROVE FundInv'
  OBVIOUS
<1>1. FundTyped
  BY DEF FundInv
<1>2. run.pc = "give" /\ run.w \in Funding!Wallets /\ UNCHANGED <<chain, prev, transit, file, landed, lost, paid>>
  BY DEF Funding!ReadHolder, Funding!At
<1>3. PICK v \in {chain, prev} :
         /\ Funding!Reads(v)
         /\ run' = IF run.w \notin Holders THEN Funding!NextWallet("give")
                   ELSE [run EXCEPT !.pc = IF run.w \in v.ata THEN "give2" ELSE "open",
                                    !.amount = Funding!Short(v.spyx[run.w], SpyxTarget)]
  BY DEF Funding!ReadHolder
<1>4. ~misled /\ ~lost => file["test"].status = "done" \/ chain'.bag + Given' >= Wanted'
  BY <1>1, <1>2, Unmoved DEF FundInv, RunTells, Giving
<1>5. CASE run.w \notin Holders
  <2>1. run' \in FundRuns /\ run'.pc = "give"
    BY <1>1, <1>2, <1>3, <1>5, WentOn
  <2>2. AtWallet' /\ RunPlan'
    BY <2>1 DEF AtWallet, RunPlan, SolPlan, RunSpyx, MainBuys, Buying, Swapping
  <2>3. ~misled /\ ~lost => RunTells'
    BY <1>2, <1>4, <2>1 DEF RunTells, Swapping, Giving
  <2> QED BY <1>2, <1>3, <2>1, <2>2, <2>3, ReadsOn
<1>6. CASE run.w \in Holders
  <2>1. /\ run' = [run EXCEPT !.pc = IF run.w \in v.ata THEN "give2" ELSE "open",
                              !.amount = Funding!Short(v.spyx[run.w], SpyxTarget)]
        /\ run \in FundRuns
    BY <1>1, <1>3, <1>6, FundFields
  <2>2. Funding!Short(v.spyx[run.w], SpyxTarget) \in Nat
    BY <1>1, <1>2, <1>3, ReadTyped, BalanceFields, FundConstants, ShortTypes
  <2>3. /\ run' \in FundRuns /\ run'.w = run.w /\ run'.pc = (IF run.w \in v.ata THEN "give2" ELSE "open")
        /\ run'.amount = Funding!Short(v.spyx[run.w], SpyxTarget)
    BY <2>1, <2>2 DEF FundRuns
  <2>4. AtWallet'
    BY <1>6, <2>3 DEF AtWallet
  <2>5. ~misled /\ ~lost => RunTells'
    BY <1>2, <1>4, <2>3 DEF RunTells, Swapping, Giving
  <2>6. ASSUME ~misled, v = chain PROVE RunPlan'
    <3>1. chain.spyx[run.w] \in Nat /\ SpyxTarget \in Nat /\ chain.spyx[run.w] <= SpyxTarget
      BY <1>1, <1>2, <1>6, <2>6, FundFields, BalanceFields, FundConstants DEF FundInv, SpendPlan, NoneOver
    <3>2. chain.spyx[run.w] + Funding!Short(chain.spyx[run.w], SpyxTarget) <= SpyxTarget
      BY <3>1, ShortTypes
    <3>3. chain'.spyx[run'.w] + run'.amount <= SpyxTarget
      BY <1>2, <2>3, <2>6, <3>2
    <3>4. run'.pc = "open" => run'.w \notin chain'.ata
      BY <1>2, <2>3, <2>6
    <3> QED BY <2>3, <3>3, <3>4 DEF RunPlan, SolPlan, RunSpyx, MainBuys, Buying, Swapping
  <2> QED BY <1>2, <1>3, <2>3, <2>4, <2>5, <2>6, ReadsOn
<1> QED BY <1>5, <1>6

LEMMA CheckBagStays == FundInv /\ Funding!CheckBag => FundInv'
<1> SUFFICES ASSUME FundInv, Funding!CheckBag PROVE FundInv'
  OBVIOUS
<1>1. FundTyped
  BY DEF FundInv
<1>2. run.pc = "give2" /\ UNCHANGED <<chain, prev, transit, file, landed, lost, paid>>
  BY DEF Funding!CheckBag, Funding!At
<1>3. PICK v \in {chain, prev} :
         /\ Funding!Reads(v)
         /\ run' = IF run.amount = 0 THEN Funding!NextWallet("give")
                   ELSE IF v.bag < run.amount THEN Funding!Off
                   ELSE [run EXCEPT !.pc = "sendSpyx"]
  BY DEF Funding!CheckBag
<1>4. ~misled /\ ~lost => file["test"].status = "done" \/ chain'.bag + Given' >= Wanted'
  BY <1>1, <1>2, Unmoved DEF FundInv, RunTells, Giving
<1>5. run.w \in Holders /\ run.w \in Funding!Wallets
  BY <1>1, <1>2, FundConstants DEF FundTyped, AtWallet
<1>6. CASE run' = Funding!NextWallet("give")
  <2>1. run' \in FundRuns /\ run'.pc = "give"
    BY <1>1, <1>5, <1>6, WentOn
  <2>2. AtWallet' /\ RunPlan'
    BY <2>1 DEF AtWallet, RunPlan, SolPlan, RunSpyx, MainBuys, Buying, Swapping
  <2>3. ~misled /\ ~lost => RunTells'
    BY <1>2, <1>4, <2>1 DEF RunTells, Swapping, Giving
  <2> QED BY <1>2, <1>3, <2>1, <2>2, <2>3, ReadsOn
<1>7. CASE run' = Funding!Off
  <2>1. run' \in FundRuns /\ run'.pc = "off"
    BY <1>7, OffTyped
  <2>2. RunPlan' /\ RunTells' /\ AtWallet'
    BY <2>1, Ended
  <2> QED BY <1>2, <1>3, <2>1, <2>2, ReadsOn
<1>8. CASE run' = [run EXCEPT !.pc = "sendSpyx"]
  <2>1. /\ run' \in FundRuns /\ run'.pc = "sendSpyx" /\ run'.w = run.w /\ run'.amount = run.amount
    BY <1>1, <1>8, FundFields DEF FundRuns
  <2>2. AtWallet'
    BY <1>5, <2>1 DEF AtWallet
  <2>3. ~misled /\ ~lost => RunTells'
    BY <1>2, <1>4, <2>1 DEF RunTells, Swapping, Giving
  <2>4. ASSUME ~misled PROVE RunPlan'
    <3>1. chain'.spyx[run'.w] + run'.amount <= SpyxTarget
      BY <1>2, <2>1, <2>4 DEF FundInv, SpendPlan, RunPlan, RunSpyx
    <3> QED BY <2>1, <3>1 DEF RunPlan, SolPlan, RunSpyx, MainBuys, Buying, Swapping
  <2> QED BY <1>2, <1>3, <2>1, <2>2, <2>3, <2>4, ReadsOn
<1> QED BY <1>3, <1>6, <1>7, <1>8

LEMMA VerifyStays == FundInv /\ Funding!Verify => FundInv'
<1> SUFFICES ASSUME FundInv, Funding!Verify PROVE FundInv'
  OBVIOUS
<1>1. FundTyped
  BY DEF FundInv
<1>2. run.pc = "give" /\ UNCHANGED <<chain, prev, transit, file, landed, lost, paid>>
  BY DEF Funding!Verify, Funding!At
<1>3. PICK v \in {chain, prev} :
         /\ Funding!Reads(v)
         /\ run' = IF Funding!Funded(v) /\ v.purse >= MinDeployer THEN [Funding!Off EXCEPT !.pc = "done"]
                   ELSE Funding!Off
  BY DEF Funding!Verify
<1>4. run' \in FundRuns /\ run'.pc \in {"off", "done"}
  BY <1>3, OffTyped DEF FundRuns, Funding!Off
<1>5. RunPlan' /\ RunTells' /\ AtWallet'
  BY <1>4, Ended
<1> QED BY <1>2, <1>3, <1>4, <1>5, ReadsOn

-----------------------------------------------------------------------------
(* A swap.                                                                 *)

LEMMA PutOnRecord ==
  ASSUME FundTyped, NEW status \in {"none", "pending", "done", "failed"}, NEW b \in Nat,
         file' = [file EXCEPT ![run.stage] = [status |-> status, before |-> b]]
  PROVE  /\ file' \in FundRecords
         /\ file'[run.stage] = [status |-> status, before |-> b]
         /\ file'[run.stage].status = status /\ file'[run.stage].before = b
         /\ \A s \in Funding!Stages : s # run.stage => file'[s] = file[s]
<1>1. file \in FundRecords /\ run.stage \in Funding!Stages
  BY FundFields
<1> QED BY <1>1 DEF FundRecords

\* What is put on record is true, and puts nothing else in doubt.
LEMMA RecordKeeps ==
  ASSUME FundTyped, RecordsSo, UNCHANGED <<chain, landed>>,
         NEW status \in {"pending", "done", "failed"}, NEW b \in Nat,
         file' = [file EXCEPT ![run.stage] = [status |-> status, before |-> b]],
         status = "done" => landed[run.stage] >= 1,
         status = "pending" => b >= chain.bag,
         run.stage = "main" => file["test"].status = "done",
         run.stage = "test" => status = "done" \/ (file["test"].status # "done" /\ landed["test"] = 0)
  PROVE  RecordsSo'
<1>1. /\ file'[run.stage].status = status /\ file'[run.stage].before = b
      /\ \A s \in Funding!Stages : s # run.stage => file'[s] = file[s]
  BY PutOnRecord
<1>2. run.stage \in {"test", "main"} /\ Funding!Stages = {"test", "main"} /\ chain.bag \in Nat
  BY FundFields, BalanceFields DEF Funding!Stages
<1>3. Given' = Given /\ Wanted' = Wanted /\ landed' = landed /\ chain' = chain
  BY Unmoved
<1>4. ASSUME NEW s \in Funding!Stages
      PROVE  /\ file'[s].status = "done" => landed'[s] >= 1
             /\ file'[s].status = "pending" /\ chain'.bag > file'[s].before => landed'[s] >= 1
  <2>1. CASE s = run.stage
    BY <1>1, <1>2, <1>3, <2>1
  <2>2. CASE s # run.stage
    BY <1>1, <1>3, <2>2 DEF RecordsSo
  <2> QED BY <2>1, <2>2
<1>5. file'["main"].status # "none" => file'["test"].status = "done"
  <2>1. CASE run.stage = "main"
    BY <1>1, <1>2, <2>1
  <2>2. CASE run.stage = "test"
    BY <1>1, <1>2, <2>2 DEF RecordsSo
  <2> QED BY <1>2, <2>1, <2>2
<1>6. landed'["test"] <= 1
  BY <1>3 DEF RecordsSo
<1>7. landed'["test"] >= 1 => \/ file'["test"].status = "done"
                              \/ file'["test"].status = "pending" /\ chain'.bag > file'["test"].before
                              \/ chain'.bag + Given' >= Wanted'
  <2>1. CASE run.stage = "main"
    BY <1>1, <1>2, <1>3, <2>1 DEF RecordsSo
  <2>2. CASE run.stage = "test"
    BY <1>1, <1>2, <1>3, <2>2
  <2> QED BY <1>2, <2>1, <2>2
<1> QED BY <1>4, <1>5, <1>6, <1>7 DEF RecordsSo

\* A step that reads, goes on and puts something on record.
LEMMA ReadsAndRecords ==
  ASSUME FundInv, NEW v \in {chain, prev}, Funding!Reads(v),
         UNCHANGED <<chain, prev, transit, landed, lost, paid>>,
         run.pc # "off", run' \in FundRuns, AtWallet', file' \in FundRecords,
         ~misled /\ v = chain => RunPlan',
         ~misled /\ ~lost /\ v = chain => RecordsSo' /\ RunTells'
  PROVE  FundInv'
<1>1. FundTyped
  BY DEF FundInv
<1>2. /\ fundFaults' \in 0 .. MaxFaults /\ misled' \in BOOLEAN
      /\ ~misled' => v = chain /\ ~misled
  BY <1>1, ReadTyped
<1>3. transit' \in Funding!Txs /\ lost' \in BOOLEAN
  BY <1>1, FundFields DEF FundTyped, Funding!TypeOK
<1> QED BY <1>2, <1>3, Continues

\* After a swap that is on record as landed the run goes on to the next stage.
LEMMA SwapRecorded ==
  ASSUME FundInv, NEW v \in {chain, prev}, Funding!Reads(v),
         UNCHANGED <<chain, prev, transit, landed, lost, paid>>,
         run.pc \in {"swap", "receipt"}, run' = Funding!AfterSwap, file' = Funding!Record(run.stage, "done"),
         ~misled /\ ~lost /\ v = chain => landed[run.stage] >= 1
  PROVE  FundInv'
<1>1. FundTyped
  BY DEF FundInv
<1>2. /\ run' \in FundRuns /\ run'.pc = (IF run.stage = "test" THEN "main" ELSE "give")
      /\ run'.needed = run.needed /\ run'.stage = run.stage
  BY <1>1, Went DEF Funding!AfterSwap
<1>3. file' = [file EXCEPT ![run.stage] = [status |-> "done", before |-> 0]] /\ run.stage \in {"test", "main"}
  BY <1>1, FundFields DEF Funding!Record, Funding!Stages
<1>4. /\ file' \in FundRecords /\ file'[run.stage].status = "done"
      /\ \A s \in Funding!Stages : s # run.stage => file'[s] = file[s]
  BY <1>1, <1>3, PutOnRecord
<1>5. AtWallet'
  BY <1>2 DEF AtWallet
<1>6. ASSUME ~misled PROVE RunPlan'
  <2>1. run'.needed + Given' = Wanted'
    BY <1>1, <1>2, <1>6, Unmoved DEF FundInv, SpendPlan, RunPlan, RunSpyx, Buying, Swapping
  <2> QED BY <1>2, <2>1 DEF RunPlan, SolPlan, RunSpyx, MainBuys, Buying, Swapping
<1>7. ASSUME ~misled, ~lost, v = chain PROVE RecordsSo' /\ RunTells'
  <2>1. RecordsSo /\ (run.stage = "main" => file["test"].status = "done")
    BY <1>7 DEF FundInv, RunTells, Swapping
  <2>2. RecordsSo'
    BY <1>1, <1>3, <1>7, <2>1, RecordKeeps
  <2>3. file'["test"].status = "done"
    BY <1>3, <1>4, <2>1 DEF Funding!Stages
  <2> QED BY <1>2, <2>2, <2>3 DEF RunTells, Swapping, Giving
<1> QED BY <1>2, <1>4, <1>5, <1>6, <1>7, ReadsAndRecords

LEMMA ResolveStays == FundInv /\ Funding!Resolve => FundInv'
<1> SUFFICES ASSUME FundInv, Funding!Resolve PROVE FundInv'
  OBVIOUS
<1>1. FundTyped
  BY DEF FundInv
<1>2. run.pc = "swap" /\ UNCHANGED <<chain, prev, transit, landed, lost, paid>>
  BY DEF Funding!Resolve, Funding!At
<1>3. PICK v \in {chain, prev} :
         /\ Funding!Reads(v)
         /\ IF Funding!InterruptedLanded(file[run.stage], v.bag)
            THEN run' = Funding!AfterSwap /\ file' = Funding!Record(run.stage, "done")
            ELSE run' = [run EXCEPT !.pc = "quote", !.before = v.bag] /\ UNCHANGED file
  BY DEF Funding!Resolve
<1>4. run.stage \in {"test", "main"} /\ run.stage \in Funding!Stages
  BY <1>1, FundFields DEF Funding!Stages
<1>5. CASE Funding!InterruptedLanded(file[run.stage], v.bag)
  <2>1. ASSUME ~misled, ~lost, v = chain PROVE landed[run.stage] >= 1
    BY <1>4, <1>5, <2>1 DEF FundInv, RecordsSo, Funding!InterruptedLanded
  <2> QED BY <1>2, <1>3, <1>5, <2>1, SwapRecorded
<1>6. CASE ~Funding!InterruptedLanded(file[run.stage], v.bag)
  <2>1. run' = [run EXCEPT !.pc = "quote", !.before = v.bag] /\ file' = file
    BY <1>3, <1>6
  <2>2. run \in FundRuns /\ v.bag \in Nat
    BY <1>1, <1>3, ReadTyped, FundFields, BalanceFields
  <2>3. /\ run' \in FundRuns /\ run'.pc = "quote" /\ run'.before = v.bag /\ run'.needed = run.needed
        /\ run'.stage = run.stage /\ run'.amount = run.amount
    BY <2>1, <2>2 DEF FundRuns
  <2>4. AtWallet'
    BY <2>3 DEF AtWallet
  <2>5. ASSUME ~misled, v = chain PROVE RunPlan'
    <3>1. run'.needed + Given' = Wanted'
      BY <1>1, <1>2, <2>3, <2>5, Unmoved DEF FundInv, SpendPlan, RunPlan, RunSpyx, Buying, Swapping
    <3>2. IF run'.stage = "test" THEN chain'.bag < run'.needed ELSE chain'.bag + run'.amount = run'.needed
      BY <1>2, <2>3, <2>5 DEF FundInv, SpendPlan, RunPlan, RunSpyx
    <3>3. run'.stage = "main" => run'.amount > 0
      BY <1>2, <2>3, <2>5 DEF FundInv, SpendPlan, RunPlan, MainBuys
    <3>4. run'.before = chain'.bag
      BY <1>2, <2>3, <2>5
    <3> QED BY <2>3, <3>1, <3>2, <3>3, <3>4 DEF RunPlan, SolPlan, RunSpyx, MainBuys, Buying, Swapping
  <2>6. ASSUME ~misled, ~lost, v = chain PROVE RunTells'
    <3>1. /\ run.stage = "main" => file["test"].status = "done"
          /\ run.stage = "test" => file["test"].status # "done"
      BY <1>2, <2>6 DEF FundInv, RunTells, Swapping
    <3>2. ASSUME run.stage = "test" PROVE landed["test"] = 0
      <4>1. ~(file["test"].status = "pending" /\ chain.bag > file["test"].before)
        BY <1>6, <2>6, <3>2 DEF Funding!InterruptedLanded
      <4>2. chain.bag < run.needed /\ run.needed + Given = Wanted
        BY <1>2, <2>6, <3>2 DEF FundInv, SpendPlan, RunPlan, RunSpyx, Buying, Swapping
      <4>3. chain.bag \in Nat /\ run.needed \in Nat /\ Given \in Nat /\ Wanted \in Nat /\ landed["test"] \in Nat
        BY <1>1, FundFields, BalanceFields, GivenTypes DEF Funding!Stages
      <4>4. ~(chain.bag + Given >= Wanted)
        BY <4>2, <4>3
      <4>5. ~(landed["test"] >= 1)
        BY <2>6, <3>1, <3>2, <4>1, <4>4 DEF FundInv, RecordsSo
      <4> QED BY <4>3, <4>5
    <3> QED BY <1>2, <2>1, <2>3, <3>1, <3>2 DEF RunTells, Swapping, Giving
  <2> QED BY <1>2, <1>3, <2>1, <2>3, <2>4, <2>5, <2>6, ReadsOn
<1> QED BY <1>5, <1>6

LEMMA QuoteStays == FundInv /\ Funding!Quote => FundInv'
<1> SUFFICES ASSUME FundInv, Funding!Quote PROVE FundInv'
  OBVIOUS
<1>1. FundTyped
  BY DEF FundInv
<1>2. run.pc = "quote" /\ UNCHANGED <<chain, prev, transit, landed, lost, paid>>
  BY DEF Funding!Quote, Funding!At
<1>3. PICK v \in {chain, prev}, q \in Funding!Quotes :
         /\ Funding!Reads(v)
         /\ IF Funding!LeavesDeployMoney(v, q.in)
            THEN /\ run' = [run EXCEPT !.pc = "execute", !.quote = q]
                 /\ file' = [file EXCEPT ![run.stage] = [status |-> "pending", before |-> run.before]]
            ELSE run' = Funding!Off /\ UNCHANGED file
  BY DEF Funding!Quote
<1>4. run.stage \in {"test", "main"} /\ run.stage \in Funding!Stages /\ run.before \in Nat /\ run.amount \in Nat /\ run \in FundRuns
  BY <1>1, FundFields DEF Funding!Stages
<1>5. /\ TestSize \in Nat /\ Slack \in Nat /\ Premium \in Nat /\ Slack < TestSize
  BY FundConstants
<1>6. /\ q \in [in : Nat, out : Nat, min : Nat]
      /\ q.min = IF run.stage = "test" THEN TestSize - Slack ELSE run.amount
      /\ q.out <= IF run.stage = "test" THEN TestSize ELSE run.amount + Slack
  <2>1. CASE run.stage = "test"
    <3>1. q = [in |-> TestSize, out |-> TestSize, min |-> TestSize - Slack]
      BY <1>3, <2>1 DEF Funding!Quotes
    <3>2. TestSize - Slack \in Nat
      BY <1>5
    <3> QED BY <1>5, <2>1, <3>1, <3>2
  <2>2. CASE run.stage # "test"
    <3>1. PICK s \in 0 .. Slack, p \in 0 .. Premium :
             q = [in |-> run.amount + s + p, out |-> run.amount + s, min |-> run.amount]
      BY <1>3, <2>2 DEF Funding!Quotes
    <3>2. run.amount + s + p \in Nat /\ run.amount + s \in Nat /\ run.amount + s <= run.amount + Slack
      BY <1>4, <1>5
    <3> QED BY <1>4, <2>2, <3>1, <3>2
  <2> QED BY <2>1, <2>2
<1>7. ASSUME ~misled, ~lost
      PROVE  /\ RecordsSo
             /\ run.stage = "main" => file["test"].status = "done"
             /\ run.stage = "test" => file["test"].status # "done" /\ landed["test"] = 0
  BY <1>2, <1>7 DEF FundInv, RunTells, Swapping
<1>8. CASE Funding!LeavesDeployMoney(v, q.in)
  <2>1. /\ run' = [run EXCEPT !.pc = "execute", !.quote = q]
        /\ file' = [file EXCEPT ![run.stage] = [status |-> "pending", before |-> run.before]]
    BY <1>3, <1>8
  <2>2. /\ run' \in FundRuns /\ run'.pc = "execute" /\ run'.quote = q /\ run'.before = run.before
        /\ run'.needed = run.needed /\ run'.stage = run.stage /\ run'.amount = run.amount
    BY <1>4, <1>6, <2>1 DEF FundRuns
  <2>3. AtWallet'
    BY <2>2 DEF AtWallet
  <2>4. /\ file' \in FundRecords /\ file'[run.stage] = [status |-> "pending", before |-> run.before]
        /\ file'[run.stage].status = "pending"
        /\ \A s \in Funding!Stages : s # run.stage => file'[s] = file[s]
    BY <1>1, <1>4, <2>1, PutOnRecord
  <2>5. ASSUME ~misled, v = chain PROVE RunPlan'
    <3>1. run'.needed + Given' = Wanted'
      BY <1>1, <1>2, <2>2, <2>5, Unmoved DEF FundInv, SpendPlan, RunPlan, RunSpyx, Buying, Swapping
    <3>2. IF run'.stage = "test" THEN chain'.bag < run'.needed ELSE chain'.bag + run'.amount = run'.needed
      BY <1>2, <2>2, <2>5 DEF FundInv, SpendPlan, RunPlan, RunSpyx
    <3>3. run'.stage = "main" => run'.amount > 0
      BY <1>2, <2>2, <2>5 DEF FundInv, SpendPlan, RunPlan, MainBuys
    <3>4. run'.before = chain'.bag
      BY <1>2, <2>2, <2>5 DEF FundInv, SpendPlan, RunPlan, RunSpyx
    <3>5. run'.quote.min > 0
      BY <1>4, <1>5, <1>6, <2>2, <3>3
    <3>6. run'.quote.out <= IF run'.stage = "test" THEN TestSize ELSE run'.amount + Slack
      BY <1>6, <2>2
    <3>7. chain'.purse - run'.quote.in >= MinDeployer
      BY <1>2, <1>8, <2>2, <2>5 DEF Funding!LeavesDeployMoney
    <3>8. SolPlan'
      BY <2>2, <3>7 DEF SolPlan
    <3> QED BY <2>2, <3>1, <3>2, <3>3, <3>4, <3>5, <3>6, <3>8 DEF RunPlan, RunSpyx, MainBuys, Buying, Swapping
  <2>6. ASSUME ~misled, ~lost, v = chain PROVE RecordsSo' /\ RunTells'
    <3>1. run.before = chain.bag /\ chain.bag \in Nat
      BY <1>1, <1>2, <2>6, FundFields, BalanceFields DEF FundInv, SpendPlan, RunPlan, RunSpyx
    <3>2. RecordsSo'
      <4>1. run.before >= chain.bag
        BY <3>1
      <4>2. /\ RecordsSo
            /\ run.stage = "main" => file["test"].status = "done"
            /\ run.stage = "test" => file["test"].status # "done" /\ landed["test"] = 0
        BY <1>7, <2>6
      <4> QED BY <1>1, <1>2, <1>4, <2>1, <4>1, <4>2, RecordKeeps
    <3>3. /\ run.stage = "main" => file'["test"].status = "done"
          /\ run.stage = "test" => file'["test"].status # "done" /\ landed'["test"] = 0
      BY <1>2, <1>7, <2>4, <2>6 DEF Funding!Stages
    <3> QED BY <2>2, <2>4, <3>2, <3>3 DEF RunTells, Swapping, Giving
  <2> QED BY <1>2, <1>3, <2>2, <2>3, <2>4, <2>5, <2>6, ReadsAndRecords
<1>9. CASE ~Funding!LeavesDeployMoney(v, q.in)
  <2>1. run' \in FundRuns /\ run'.pc = "off" /\ file' = file
    BY <1>3, <1>9, OffTyped
  <2>2. RunPlan' /\ RunTells' /\ AtWallet'
    BY <2>1, Ended
  <2> QED BY <1>2, <1>3, <2>1, <2>2, ReadsOn
<1> QED BY <1>8, <1>9

LEMMA QuoteRefusedStays == FundInv /\ Funding!QuoteRefused => FundInv'
<1> SUFFICES ASSUME FundInv, Funding!QuoteRefused PROVE FundInv'
  OBVIOUS
<1>1. FundTyped
  BY DEF FundInv
<1>2. /\ run.pc = "quote" /\ run' = Funding!Off /\ Funding!Fault /\ file' = Funding!Record(run.stage, "failed")
      /\ UNCHANGED <<chain, prev, transit, paid, misled, landed, lost>>
  BY DEF Funding!QuoteRefused, Funding!At, Funding!history
<1>3. run' \in FundRuns /\ run'.pc = "off" /\ fundFaults' \in 0 .. MaxFaults
  BY <1>1, <1>2, OffTyped, Faulted
<1>4. file' = [file EXCEPT ![run.stage] = [status |-> "failed", before |-> 0]] /\ file' \in FundRecords
  BY <1>1, <1>2, PutOnRecord DEF Funding!Record
<1>5. transit' \in Funding!Txs /\ lost' \in BOOLEAN /\ misled' \in BOOLEAN
  BY <1>1, <1>2, FundFields DEF FundTyped, Funding!TypeOK
<1>6. ASSUME ~misled', ~lost' PROVE RecordsSo'
  <2>1. /\ RecordsSo
        /\ run.stage = "main" => file["test"].status = "done"
        /\ run.stage = "test" => file["test"].status # "done" /\ landed["test"] = 0
    BY <1>2, <1>6 DEF FundInv, RunTells, Swapping
  <2> QED BY <1>1, <1>2, <1>4, <2>1, RecordKeeps
<1> QED BY <1>2, <1>3, <1>4, <1>5, <1>6, Rests

LEMMA ReceiptStays == FundInv /\ Funding!Receipt => FundInv'
<1> SUFFICES ASSUME FundInv, Funding!Receipt PROVE FundInv'
  OBVIOUS
<1>1. FundTyped
  BY DEF FundInv
<1>2. run.pc = "receipt" /\ UNCHANGED <<chain, prev, transit, landed, lost, paid>>
  BY DEF Funding!Receipt, Funding!At
<1>3. PICK v \in {chain, prev} :
         /\ Funding!Reads(v)
         /\ IF v.bag - run.before \in run.quote.min .. run.quote.out
            THEN run' = Funding!AfterSwap /\ file' = Funding!Record(run.stage, "done")
            ELSE run' = Funding!Off /\ file' = Funding!Record(run.stage, "failed")
  BY DEF Funding!Receipt
<1>4. CASE v.bag - run.before \in run.quote.min .. run.quote.out
  <2>1. ASSUME ~misled, ~lost PROVE landed[run.stage] >= 1
    BY <1>2, <2>1 DEF FundInv, RunTells
  <2> QED BY <1>2, <1>3, <1>4, <2>1, SwapRecorded
<1>5. CASE v.bag - run.before \notin run.quote.min .. run.quote.out
  <2>1. run' \in FundRuns /\ run'.pc = "off" /\ file' = Funding!Record(run.stage, "failed")
    BY <1>3, <1>5, OffTyped
  <2>2. RunPlan' /\ RunTells' /\ AtWallet'
    BY <2>1, Ended
  <2>3. file' \in FundRecords
    BY <1>1, <2>1, PutOnRecord DEF Funding!Record
  <2>4. ASSUME ~misled, v = chain PROVE FALSE
    BY <1>2, <1>5, <2>4 DEF FundInv, SpendPlan, RunPlan, RunSpyx
  <2> QED BY <1>2, <1>3, <2>1, <2>2, <2>3, <2>4, ReadsAndRecords
<1> QED BY <1>4, <1>5

-----------------------------------------------------------------------------
(* The steps that send.                                                    *)

LEMMA ChainMoves ==
  ASSUME FundInv, chain' \in Funding!Balances, prev' = chain, landed' \in [Funding!Stages -> Nat],
         run' \in FundRuns, AtWallet', UNCHANGED <<file, misled, lost, transit>>, paid' = paid + 1,
         fundFaults' = fundFaults \/ Funding!Fault,
         ~misled => /\ NoneOver' /\ NotOver' /\ RunPlan'
                    /\ chain'.purse >= MinDeployer - AtaRent * Cardinality(chain'.ata) - Fees',
         ~misled /\ ~lost => RecordsSo' /\ RunTells'
  PROVE  FundInv'
<1>1. FundTyped
  BY DEF FundInv
<1>2. paid' \in Nat /\ fundFaults' \in 0 .. MaxFaults
  BY <1>1, FundFields, Faulted DEF FundTyped, Funding!TypeOK
<1>3. FundTyped'
  BY <1>1, <1>2, FundFields DEF FundTyped, Funding!TypeOK, FundRuns
<1>4. ASSUME ~misled PROVE SpendPlan'
  BY <1>4 DEF SpendPlan, Kept
<1> QED BY <1>3, <1>4 DEF FundInv

\* A transaction that leaves the bag and what was given alone leaves the record true.
LEMMA RecordsStand ==
  ASSUME FundTyped, RecordsSo, UNCHANGED <<file, landed>>, chain'.bag = chain.bag, Given' = Given
  PROVE  RecordsSo'
<1>1. Wanted' = Wanted
  BY DEF Wanted
<1> QED BY <1>1 DEF RecordsSo

\* A transaction that fails on chain costs its fee and moves nothing.
LEMMA OnlyTheFee ==
  ASSUME FundInv, run.pc # "off", UNCHANGED <<file, misled, lost, landed, transit>>, Funding!Fault,
         chain.purse >= TxFee, chain' = [chain EXCEPT !.purse = @ - TxFee], prev' = chain,
         paid' = paid + 1, run' = Funding!Off
  PROVE  FundInv'
<1>1. FundTyped
  BY DEF FundInv
<1>2. /\ chain \in Funding!Balances /\ chain.purse \in Nat /\ chain.purse - TxFee \in Nat
      /\ landed \in [Funding!Stages -> Nat] 
  BY <1>1, FundFields, BalanceFields, FeesOfRun
<1>3. /\ chain' \in Funding!Balances /\ chain'.purse = chain.purse - TxFee
      /\ chain'.spyx = chain.spyx /\ chain'.sol = chain.sol /\ chain'.ata = chain.ata /\ chain'.bag = chain.bag
      /\ chain'.bagOpen = chain.bagOpen
  BY <1>2 DEF Funding!Balances
<1>4. run' \in FundRuns /\ run'.pc = "off"
  BY OffTyped
<1>5. RunPlan' /\ RunTells' /\ AtWallet'
  BY <1>4, Ended
<1>6. Given' = Given /\ Wanted' = Wanted /\ More' = More
  BY <1>3 DEF Given, Wanted, More
<1>7. ASSUME ~misled
      PROVE  /\ NoneOver' /\ NotOver' /\ RunPlan'
             /\ chain'.purse >= MinDeployer - AtaRent * Cardinality(chain'.ata) - Fees'
  <2>1. SpendPlan
    BY <1>7 DEF FundInv
  <2>2. NoneOver' /\ NotOver'
    BY <1>3, <1>6, <2>1 DEF SpendPlan, NoneOver, NotOver
  <2>3. chain.purse >= MinDeployer - AtaRent * Cardinality(chain.ata) - Fees
    BY <2>1, KeptNow DEF SpendPlan
  <2>4. Fees' = Fees + TxFee
    BY <1>1, FeesOfRun
  <2>5. chain'.purse >= MinDeployer - AtaRent * Cardinality(chain'.ata) - Fees'
    BY <1>1, <1>3, <2>3, <2>4, KeptLess
  <2> QED BY <1>5, <2>2, <2>5
<1>8. ~misled /\ ~lost => RecordsSo' /\ RunTells'
  BY <1>1, <1>3, <1>5, <1>6, RecordsStand DEF FundInv
<1> QED BY <1>2, <1>3, <1>4, <1>5, <1>7, <1>8, ChainMoves

\* What is refused, fails on chain or is not heard of ends the command.
LEMMA Sending ==
  ASSUME FundInv, NEW t \in Funding!Txs, NEW next, Funding!Sends(t, next), UNCHANGED <<file, misled, lost>>,
         run.pc # "off",
         /\ Funding!Valid(chain, t) /\ chain' = Funding!After(chain, t) /\ prev' = chain
         /\ landed' = Funding!LandedAfter(t) /\ run' = next /\ UNCHANGED <<transit, fundFaults>> /\ paid' = paid + 1
         => FundInv'
  PROVE  FundInv'
<1>1. FundTyped
  BY DEF FundInv
<1>2. /\ file' \in FundRecords /\ lost' \in BOOLEAN /\ misled' \in BOOLEAN
      /\ transit \in Funding!Txs /\ fundFaults \in 0 .. MaxFaults
  BY <1>1, FundFields DEF FundTyped, Funding!TypeOK
<1>3. ASSUME run' = Funding!Off, UNCHANGED <<chain, prev, landed, paid>>, transit' \in Funding!Txs,
             fundFaults' \in 0 .. MaxFaults
      PROVE  FundInv'
  <2>1. run' \in FundRuns /\ run'.pc = "off"
    BY <1>3, OffTyped
  <2>2. ~misled' /\ ~lost' => RecordsSo'
    BY <1>1, <1>3, Unmoved DEF FundInv, RecordsSo
  <2> QED BY <1>2, <1>3, <2>1, <2>2, Rests
<1>4. CASE /\ ~Funding!Valid(chain, t)
           /\ run' = Funding!Off
           /\ UNCHANGED <<chain, prev, landed, transit, fundFaults, paid>>
  BY <1>2, <1>3, <1>4
<1>5. CASE /\ Funding!Fault
           /\ transit = Funding!NoTx /\ transit' = t
           /\ run' = Funding!Off
           /\ UNCHANGED <<chain, prev, landed, paid>>
  BY <1>1, <1>3, <1>5, Faulted
<1>6. CASE /\ Funding!Fault
           /\ chain.purse >= TxFee
           /\ chain' = [chain EXCEPT !.purse = @ - TxFee] /\ prev' = chain
           /\ paid' = paid + 1
           /\ run' = Funding!Off
           /\ UNCHANGED <<landed, transit>>
  BY <1>6, OnlyTheFee
<1> QED BY <1>4, <1>5, <1>6 DEF Funding!Sends

LEMMA SendSolStays == FundInv /\ Funding!SendSol => FundInv'
<1> SUFFICES ASSUME FundInv, Funding!SendSol PROVE FundInv'
  OBVIOUS
<1> DEFINE tx == [kind |-> "sol", to |-> run.w, amount |-> run.amount]
<1>1. FundTyped
  BY DEF FundInv
<1>2. /\ run.pc = "sendSol" /\ Funding!Sends(tx, Funding!NextWallet("sol"))
      /\ UNCHANGED <<file, misled, lost>>
  BY DEF Funding!SendSol, Funding!At
<1>3. run.w \in Funding!Wallets /\ run.amount \in Nat
  BY <1>1, <1>2, FundFields DEF FundTyped, AtWallet
<1>4. tx \in Funding!Txs
  BY <1>3 DEF Funding!Txs
<1>5. ASSUME /\ Funding!Valid(chain, tx) /\ chain' = Funding!After(chain, tx) /\ prev' = chain
             /\ landed' = Funding!LandedAfter(tx) /\ run' = Funding!NextWallet("sol")
             /\ UNCHANGED <<transit, fundFaults>> /\ paid' = paid + 1
      PROVE  FundInv'
  <2>0. Fees \in Nat /\ TxFee \in Nat /\ Fees' = Fees + TxFee
    BY <1>1, <1>5, FeesOfRun
  <2>1. /\ chain' \in Funding!Balances
        /\ chain'.purse = chain.purse - run.amount - TxFee
        /\ chain'.sol = [chain.sol EXCEPT ![run.w] = chain.sol[run.w] + run.amount]
        /\ chain'.spyx = chain.spyx /\ chain'.ata = chain.ata /\ chain'.bag = chain.bag
        /\ chain'.bagOpen = chain.bagOpen
    BY <1>1, <1>3, <1>5, SolLands
  <2>2. landed' = landed /\ landed \in [Funding!Stages -> Nat]
    BY <1>1, <1>5, FundFields DEF Funding!LandedAfter
  <2>3. /\ run' \in FundRuns /\ run'.pc = "sol" /\ run'.needed = run.needed /\ run'.stage = run.stage
    BY <1>1, <1>3, <1>5, WentOn
  <2>4. AtWallet' /\ RunTells'
    BY <2>3 DEF AtWallet, RunTells, Swapping, Giving
  <2>5. Given' = Given /\ Wanted' = Wanted /\ More' = More
    BY <2>1 DEF Given, Wanted, More
  <2>6. /\ chain.sol \in [Funding!Wallets -> Nat] /\ chain.purse \in Nat /\ chain.ata \subseteq Holders
        /\ SolTarget \in Nat /\ MinDeployer \in Nat /\ AtaRent \in Nat
        /\ Funding!SolShort(chain) \in Nat /\ Funding!SolShort(chain') \in Nat
    BY <1>1, <2>1, FundFields, BalanceFields, FundConstants, ShortSums
  <2>7. ASSUME ~misled
        PROVE  /\ NoneOver' /\ NotOver' /\ RunPlan'
               /\ chain'.purse >= MinDeployer - AtaRent * Cardinality(chain'.ata) - Fees'
    <3>1. SpendPlan
      BY <2>7 DEF FundInv
    <3>2. run.amount = SolTarget - chain.sol[run.w] /\ chain.sol[run.w] + run.amount = SolTarget
      <4>1. run.amount = SolTarget - chain.sol[run.w]
        BY <1>2, <3>1 DEF SpendPlan, RunPlan, SolPlan
      <4>2. chain.sol[run.w] \in Nat
        BY <1>3, <2>6
      <4> QED BY <1>3, <2>6, <4>1, <4>2
    <3>3. chain.purse + Fees >= MinDeployer + Funding!SolShort(chain) + (IF chain.bagOpen THEN 0 ELSE AtaRent)
      BY <1>2, <3>1 DEF SpendPlan, RunPlan, SolPlan
    <3>4. Funding!SolShort(chain') = Funding!SolShort(chain) - run.amount
      <4>1. chain.sol[run.w] + run.amount <= SolTarget
        BY <2>6, <3>2
      <4> QED BY <1>1, <1>3, <2>1, <4>1, SolServed
    <3>5. chain'.purse + Fees' >= MinDeployer + Funding!SolShort(chain') + (IF chain'.bagOpen THEN 0 ELSE AtaRent)
      BY <1>3, <2>0, <2>1, <2>6, <3>3, <3>4
    <3>6. chain'.purse + Fees' >= MinDeployer /\ chain'.purse \in Int /\ Fees' \in Nat
      BY <2>0, <2>1, <2>6, <3>5, BalanceFields
    <3>7. chain'.purse >= MinDeployer - AtaRent * Cardinality(chain'.ata) - Fees'
      BY <1>1, <2>1, <2>6, <3>6, KeptRoom
    <3>8. NoneOver'
      <4>1. ASSUME NEW w \in Funding!Wallets
            PROVE  chain'.sol[w] <= SolTarget /\ chain'.spyx[w] <= Funding!Target(w)
        <5>1. chain.sol[w] <= SolTarget /\ chain.spyx[w] <= Funding!Target(w)
          BY <3>1 DEF SpendPlan, NoneOver
        <5>2. chain'.sol[w] = IF w = run.w THEN SolTarget ELSE chain.sol[w]
          BY <2>1, <2>6, <3>2
        <5> QED BY <2>1, <2>6, <5>1, <5>2
      <4> QED BY <4>1 DEF NoneOver, Funding!Wallets, Funding!Target
    <3>9. NotOver'
      BY <2>1, <2>5, <3>1 DEF SpendPlan, NotOver
    <3>10. SolPlan'
      BY <2>3, <3>5 DEF SolPlan
    <3>11. run'.needed + Given' = Wanted'
      BY <1>2, <2>3, <2>5, <3>1 DEF SpendPlan, RunPlan, RunSpyx, Buying
    <3>12. RunSpyx' /\ MainBuys'
      BY <2>3, <3>11 DEF RunSpyx, MainBuys, Buying, Swapping
    <3> QED BY <3>7, <3>8, <3>9, <3>10, <3>12 DEF RunPlan
  <2>8. ~misled /\ ~lost => RecordsSo' /\ RunTells'
    BY <1>1, <1>2, <2>1, <2>2, <2>4, <2>5, RecordsStand DEF FundInv
  <2> QED BY <1>2, <1>5, <2>1, <2>2, <2>3, <2>4, <2>7, <2>8, ChainMoves
<1> HIDE DEF tx
<1> QED BY <1>2, <1>4, <1>5, Sending

LEMMA OpenBagStays == FundInv /\ Funding!OpenBag => FundInv'
<1> SUFFICES ASSUME FundInv, Funding!OpenBag PROVE FundInv'
  OBVIOUS
<1> DEFINE tx == [kind |-> "bag"]
<1>1. FundTyped
  BY DEF FundInv
<1>2. /\ run.pc = "openBag" /\ Funding!Sends(tx, Funding!Goto("need"))
      /\ UNCHANGED <<file, misled, lost>>
  BY DEF Funding!OpenBag, Funding!At
<1>3. tx \in Funding!Txs
  BY DEF Funding!Txs
<1>4. ASSUME /\ Funding!Valid(chain, tx) /\ chain' = Funding!After(chain, tx) /\ prev' = chain
             /\ landed' = Funding!LandedAfter(tx) /\ run' = Funding!Goto("need")
             /\ UNCHANGED <<transit, fundFaults>> /\ paid' = paid + 1
      PROVE  FundInv'
  <2>0. Fees \in Nat /\ TxFee \in Nat /\ Fees' = Fees + TxFee
    BY <1>1, <1>4, FeesOfRun
  <2>1. /\ chain' \in Funding!Balances
        /\ chain'.purse = chain.purse - TxFee - (IF chain.bagOpen THEN 0 ELSE AtaRent)
        /\ chain'.spyx = chain.spyx /\ chain'.sol = chain.sol /\ chain'.ata = chain.ata /\ chain'.bag = chain.bag
        /\ chain'.bagOpen
    BY <1>1, <1>4, BagOpens
  <2>2. landed' = landed /\ landed \in [Funding!Stages -> Nat]
    BY <1>1, <1>4, FundFields DEF Funding!LandedAfter
  <2>3. run' \in FundRuns /\ run'.pc = "need" /\ run'.needed = run.needed /\ run'.stage = run.stage
    BY <1>1, <1>4, Went
  <2>4. AtWallet' /\ RunTells'
    BY <2>3 DEF AtWallet, RunTells, Swapping, Giving
  <2>5. Given' = Given /\ Wanted' = Wanted /\ More' = More
    BY <2>1 DEF Given, Wanted, More
  <2>6. /\ chain.purse \in Nat /\ chain.ata \subseteq Holders
        /\ MinDeployer \in Nat /\ AtaRent \in Nat /\ Funding!SolShort(chain) \in Nat
    BY <1>1, FundFields, BalanceFields, FundConstants, ShortSums
  <2>7. ASSUME ~misled
        PROVE  /\ NoneOver' /\ NotOver' /\ RunPlan'
               /\ chain'.purse >= MinDeployer - AtaRent * Cardinality(chain'.ata) - Fees'
    <3>1. SpendPlan
      BY <2>7 DEF FundInv
    <3>2. /\ chain.purse + Fees >= MinDeployer + Funding!SolShort(chain) + (IF chain.bagOpen THEN 0 ELSE AtaRent)
          /\ ~chain.bagOpen
      BY <1>2, <3>1 DEF SpendPlan, RunPlan, SolPlan
    <3>3. chain'.purse + Fees' >= MinDeployer /\ chain'.purse \in Int /\ Fees' \in Nat
      BY <2>0, <2>1, <2>6, <3>2
    <3>4. chain'.purse >= MinDeployer - AtaRent * Cardinality(chain'.ata) - Fees'
      BY <1>1, <2>1, <2>6, <3>3, KeptRoom
    <3>5. NoneOver' /\ NotOver'
      BY <2>1, <2>5, <3>1 DEF SpendPlan, NoneOver, NotOver
    <3>6. run'.needed + Given' = Wanted'
      BY <1>2, <2>3, <2>5, <3>1 DEF SpendPlan, RunPlan, RunSpyx, Buying
    <3>7. RunPlan'
      BY <2>3, <3>6 DEF RunPlan, SolPlan, RunSpyx, MainBuys, Buying, Swapping
    <3> QED BY <3>4, <3>5, <3>7
  <2>8. ~misled /\ ~lost => RecordsSo' /\ RunTells'
    BY <1>1, <1>2, <2>1, <2>2, <2>4, <2>5, RecordsStand DEF FundInv
  <2> QED BY <1>2, <1>4, <2>1, <2>2, <2>3, <2>4, <2>7, <2>8, ChainMoves
<1> HIDE DEF tx
<1> QED BY <1>2, <1>3, <1>4, Sending

LEMMA ExecuteStays == FundInv /\ Funding!Execute => FundInv'
<1> SUFFICES ASSUME FundInv, Funding!Execute PROVE FundInv'
  OBVIOUS
<1>1. FundTyped
  BY DEF FundInv
<1>2. run.pc = "execute" /\ UNCHANGED <<file, misled, lost>>
  BY DEF Funding!Execute, Funding!At
<1>3. PICK got \in run.quote.min .. run.quote.out :
         Funding!Sends([kind |-> "swap", stage |-> run.stage, in |-> run.quote.in, out |-> got],
                       Funding!Goto("receipt"))
  BY DEF Funding!Execute
<1> DEFINE tx == [kind |-> "swap", stage |-> run.stage, in |-> run.quote.in, out |-> got]
<1>4. /\ run.stage \in {"test", "main"} /\ Funding!Stages = {"test", "main"}
      /\ run.quote.in \in Nat /\ run.quote.min \in Nat /\ run.quote.out \in Nat
      /\ run.needed \in Nat /\ run.before \in Nat /\ run.amount \in Nat
      /\ chain.bag \in Nat /\ chain.purse \in Nat /\ chain.ata \subseteq Holders
      /\ landed \in [Funding!Stages -> Nat]
  BY <1>1, FundFields, BalanceFields DEF Funding!Stages
<1>5. got \in Nat /\ got >= run.quote.min /\ got <= run.quote.out
  BY <1>3, <1>4
<1>6. tx \in Funding!Txs
  BY <1>4, <1>5 DEF Funding!Txs
<1>7. ASSUME /\ Funding!Valid(chain, tx) /\ chain' = Funding!After(chain, tx) /\ prev' = chain
             /\ landed' = Funding!LandedAfter(tx) /\ run' = Funding!Goto("receipt")
             /\ UNCHANGED <<transit, fundFaults>> /\ paid' = paid + 1
      PROVE  FundInv'
  <2>0. Fees \in Nat /\ TxFee \in Nat /\ Fees' = Fees + TxFee
    BY <1>1, <1>7, FeesOfRun
  <2>1. /\ chain' \in Funding!Balances
        /\ chain'.purse = chain.purse - run.quote.in - TxFee /\ chain'.bag = chain.bag + got
        /\ chain'.spyx = chain.spyx /\ chain'.sol = chain.sol /\ chain'.ata = chain.ata
        /\ chain'.bagOpen = chain.bagOpen
    BY <1>1, <1>4, <1>5, <1>7, SwapLands
  <2>2. landed' = [landed EXCEPT ![run.stage] = @ + 1]
    BY <1>7 DEF Funding!LandedAfter
  <2>3. /\ landed' \in [Funding!Stages -> Nat]
        /\ landed'[run.stage] = landed[run.stage] + 1
        /\ \A s \in Funding!Stages : landed[s] \in Nat /\ (s # run.stage => landed'[s] = landed[s])
    BY <1>4, <2>2
  <2>4. /\ run' \in FundRuns /\ run'.pc = "receipt" /\ run'.needed = run.needed /\ run'.stage = run.stage
        /\ run'.before = run.before /\ run'.quote = run.quote /\ run'.amount = run.amount
    BY <1>1, <1>7, Went
  <2>5. AtWallet'
    BY <2>4 DEF AtWallet
  <2>6. /\ Given' = Given /\ Wanted' = Wanted /\ More' = More
        /\ Given \in Nat /\ Wanted \in Nat /\ MinDeployer \in Nat /\ TestSize \in Nat /\ Slack \in Nat
    BY <1>1, <2>1, GivenTypes, FundConstants DEF Given, Wanted, More
  <2>7. ASSUME ~misled
        PROVE  /\ run.before = chain.bag /\ run.quote.min > 0
               /\ run.needed + Given = Wanted
               /\ IF run.stage = "test" THEN chain.bag < run.needed ELSE chain.bag + run.amount = run.needed
               /\ run.quote.out <= (IF run.stage = "test" THEN TestSize ELSE run.amount + Slack)
               /\ chain.purse - run.quote.in >= MinDeployer
               /\ NoneOver
    BY <1>2, <2>7 DEF FundInv, SpendPlan, RunPlan, SolPlan, RunSpyx, Buying, Swapping
  <2>8. ASSUME ~misled
        PROVE  /\ NoneOver' /\ NotOver' /\ RunPlan'
               /\ chain'.purse >= MinDeployer - AtaRent * Cardinality(chain'.ata) - Fees'
    <3>1. chain'.purse + Fees' >= MinDeployer /\ chain'.purse \in Int /\ Fees' \in Nat
      BY <1>4, <2>0, <2>1, <2>6, <2>7, <2>8
    <3>2. chain'.purse >= MinDeployer - AtaRent * Cardinality(chain'.ata) - Fees'
      BY <1>1, <1>4, <2>1, <3>1, KeptRoom
    <3>3. NoneOver'
      BY <2>1, <2>7, <2>8 DEF NoneOver
    <3>4. chain.bag + got + Given <= Wanted + More
      <4>1. CASE run.stage = "test"
        <5>1. chain.bag + got + Given <= Wanted + (TestSize - 1)
          BY <1>4, <1>5, <2>6, <2>7, <2>8, <4>1
        <5> QED BY <1>4, <1>5, <2>6, <5>1 DEF More
      <4>2. CASE run.stage # "test"
        <5>1. chain.bag + got + Given <= Wanted + Slack
          BY <1>4, <1>5, <2>6, <2>7, <2>8, <4>2
        <5> QED BY <1>4, <1>5, <2>6, <5>1 DEF More
      <4> QED BY <4>1, <4>2
    <3>5. NotOver'
      BY <2>1, <2>6, <3>4 DEF NotOver
    <3>6. run'.needed + Given' = Wanted'
      BY <2>4, <2>6, <2>7, <2>8
    <3>7. chain'.bag - run'.before \in run'.quote.min .. run'.quote.out
      BY <1>4, <1>5, <2>1, <2>4, <2>7, <2>8
    <3>8. RunPlan'
      BY <2>4, <3>6, <3>7 DEF RunPlan, SolPlan, RunSpyx, MainBuys, Buying, Swapping
    <3> QED BY <3>2, <3>3, <3>5, <3>8
  <2>9. ASSUME ~misled, ~lost
        PROVE  RecordsSo' /\ RunTells'
    <3>1. /\ RecordsSo /\ file[run.stage] = [status |-> "pending", before |-> run.before]
          /\ run.stage = "main" => file["test"].status = "done"
          /\ run.stage = "test" => file["test"].status # "done" /\ landed["test"] = 0
      BY <1>2, <2>9 DEF FundInv, RunTells, Swapping
    <3>2. file[run.stage].status = "pending" /\ file[run.stage].before = chain.bag
      BY <2>7, <2>9, <3>1
    <3>3. chain'.bag > chain.bag
      BY <1>4, <1>5, <2>1, <2>7, <2>9
    <3>4. landed'[run.stage] >= 1
      BY <1>4, <2>3
    <3>5. ASSUME NEW s \in Funding!Stages
          PROVE  /\ file[s].status = "done" => landed'[s] >= 1
                 /\ file[s].status = "pending" /\ chain'.bag > file[s].before => landed'[s] >= 1
      <4>1. CASE s = run.stage
        BY <3>4, <4>1
      <4>2. CASE s # run.stage
        <5>1. file[s].status = "done" => landed'[s] >= 1
          BY <2>3, <3>1, <4>2 DEF RecordsSo
        <5>2. file[s].status # "pending"
          <6>1. CASE run.stage = "main"
            BY <1>4, <3>1, <4>2, <6>1
          <6>2. CASE run.stage = "test"
            <7>1. s = "main"
              BY <1>4, <4>2, <6>2
            <7>2. file["main"].status = "none"
              BY <3>1, <6>2 DEF RecordsSo
            <7> QED BY <7>1, <7>2
          <6> QED BY <1>4, <6>1, <6>2
        <5> QED BY <5>1, <5>2
      <4> QED BY <4>1, <4>2
    <3>6. landed'["test"] <= 1
      <4>1. CASE run.stage = "main"
        BY <1>4, <2>3, <3>1, <4>1 DEF RecordsSo
      <4>2. CASE run.stage = "test"
        BY <1>4, <2>3, <3>1, <4>2
      <4> QED BY <1>4, <4>1, <4>2
    <3>7. \/ file["test"].status = "done"
          \/ file["test"].status = "pending" /\ chain'.bag > file["test"].before
      <4>1. CASE run.stage = "main"
        BY <3>1, <4>1
      <4>2. CASE run.stage = "test"
        BY <3>2, <3>3, <4>2
      <4> QED BY <1>4, <4>1, <4>2
    <3>8. file["main"].status # "none" => file["test"].status = "done"
      BY <3>1 DEF RecordsSo
    <3>9. file' = file
      BY <1>2
    <3>10. RecordsSo'
      BY <3>5, <3>6, <3>7, <3>8, <3>9 DEF RecordsSo
    <3>11. RunTells'
      BY <2>4, <3>1, <3>2, <3>4, <3>9 DEF RunTells, Swapping, Giving
    <3> QED BY <3>10, <3>11
  <2> QED BY <1>2, <1>7, <2>1, <2>3, <2>4, <2>5, <2>8, <2>9, ChainMoves
<1> HIDE DEF tx
<1>8. Funding!Sends(tx, Funding!Goto("receipt"))
  BY <1>3 DEF tx
<1>9. UNCHANGED <<file, misled, lost>> /\ run.pc # "off"
  BY <1>2
<1> QED BY <1>6, <1>7, <1>8, <1>9, Sending

LEMMA OpenHolderStays == FundInv /\ Funding!OpenHolder => FundInv'
<1> SUFFICES ASSUME FundInv, Funding!OpenHolder PROVE FundInv'
  OBVIOUS
<1> DEFINE tx == [kind |-> "ata", to |-> run.w]
<1>1. FundTyped
  BY DEF FundInv
<1>2. /\ run.pc = "open" /\ Funding!Sends(tx, [run EXCEPT !.pc = "give2"])
      /\ UNCHANGED <<file, misled, lost>>
  BY DEF Funding!OpenHolder, Funding!At
<1>3. run.w \in Holders
  BY <1>1, <1>2 DEF FundTyped, AtWallet
<1>4. tx \in Funding!Txs
  BY <1>3 DEF Funding!Txs
<1>5. ASSUME /\ Funding!Valid(chain, tx) /\ chain' = Funding!After(chain, tx) /\ prev' = chain
             /\ landed' = Funding!LandedAfter(tx) /\ run' = [run EXCEPT !.pc = "give2"]
             /\ UNCHANGED <<transit, fundFaults>> /\ paid' = paid + 1
      PROVE  FundInv'
  <2>0. Fees \in Nat /\ TxFee \in Nat /\ Fees' = Fees + TxFee
    BY <1>1, <1>5, FeesOfRun
  <2>1. /\ chain' \in Funding!Balances
        /\ chain'.purse = chain.purse - TxFee - (IF run.w \in chain.ata THEN 0 ELSE AtaRent)
        /\ chain'.spyx = chain.spyx /\ chain'.sol = chain.sol /\ chain'.ata = chain.ata \cup {run.w}
        /\ chain'.bag = chain.bag /\ chain'.bagOpen = chain.bagOpen
    BY <1>1, <1>3, <1>5, AtaOpens
  <2>2. landed' = landed /\ landed \in [Funding!Stages -> Nat]
    BY <1>1, <1>5, FundFields DEF Funding!LandedAfter
  <2>3. run' \in FundRuns /\ run'.pc = "give2" /\ run'.w = run.w /\ run'.amount = run.amount
    BY <1>1, <1>5, FundFields DEF FundRuns
  <2>4. AtWallet'
    BY <1>3, <2>3 DEF AtWallet
  <2>5. Given' = Given /\ Wanted' = Wanted /\ More' = More
    BY <2>1 DEF Given, Wanted, More
  <2>6. /\ chain.purse \in Nat /\ chain.ata \subseteq Holders
        /\ MinDeployer \in Nat /\ AtaRent \in Nat /\ IsFiniteSet(Holders)
    BY <1>1, FundFields, BalanceFields, FundConstants
  <2>7. ASSUME ~misled
        PROVE  /\ NoneOver' /\ NotOver' /\ RunPlan'
               /\ chain'.purse >= MinDeployer - AtaRent * Cardinality(chain'.ata) - Fees'
    <3>1. SpendPlan
      BY <2>7 DEF FundInv
    <3>2. run.w \notin chain.ata /\ chain.spyx[run.w] + run.amount <= SpyxTarget
      BY <1>2, <3>1 DEF SpendPlan, RunPlan, SolPlan, RunSpyx
    <3>3. chain.purse >= MinDeployer - AtaRent * Cardinality(chain.ata) - Fees
      BY <1>1, <1>2, <3>1, KeptNow DEF SpendPlan
    <3>4. Cardinality(chain'.ata) = Cardinality(chain.ata) + 1 /\ Cardinality(chain.ata) \in Nat
      BY <2>1, <2>6, <3>2, FS_Subset, FS_AddElement, FS_CardinalityType
    <3>5. AtaRent * (Cardinality(chain.ata) + 1) = AtaRent * Cardinality(chain.ata) + AtaRent
          /\ AtaRent * Cardinality(chain.ata) \in Nat
      <4>1. \A r \in Nat, n \in Nat : r * (n + 1) = r * n + r /\ r * n \in Nat
        OBVIOUS
      <4> QED BY <2>6, <3>4, <4>1
    <3>6. chain'.purse >= MinDeployer - AtaRent * Cardinality(chain'.ata) - Fees'
      BY <2>0, <2>1, <2>6, <3>2, <3>3, <3>4, <3>5
    <3>7. NoneOver' /\ NotOver'
      BY <2>1, <2>5, <3>1 DEF SpendPlan, NoneOver, NotOver
    <3>8. chain'.spyx[run'.w] + run'.amount <= SpyxTarget
      BY <2>1, <2>3, <3>2
    <3>9. RunPlan'
      BY <2>3, <3>8 DEF RunPlan, SolPlan, RunSpyx, MainBuys, Buying, Swapping
    <3> QED BY <3>6, <3>7, <3>9
  <2>8. ASSUME ~misled, ~lost
        PROVE  RecordsSo' /\ RunTells'
    <3>1. file["test"].status = "done" \/ chain.bag + Given >= Wanted
      BY <1>2, <2>8 DEF FundInv, RunTells, Giving
    <3>2. RunTells'
      BY <1>2, <2>1, <2>3, <2>5, <3>1 DEF RunTells, Swapping, Giving
    <3> QED BY <1>1, <1>2, <2>1, <2>2, <2>5, <2>8, <3>2, RecordsStand DEF FundInv
  <2> QED BY <1>2, <1>5, <2>1, <2>2, <2>3, <2>4, <2>7, <2>8, ChainMoves
<1> HIDE DEF tx
<1> QED BY <1>2, <1>4, <1>5, Sending

LEMMA SendSpyxStays == FundInv /\ Funding!SendSpyx => FundInv'
<1> SUFFICES ASSUME FundInv, Funding!SendSpyx PROVE FundInv'
  OBVIOUS
<1> DEFINE tx == [kind |-> "spyx", to |-> run.w, amount |-> run.amount]
<1>1. FundTyped
  BY DEF FundInv
<1>2. /\ run.pc = "sendSpyx" /\ Funding!Sends(tx, Funding!NextWallet("give"))
      /\ UNCHANGED <<file, misled, lost>>
  BY DEF Funding!SendSpyx, Funding!At
<1>3. run.w \in Holders /\ run.w \in Funding!Wallets /\ run.amount \in Nat
  BY <1>1, <1>2, FundFields, FundConstants DEF FundTyped, AtWallet
<1>4. tx \in Funding!Txs
  BY <1>3 DEF Funding!Txs
<1>5. ASSUME /\ Funding!Valid(chain, tx) /\ chain' = Funding!After(chain, tx) /\ prev' = chain
             /\ landed' = Funding!LandedAfter(tx) /\ run' = Funding!NextWallet("give")
             /\ UNCHANGED <<transit, fundFaults>> /\ paid' = paid + 1
      PROVE  FundInv'
  <2>0. Fees \in Nat /\ TxFee \in Nat /\ Fees' = Fees + TxFee
    BY <1>1, <1>5, FeesOfRun
  <2>1. /\ chain' \in Funding!Balances
        /\ chain'.bag = chain.bag - run.amount
        /\ chain'.spyx = [chain.spyx EXCEPT ![run.w] = chain.spyx[run.w] + run.amount]
        /\ chain'.sol = chain.sol /\ chain'.ata = chain.ata /\ chain'.purse = chain.purse - TxFee
        /\ chain'.bagOpen = chain.bagOpen
    BY <1>1, <1>3, <1>5, SpyxLands
  <2>2. landed' = landed /\ landed \in [Funding!Stages -> Nat]
    BY <1>1, <1>5, FundFields DEF Funding!LandedAfter
  <2>3. run' \in FundRuns /\ run'.pc = "give"
    BY <1>1, <1>3, <1>5, WentOn
  <2>4. AtWallet' /\ RunPlan'
    BY <2>3 DEF AtWallet, RunPlan, SolPlan, RunSpyx, MainBuys, Buying, Swapping
  <2>5. /\ Wanted' = Wanted /\ More' = More /\ Given' = Given + run.amount
        /\ Given \in Nat /\ Wanted \in Nat /\ chain.bag \in Nat /\ chain'.bag \in Nat
        /\ chain'.bag + Given' = chain.bag + Given
    <3>1. Wanted' = Wanted /\ More' = More
      BY DEF Wanted, More
    <3>2. Given' = Given + run.amount
      BY <1>1, <1>3, <2>1, SpyxGiven
    <3>3. Given \in Nat /\ Wanted \in Nat /\ chain.bag \in Nat /\ chain'.bag \in Nat
      BY <1>1, <2>1, GivenTypes, FundFields, BalanceFields
    <3> QED BY <1>3, <2>1, <3>1, <3>2, <3>3
  <2>6. chain.spyx \in [Funding!Wallets -> Nat]
    BY <1>1, FundFields, BalanceFields
  <2>7. ASSUME ~misled
        PROVE  /\ NoneOver' /\ NotOver' /\ RunPlan'
               /\ chain'.purse >= MinDeployer - AtaRent * Cardinality(chain'.ata) - Fees'
    <3>1. SpendPlan
      BY <2>7 DEF FundInv
    <3>2. chain.spyx[run.w] + run.amount <= Funding!Target(run.w)
      BY <1>2, <1>3, <3>1, FundConstants DEF SpendPlan, RunPlan, RunSpyx
    <3>3. chain'.purse >= MinDeployer - AtaRent * Cardinality(chain'.ata) - Fees'
      <4>1. chain.purse >= MinDeployer - AtaRent * Cardinality(chain.ata) - Fees
        BY <1>1, <1>2, <3>1, KeptNow DEF SpendPlan
      <4> QED BY <1>1, <2>0, <2>1, <4>1, KeptLess
    <3>4. NoneOver'
      <4>1. ASSUME NEW w \in Funding!Wallets
            PROVE  chain'.sol[w] <= SolTarget /\ chain'.spyx[w] <= Funding!Target(w)
        <5>1. chain.sol[w] <= SolTarget /\ chain.spyx[w] <= Funding!Target(w)
          BY <3>1 DEF SpendPlan, NoneOver
        <5>2. chain'.spyx[w] = IF w = run.w THEN chain.spyx[run.w] + run.amount ELSE chain.spyx[w]
          BY <2>1, <2>6
        <5> QED BY <2>1, <3>2, <5>1, <5>2
      <4> QED BY <4>1 DEF NoneOver, Funding!Wallets, Funding!Target
    <3>5. NotOver'
      BY <2>5, <3>1 DEF SpendPlan, NotOver
    <3> QED BY <2>4, <3>3, <3>4, <3>5
  <2>8. ASSUME ~misled, ~lost
        PROVE  RecordsSo' /\ RunTells'
    <3>1. RecordsSo /\ (file["test"].status = "done" \/ chain.bag + Given >= Wanted)
      BY <1>2, <2>8 DEF FundInv, RunTells, Giving
    <3>2. file["test"].status = "done" \/ chain'.bag + Given' >= Wanted'
      BY <2>5, <3>1
    <3>3. RunTells'
      BY <1>2, <2>3, <3>2 DEF RunTells, Swapping, Giving
    <3>4. file' = file /\ landed' = landed
      BY <1>2, <2>2
    <3>5. ASSUME NEW s \in Funding!Stages
          PROVE  /\ file'[s].status = "done" => landed'[s] >= 1
                 /\ file'[s].status = "pending" /\ chain'.bag > file'[s].before => landed'[s] >= 1
      <4>1. file[s].before \in Nat
        BY <1>1, FundFields DEF FundRecords
      <4>2. chain'.bag > file[s].before => chain.bag > file[s].before
        BY <1>3, <2>1, <2>5, <4>1
      <4> QED BY <3>1, <3>4, <4>2 DEF RecordsSo
    <3>6. RecordsSo'
      BY <3>1, <3>2, <3>4, <3>5 DEF RecordsSo
    <3> QED BY <3>3, <3>6
  <2> QED BY <1>2, <1>5, <2>1, <2>2, <2>3, <2>4, <2>7, <2>8, ChainMoves
<1> HIDE DEF tx
<1> QED BY <1>2, <1>4, <1>5, Sending

-----------------------------------------------------------------------------
(* What else happens.                                                      *)

LEMMA LandsStays == FundInv /\ Funding!Lands => FundInv'
<1> SUFFICES ASSUME FundInv, Funding!Lands PROVE FundInv'
  OBVIOUS
<1>1. FundTyped
  BY DEF FundInv
<1>2. /\ transit # Funding!NoTx /\ Funding!Valid(chain, transit) /\ chain' = Funding!After(chain, transit)
      /\ prev' = chain /\ landed' = Funding!LandedAfter(transit) /\ transit' = Funding!NoTx
      /\ misled' = TRUE /\ UNCHANGED <<file, run, fundFaults, lost, paid>>
  BY DEF Funding!Lands
<1>3. transit \in Funding!Txs /\ landed \in [Funding!Stages -> Nat]
  BY <1>1, FundFields
<1>4. chain' \in Funding!Balances
  BY <1>1, <1>2, <1>3, AnyLands
<1>5. landed' \in [Funding!Stages -> Nat]
  <2>1. CASE transit.kind = "swap"
    <3>1. transit.stage \in Funding!Stages
      BY <1>3, <2>1 DEF Funding!Txs
    <3>2. landed' = [landed EXCEPT ![transit.stage] = landed[transit.stage] + 1] /\ landed[transit.stage] + 1 \in Nat
      BY <1>2, <1>3, <2>1, <3>1 DEF Funding!LandedAfter
    <3> QED BY <1>3, <3>1, <3>2
  <2>2. CASE transit.kind # "swap"
    BY <1>2, <1>3, <2>2 DEF Funding!LandedAfter
  <2> QED BY <2>1, <2>2
<1>6. transit' \in Funding!Txs
  BY <1>2 DEF Funding!Txs, Funding!NoTx
<1>7. FundTyped'
  BY <1>1, <1>2, <1>4, <1>5, <1>6, FundFields DEF FundTyped, Funding!TypeOK, AtWallet
<1> QED BY <1>2, <1>7 DEF FundInv

LEMMA ExpiresStays == FundInv /\ Funding!Expires => FundInv'
<1> SUFFICES ASSUME FundInv, Funding!Expires PROVE FundInv'
  OBVIOUS
<1>1. FundTyped
  BY DEF FundInv
<1>2. transit' = Funding!NoTx /\ UNCHANGED <<chain, prev, file, run, fundFaults, paid, misled, landed, lost>>
  BY DEF Funding!Expires, Funding!history
<1>3. transit' \in Funding!Txs
  BY <1>2 DEF Funding!Txs, Funding!NoTx
<1>4. Given' = Given /\ Wanted' = Wanted /\ More' = More
  BY <1>1, <1>2, Unmoved
<1>5. FundTyped'
  BY <1>1, <1>2, <1>3 DEF FundTyped, Funding!TypeOK, AtWallet
<1>6. SpendPlan => SpendPlan'
  <2>1. NoneOver /\ NotOver => NoneOver' /\ NotOver'
    BY <1>1, <1>2, Unmoved
  <2>2. Kept => Kept'
    BY <1>1, <1>2, FeesOfRun DEF Kept
  <2>3. SolPlan /\ MainBuys => SolPlan' /\ MainBuys'
    BY <1>1, <1>2, FeesOfRun DEF SolPlan, MainBuys
  <2>4. RunSpyx => RunSpyx'
    BY <1>2, <1>4 DEF RunSpyx
  <2> QED BY <2>1, <2>2, <2>3, <2>4 DEF SpendPlan, RunPlan
<1>7. RecordsSo /\ RunTells => RecordsSo' /\ RunTells'
  BY <1>2, <1>4 DEF RecordsSo, RunTells
<1> QED BY <1>2, <1>5, <1>6, <1>7 DEF FundInv

LEMMA CrashStays == FundInv /\ Funding!Crash => FundInv'
<1> SUFFICES ASSUME FundInv, Funding!Crash PROVE FundInv'
  OBVIOUS
<1>1. FundTyped
  BY DEF FundInv
<1>2. /\ run.pc # "off" /\ run' = Funding!Off /\ Funding!Fault
      /\ UNCHANGED <<chain, prev, transit, file, paid, misled, landed, lost>>
  BY DEF Funding!Crash, Funding!history
<1>3. run' \in FundRuns /\ run'.pc = "off" /\ fundFaults' \in 0 .. MaxFaults
  BY <1>1, <1>2, OffTyped, Faulted
<1>4. file' \in FundRecords /\ transit' \in Funding!Txs /\ lost' \in BOOLEAN /\ misled' \in BOOLEAN
  BY <1>1, <1>2, FundFields DEF FundTyped, Funding!TypeOK
<1>5. ~misled' /\ ~lost' => RecordsSo'
  BY <1>1, <1>2, Unmoved DEF FundInv, RecordsSo
<1> QED BY <1>2, <1>3, <1>4, <1>5, Rests

LEMMA LoseStateFileStays == FundInv /\ Funding!LoseStateFile => FundInv'
<1> SUFFICES ASSUME FundInv, Funding!LoseStateFile PROVE FundInv'
  OBVIOUS
<1>1. FundTyped
  BY DEF FundInv
<1>2. /\ run.pc \in {"off", "done"} /\ Funding!Fault /\ file' = [s \in Funding!Stages |-> Funding!NoRecord]
      /\ lost' = TRUE /\ UNCHANGED <<chain, prev, transit, run, paid, misled, landed>>
  BY DEF Funding!LoseStateFile
<1>3. run' \in FundRuns /\ run'.pc \in {"off", "done"} /\ run' = run /\ fundFaults' \in 0 .. MaxFaults
  BY <1>1, <1>2, FundFields, Faulted
<1>4. file' \in FundRecords /\ transit' \in Funding!Txs /\ lost' \in BOOLEAN /\ misled' \in BOOLEAN
  BY <1>1, <1>2, FundFields DEF FundTyped, Funding!TypeOK, FundRecords, Funding!NoRecord
<1> QED BY <1>2, <1>3, <1>4, Rests

LEMMA FundNext == FundInv /\ Funding!Next => FundInv'
BY StartStays, ReadSolStays, SendSolStays, ReadBagStays, OpenBagStays, NeedStays, MainStays, ResolveStays,
   QuoteStays, QuoteRefusedStays, ExecuteStays, ReceiptStays, ReadHolderStays, OpenHolderStays, CheckBagStays,
   SendSpyxStays, VerifyStays, LandsStays, ExpiresStays, CrashStays, LoseStateFileStays
   DEF Funding!Next, Funding!Step

LEMMA FundStays == FundInv /\ UNCHANGED fundVars => FundInv'
<1> SUFFICES ASSUME FundInv, UNCHANGED fundVars PROVE FundInv'
  OBVIOUS
<1>1. FundTyped
  BY DEF FundInv
<1>2. UNCHANGED <<chain, prev, transit, file, run, fundFaults, paid, misled, landed, lost>>
  BY DEF fundVars
<1>3. Given' = Given /\ Wanted' = Wanted /\ More' = More
  BY <1>1, <1>2, Unmoved
<1>4. FundTyped'
  BY <1>1, <1>2 DEF FundTyped, Funding!TypeOK, AtWallet
<1>5. SpendPlan => SpendPlan'
  <2>1. NoneOver /\ NotOver => NoneOver' /\ NotOver'
    BY <1>1, <1>2, Unmoved
  <2>2. Kept => Kept'
    BY <1>1, <1>2, FeesOfRun DEF Kept
  <2>3. SolPlan /\ MainBuys => SolPlan' /\ MainBuys'
    BY <1>1, <1>2, FeesOfRun DEF SolPlan, MainBuys
  <2>4. RunSpyx => RunSpyx'
    BY <1>2, <1>3 DEF RunSpyx
  <2> QED BY <2>1, <2>2, <2>3, <2>4 DEF SpendPlan, RunPlan
<1>6. RecordsSo /\ RunTells => RecordsSo' /\ RunTells'
  BY <1>2, <1>3 DEF RecordsSo, RunTells
<1> QED BY <1>2, <1>4, <1>5, <1>6 DEF FundInv

LEMMA FundInit == Funding!Init => FundInv
<1> SUFFICES ASSUME Funding!Init PROVE FundInv
  OBVIOUS
<1>1. PICK purse \in Purses, sol0 \in 0 .. SolTarget :
         chain = [sol |-> [w \in Funding!Wallets |-> sol0], spyx |-> [w \in Funding!Wallets |-> 0],
                  ata |-> {}, purse |-> purse, bag |-> 0, bagOpen |-> FALSE]
  BY DEF Funding!Init
<1>2. /\ prev = chain /\ transit = Funding!NoTx /\ file = [s \in Funding!Stages |-> Funding!NoRecord]
      /\ run = Funding!Off /\ fundFaults = 0 /\ paid = 0 /\ misled = FALSE /\ lost = FALSE
      /\ landed = [s \in Funding!Stages |-> 0]
  BY DEF Funding!Init
<1>3. purse \in Nat /\ sol0 \in Nat /\ sol0 <= SolTarget /\ MaxFaults \in Nat
  <2>1. Purses \subseteq Nat
    BY FundAssumption
  <2> QED BY <2>1, FundConstants
<1>4. chain \in Funding!Balances
  BY <1>1, <1>3 DEF Funding!Balances
<1>5. run \in FundRuns /\ run.pc = "off"
  BY <1>2, OffTyped
<1>6. FundTyped
  <2>1. transit \in Funding!Txs
    BY <1>2 DEF Funding!NoTx, Funding!Txs
  <2>2. file \in FundRecords /\ landed \in [Funding!Stages -> Nat]
    BY <1>2 DEF FundRecords, Funding!NoRecord
  <2>3. fundFaults \in 0 .. MaxFaults
    BY <1>2, <1>3
  <2>4. AtWallet
    BY <1>5 DEF AtWallet
  <2> QED BY <1>2, <1>4, <1>5, <2>1, <2>2, <2>3, <2>4 DEF FundTyped, Funding!TypeOK, FundRuns, FundRecords
<1>7. NoneOver
  <2>1. ASSUME NEW w \in Funding!Wallets
        PROVE  chain.sol[w] <= SolTarget /\ chain.spyx[w] <= Funding!Target(w)
    <3>1. chain.sol[w] = sol0 /\ chain.spyx[w] = 0 /\ Funding!Target(w) \in Nat
      BY <1>1, FundConstants
    <3> QED BY <1>3, <3>1
  <2> QED BY <2>1 DEF NoneOver
<1>8. NotOver
  <2>1. Funding!SpyxShort(chain) + Given = Wanted /\ Funding!SpyxShort(chain) \in Nat
    BY <1>4, <1>6, <1>7, MissingIsRest, ShortSums
  <2>2. Given \in Nat /\ Wanted \in Nat /\ More \in Nat /\ chain.bag = 0
    BY <1>1, <1>6, GivenTypes
  <2> QED BY <2>1, <2>2 DEF NotOver
<1>9. Kept
  BY <1>2 DEF Kept
<1>10. RunPlan
  BY <1>5 DEF RunPlan, SolPlan, RunSpyx, MainBuys, Buying, Swapping
<1>11. RecordsSo /\ RunTells
  <2>1. RunTells
    BY <1>5 DEF RunTells, Swapping, Giving
  <2>2. \A s \in Funding!Stages : file[s].status = "none" /\ landed[s] = 0
    BY <1>2 DEF Funding!NoRecord
  <2> QED BY <2>1, <2>2 DEF RecordsSo, Funding!Stages
<1> QED BY <1>6, <1>7, <1>8, <1>9, <1>10, <1>11 DEF FundInv, SpendPlan

-----------------------------------------------------------------------------
(* How many transactions a run pays for, whatever it reads.                *)

\* Two for every holder before wallet w.
Served(w) == 2 * Cardinality(Holders \cap 1 .. w - 1)

\* The most a run has paid for when it is at r.pc.
MostAt(r) ==
    CASE r.pc \in {"off", "done"}               -> Funding!MostPaid
      [] r.pc \in {"sol", "sendSol"}            -> r.w - 1
      [] r.pc = "openBag"                       -> N
      [] r.pc = "need"                          -> N + 1
      [] r.pc = "main"                          -> N + 2
      [] r.pc \in {"swap", "quote", "execute"}  -> IF r.stage = "test" THEN N + 1 ELSE N + 2
      [] r.pc = "receipt"                       -> IF r.stage = "test" THEN N + 2 ELSE N + 3
      [] r.pc \in {"give", "open"}              -> N + 3 + Served(r.w)
      [] r.pc \in {"give2", "sendSpyx"}         -> N + 4 + Served(r.w)

Paying == paid <= MostAt(run)

LEMMA ServedFacts ==
  ASSUME NEW w \in 1 .. N + 1
  PROVE  /\ Served(w) \in Nat /\ Served(1) = 0
         /\ N + 3 + Served(w) <= Funding!MostPaid /\ Funding!MostPaid \in Nat /\ N \in Nat
         /\ w \in Holders => Served(w + 1) = Served(w) + 2 /\ N + 5 + Served(w) <= Funding!MostPaid
         /\ w \notin Holders => Served(w + 1) = Served(w)
<1>1. N \in Nat /\ IsFiniteSet(Holders) /\ Cardinality(Holders) \in Nat /\ Holders \subseteq 1 .. N
  BY FundConstants, FS_CardinalityType DEF Funding!Wallets
<1>2. Funding!MostPaid = N + 3 + 2 * Cardinality(Holders)
  BY FundCard DEF Funding!MostPaid
<1> DEFINE H == Holders \cap 1 .. w - 1
<1>3. IsFiniteSet(H) /\ Cardinality(H) \in Nat /\ Cardinality(H) <= Cardinality(Holders)
  BY <1>1, FS_Subset, FS_CardinalityType
<1>4. Served(1) = 0
  <2>1. Holders \cap 1 .. 1 - 1 = {}
    BY <1>1
  <2> QED BY <2>1, FS_EmptySet DEF Served
<1>5. CASE w \in Holders
  <2>1. Holders \cap 1 .. (w + 1) - 1 = H \cup {w} /\ w \notin H
    BY <1>1, <1>5
  <2>2. Cardinality(H \cup {w}) = Cardinality(H) + 1
    BY <1>3, <2>1, FS_AddElement
  <2>3. Cardinality(H \cup {w}) <= Cardinality(Holders)
    BY <1>1, <1>5, FS_Subset
  <2>4. Served(w + 1) = 2 * Cardinality(H \cup {w}) /\ Served(w) = 2 * Cardinality(H)
    BY <2>1 DEF Served
  <2> HIDE DEF H
  <2> QED BY <1>1, <1>2, <1>3, <1>4, <1>5, <2>2, <2>3, <2>4
<1>6. CASE w \notin Holders
  <2>1. Holders \cap 1 .. (w + 1) - 1 = H
    BY <1>1, <1>6
  <2>2. Served(w + 1) = 2 * Cardinality(H) /\ Served(w) = 2 * Cardinality(H)
    BY <2>1 DEF Served
  <2> HIDE DEF H
  <2> QED BY <1>1, <1>2, <1>3, <1>4, <1>6, <2>2
<1> QED BY <1>5, <1>6

\* A run may end where it is, and pay once more where it sends.
LEMMA PaidRoom ==
  ASSUME FundTyped, Paying
  PROVE  /\ paid <= Funding!MostPaid /\ paid \in Nat
         /\ run.pc \in {"sendSol", "openBag", "execute", "open", "sendSpyx"} => paid + 1 <= Funding!MostPaid
<1>1. paid \in Nat /\ run.w \in 1 .. N + 1 /\ run.stage \in Funding!Stages
      /\ run.pc \in {"off", "done", "sol", "sendSol", "openBag", "need", "main", "swap",
                     "quote", "execute", "receipt", "give", "give2", "open", "sendSpyx"}
  BY FundFields
<1>2. /\ run.pc = "sendSol" => run.w \in 1 .. N
      /\ run.pc \in {"open", "give2", "sendSpyx"} => run.w \in Holders
  BY DEF FundTyped, AtWallet, Funding!Wallets
<1>3. /\ Served(run.w) \in Nat /\ Funding!MostPaid \in Nat /\ N \in Nat /\ N + 3 + Served(run.w) <= Funding!MostPaid
      /\ run.w \in Holders => N + 5 + Served(run.w) <= Funding!MostPaid
  BY <1>1, ServedFacts
<1> QED BY <1>1, <1>2, <1>3, SMTT(30) DEF Paying, MostAt

LEMMA PayingEnds ==
  ASSUME FundTyped, Paying, run'.pc \in {"off", "done"},
         \/ paid' = paid
         \/ paid' = paid + 1 /\ run.pc \in {"sendSol", "openBag", "execute", "open", "sendSpyx"}
  PROVE  Paying'
<1>1. paid' <= Funding!MostPaid
  BY PaidRoom
<1> QED BY <1>1 DEF Paying, MostAt, Funding!MostPaid

LEMMA PayingSends ==
  ASSUME FundTyped, Paying, NEW t, NEW next, Funding!Sends(t, next),
         run.pc \in {"sendSol", "openBag", "execute", "open", "sendSpyx"},
         paid' = paid + 1 /\ run' = next => Paying'
  PROVE  Paying'
<1>1. CASE run' = Funding!Off /\ (paid' = paid \/ paid' = paid + 1)
  BY <1>1, PayingEnds DEF Funding!Off
<1> QED BY <1>1 DEF Funding!Sends

\* Every step by where it leads.
LEMMA PayingNext == FundTyped /\ Paying /\ Funding!Next => Paying'
<1> SUFFICES ASSUME FundTyped, Paying, Funding!Next PROVE Paying'
  OBVIOUS
<1>1. /\ paid \in Nat /\ run.w \in 1 .. N + 1 /\ run.stage \in {"test", "main"} /\ run \in FundRuns
      /\ N \in Nat /\ 1 \in 1 .. N + 1
  BY FundFields, FundConstants DEF Funding!Stages
<1>2. /\ run.pc = "sendSol" => run.w \in 1 .. N
      /\ run.pc \in {"open", "give2", "sendSpyx"} => run.w \in Holders
      /\ Holders \subseteq 1 .. N /\ Funding!Wallets = 1 .. N
  BY FundConstants DEF FundTyped, AtWallet, Funding!Wallets
<1>3. /\ Served(run.w) \in Nat /\ Served(1) = 0 /\ Funding!MostPaid \in Nat
      /\ run.w \in Holders => Served(run.w + 1) = Served(run.w) + 2
      /\ run.w \notin Holders => Served(run.w + 1) = Served(run.w)
  BY <1>1, ServedFacts
<1>4. ASSUME NEW pc, pc \in {"sol", "give"}, run' = Funding!NextWallet(pc)
      PROVE  run'.pc = pc /\ run'.w = run.w + 1
  BY <1>1, <1>4 DEF Funding!NextWallet, FundRuns
<1>5. ASSUME NEW pc, run' = Funding!Goto(pc)
      PROVE  run'.pc = pc /\ run'.w = 1 /\ run'.stage = run.stage
  BY <1>1, <1>5 DEF Funding!Goto, FundRuns
<1>6. ASSUME run'.pc \in {"off", "done"}, paid' = paid PROVE Paying'
  BY <1>6, PayingEnds
<1>7. CASE Funding!Start
  <2>1. paid' = 0 /\ run'.pc = "sol" /\ run'.w = 1
    BY <1>7 DEF Funding!Start, Funding!Off
  <2> QED BY <2>1 DEF Paying, MostAt
<1>8. CASE Funding!ReadSol
  <2>1. /\ paid' = paid /\ run.pc = "sol" /\ run.w \in Funding!Wallets
        /\ \/ run'.pc = "sol" /\ run'.w = run.w + 1
           \/ run'.pc = "sendSol" /\ run'.w = run.w
    BY <1>1, <1>4, <1>8 DEF Funding!ReadSol, Funding!At, FundRuns
  <2> QED BY <1>1, <2>1 DEF Paying, MostAt
<1>9. CASE Funding!SendSol
  <2>1. /\ run.pc = "sendSol"
        /\ Funding!Sends([kind |-> "sol", to |-> run.w, amount |-> run.amount], Funding!NextWallet("sol"))
    BY <1>9 DEF Funding!SendSol, Funding!At
  <2>2. ASSUME paid' = paid + 1, run' = Funding!NextWallet("sol") PROVE Paying'
    BY <1>1, <1>4, <2>1, <2>2 DEF Paying, MostAt
  <2> QED BY <2>1, <2>2, PayingSends
<1>10. CASE Funding!ReadBag
  <2>1. /\ paid' = paid /\ run.pc = "sol" /\ run.w = N + 1 /\ run'.pc \in {"need", "openBag"}
    BY <1>5, <1>10 DEF Funding!ReadBag, Funding!At
  <2> QED BY <1>1, <2>1 DEF Paying, MostAt
<1>11. CASE Funding!OpenBag
  <2>1. run.pc = "openBag" /\ Funding!Sends([kind |-> "bag"], Funding!Goto("need"))
    BY <1>11 DEF Funding!OpenBag, Funding!At
  <2>2. ASSUME paid' = paid + 1, run' = Funding!Goto("need") PROVE Paying'
    BY <1>1, <1>5, <2>1, <2>2 DEF Paying, MostAt
  <2> QED BY <2>1, <2>2, PayingSends
<1>12. CASE Funding!Need
  <2>1. /\ paid' = paid /\ run.pc = "need"
        /\ \/ run'.pc \in {"give", "main"} /\ run'.w = 1
           \/ run'.pc = "swap" /\ run'.stage = "test"
    BY <1>1, <1>5, <1>12 DEF Funding!Need, Funding!At, Funding!Goto, FundRuns
  <2> QED BY <1>1, <1>3, <2>1 DEF Paying, MostAt
<1>13. CASE Funding!Main
  <2>1. /\ paid' = paid /\ run.pc = "main"
        /\ \/ run'.pc = "give" /\ run'.w = 1
           \/ run'.pc = "swap" /\ run'.stage = "main"
    BY <1>1, <1>5, <1>13 DEF Funding!Main, Funding!At, Funding!Goto, FundRuns
  <2> QED BY <1>1, <1>3, <2>1 DEF Paying, MostAt
<1>14. ASSUME run.pc \in {"swap", "receipt"}, run' = Funding!AfterSwap, paid' = paid PROVE Paying'
  <2>1. run'.pc = (IF run.stage = "test" THEN "main" ELSE "give") /\ run'.w = 1
    BY <1>5, <1>14 DEF Funding!AfterSwap
  <2> QED BY <1>1, <1>3, <1>14, <2>1 DEF Paying, MostAt
<1>15. CASE Funding!Resolve
  <2>1. /\ paid' = paid /\ run.pc = "swap"
        /\ \/ run' = Funding!AfterSwap
           \/ run'.pc = "quote" /\ run'.stage = run.stage
    BY <1>1, <1>15 DEF Funding!Resolve, Funding!At, FundRuns
  <2>2. CASE run' = Funding!AfterSwap
    BY <1>14, <2>1, <2>2
  <2>3. CASE run'.pc = "quote" /\ run'.stage = run.stage
    BY <1>1, <2>1, <2>3 DEF Paying, MostAt
  <2> QED BY <2>1, <2>2, <2>3
<1>16. CASE Funding!Quote
  <2>1. /\ paid' = paid /\ run.pc = "quote"
        /\ \/ run' = Funding!Off
           \/ run'.pc = "execute" /\ run'.stage = run.stage
    BY <1>1, <1>16 DEF Funding!Quote, Funding!At, FundRuns
  <2>2. CASE run' = Funding!Off
    BY <1>6, <2>1, <2>2 DEF Funding!Off
  <2>3. CASE run'.pc = "execute" /\ run'.stage = run.stage
    BY <1>1, <2>1, <2>3 DEF Paying, MostAt
  <2> QED BY <2>1, <2>2, <2>3
<1>17. CASE Funding!Execute
  <2>1. PICK got : Funding!Sends([kind |-> "swap", stage |-> run.stage, in |-> run.quote.in, out |-> got],
                                 Funding!Goto("receipt"))
    BY <1>17 DEF Funding!Execute
  <2>2. run.pc = "execute"
    BY <1>17 DEF Funding!Execute, Funding!At
  <2>3. ASSUME paid' = paid + 1, run' = Funding!Goto("receipt") PROVE Paying'
    BY <1>1, <1>5, <2>2, <2>3 DEF Paying, MostAt
  <2> QED BY <2>1, <2>2, <2>3, PayingSends
<1>18. CASE Funding!Receipt
  <2>1. paid' = paid /\ run.pc = "receipt" /\ (run' = Funding!AfterSwap \/ run' = Funding!Off)
    BY <1>18 DEF Funding!Receipt, Funding!At
  <2> QED BY <1>6, <1>14, <2>1 DEF Funding!Off
<1>19. CASE Funding!ReadHolder
  <2>1. /\ paid' = paid /\ run.pc = "give"
        /\ \/ run.w \notin Holders /\ run'.pc = "give" /\ run'.w = run.w + 1
           \/ run'.pc \in {"give2", "open"} /\ run'.w = run.w
    BY <1>1, <1>4, <1>19 DEF Funding!ReadHolder, Funding!At, FundRuns
  <2> QED BY <1>1, <1>3, <2>1 DEF Paying, MostAt
<1>20. CASE Funding!OpenHolder
  <2>1. run.pc = "open" /\ Funding!Sends([kind |-> "ata", to |-> run.w], [run EXCEPT !.pc = "give2"])
    BY <1>20 DEF Funding!OpenHolder, Funding!At
  <2>2. ASSUME paid' = paid + 1, run' = [run EXCEPT !.pc = "give2"] PROVE Paying'
    <3>1. run'.pc = "give2" /\ run'.w = run.w
      BY <1>1, <2>2 DEF FundRuns
    <3> QED BY <1>1, <1>3, <2>1, <2>2, <3>1 DEF Paying, MostAt
  <2> QED BY <2>1, <2>2, PayingSends
<1>21. CASE Funding!CheckBag
  <2>1. /\ paid' = paid /\ run.pc = "give2"
        /\ \/ run' = Funding!NextWallet("give")
           \/ run' = Funding!Off
           \/ run'.pc = "sendSpyx" /\ run'.w = run.w
    BY <1>1, <1>21 DEF Funding!CheckBag, Funding!At, FundRuns
  <2>2. CASE run' = Funding!NextWallet("give")
    BY <1>1, <1>2, <1>3, <1>4, <2>1, <2>2 DEF Paying, MostAt
  <2>3. CASE run' = Funding!Off
    BY <1>6, <2>1, <2>3 DEF Funding!Off
  <2>4. CASE run'.pc = "sendSpyx" /\ run'.w = run.w
    BY <1>1, <1>3, <2>1, <2>4 DEF Paying, MostAt
  <2> QED BY <2>1, <2>2, <2>3, <2>4
<1>22. CASE Funding!SendSpyx
  <2>1. /\ run.pc = "sendSpyx"
        /\ Funding!Sends([kind |-> "spyx", to |-> run.w, amount |-> run.amount], Funding!NextWallet("give"))
    BY <1>22 DEF Funding!SendSpyx, Funding!At
  <2>2. ASSUME paid' = paid + 1, run' = Funding!NextWallet("give") PROVE Paying'
    BY <1>1, <1>2, <1>3, <1>4, <2>1, <2>2 DEF Paying, MostAt
  <2> QED BY <2>1, <2>2, PayingSends
<1>23. CASE Funding!Verify
  <2>1. paid' = paid /\ run'.pc \in {"off", "done"}
    BY <1>23 DEF Funding!Verify, Funding!Off
  <2> QED BY <1>6, <2>1
<1>24. CASE Funding!QuoteRefused \/ Funding!Crash
  <2>1. paid' = paid /\ run'.pc = "off"
    BY <1>24 DEF Funding!QuoteRefused, Funding!Crash, Funding!Off
  <2> QED BY <1>6, <2>1
<1>25. CASE Funding!Lands \/ Funding!Expires \/ Funding!LoseStateFile
  <2>1. UNCHANGED <<run, paid>>
    BY <1>25 DEF Funding!Lands, Funding!Expires, Funding!LoseStateFile
  <2> QED BY <2>1 DEF Paying, MostAt, Served, Funding!MostPaid
<1> QED BY <1>7, <1>8, <1>9, <1>10, <1>11, <1>12, <1>13, <1>15, <1>16, <1>17, <1>18, <1>19, <1>20, <1>21, <1>22,
           <1>23, <1>24, <1>25 DEF Funding!Next, Funding!Step

LEMMA PayingStays == FundTyped /\ Paying /\ UNCHANGED fundVars => Paying'
<1> SUFFICES ASSUME Paying, UNCHANGED fundVars PROVE Paying'
  OBVIOUS
<1>1. UNCHANGED <<run, paid>>
  BY DEF fundVars
<1> QED BY <1>1 DEF Paying, MostAt, Served, Funding!MostPaid

LEMMA PayingInit == Funding!Init => Paying
<1> SUFFICES ASSUME Funding!Init PROVE Paying
  OBVIOUS
<1>1. paid = 0 /\ run.pc = "off"
  BY DEF Funding!Init, Funding!Off
<1>2. Funding!MostPaid \in Nat
  BY FundConstants, ServedFacts
<1> QED BY <1>1, <1>2 DEF Paying, MostAt

LEMMA FundGuarded == FundInv /\ Paying => SpendsOnlyNeeded
<1> SUFFICES ASSUME FundInv, Paying PROVE SpendsOnlyNeeded
  OBVIOUS
<1>1. FundTyped
  BY DEF FundInv
<1>2. Funding!SentOnce
  BY DEF FundInv, SpendPlan, NoneOver, Funding!SentOnce
<1>3. Funding!BuysOnlyShortfall
  <2>1. DOMAIN chain.spyx = Funding!Wallets
    BY <1>1, FundFields, BalanceFields
  <2>2. Funding!SumFunction(chain.spyx) = Given
    BY <2>1, FundSum DEF Given
  <2>3. Funding!SumFunction([w \in Funding!Wallets |-> Funding!Target(w)]) = Wanted
    BY FundSum DEF Wanted, Targets
  <2>4. ~misled => chain.bag + Given <= Wanted + More
    BY DEF FundInv, SpendPlan, NotOver
  <2> QED BY <2>2, <2>3, <2>4 DEF Funding!BuysOnlyShortfall, More
<1>4. Funding!SwapRecordsTrue
  BY DEF FundInv, RecordsSo, Funding!SwapRecordsTrue
<1>5. Funding!DeployKept
  <2>1. paid <= Funding!MostPaid
    BY <1>1, PaidRoom DEF Paying
  <2>2. ~misled => \/ chain.purse >= MinDeployer - AtaRent * Funding!Cardinality(chain.ata) - TxFee * paid
                   \/ prev = chain /\ run = Funding!Off
    BY FundCard DEF FundInv, SpendPlan, Kept, Fees
  <2> QED BY <2>1, <2>2 DEF Funding!DeployKept
<1> QED BY <1>1, <1>2, <1>3, <1>4, <1>5 DEF SpendsOnlyNeeded, Funding!SpendsOnlyNeeded, FundTyped

-----------------------------------------------------------------------------
(* Together.                                                               *)

OpsInv == DemoInv /\ GateInv /\ GuardInv /\ FundInv /\ Paying

LEMMA OpsInit == MCInit => OpsInv
BY OpsAssumption, DemoInit, GateInit, GuardInit, FundInit, PayingInit DEF MCInit, OpsInv

LEMMA OpsNext == OpsInv /\ [MCNext]_MCvars => OpsInv'
<1> SUFFICES ASSUME OpsInv, [MCNext]_MCvars PROVE OpsInv'
  OBVIOUS
<1>1. DemoInv /\ GateInv /\ GuardInv /\ FundInv /\ Paying /\ OpsAssumption
  BY OpsAssumption DEF OpsInv
<1>2. Demo!Next \/ UNCHANGED demoVars
  BY DEF MCNext, MCvars
<1>3. Gate!Next \/ UNCHANGED gateVars
  BY DEF MCNext, MCvars
<1>4. [Next]_vars
  BY DEF MCNext, MCvars
<1>5. DemoInv'
  BY <1>1, <1>2, DemoNext, DemoStays
<1>6. GateInv'
  BY <1>1, <1>3, GateNext, GateStays
<1>7. GuardInv'
  BY <1>1, <1>4, GuardNext
<1>8. Funding!Next \/ UNCHANGED fundVars
  BY DEF MCNext, MCvars
<1>9. FundInv'
  BY <1>1, <1>8, FundNext, FundStays
<1>10. Paying'
  BY <1>1, <1>8, PayingNext, PayingStays DEF FundInv
<1> QED BY <1>5, <1>6, <1>7, <1>9, <1>10 DEF OpsInv

\* However often the demo run (run.sh) is interrupted and resumed: with an operator who is
\* asked no step is sent twice (with --yes only the program's rent is safe), an approval
\* pays for one run, and a dry run sends nothing to mainnet.  The program that is deployed
\* after GO (preflight.ts) is the one that was rehearsed and is paid for to its end, and no
\* wallet's row blocks the run that spent from it, unless the run died between the landing
\* of a transaction and the record of its step.
THEOREM RunsTheorem == MCSpec => []RunsGuarded
<1>1. OpsInv => RunsGuarded
  BY OpsAssumption, DemoGuarded, GateGuarded DEF OpsInv, RunsGuarded, GuardInv
<1> QED BY <1>1, OpsInit, OpsNext, PTL DEF MCSpec

\* However often the funding command (fund.ts) is interrupted and run again, no balance
\* goes below 0, no wallet is sent more than it was missing, the swaps of all runs together
\* buy the shortfall and at most the excess of one swap, the test swap is made once and
\* recorded as done only when it landed, and the deploy money is spent on nothing but the
\* fees of the run and the rent of the holders' accounts; as long as no run acted on a
\* reading that was not the last.  No run, whatever it read, pays for more than a
\* transaction per wallet, three, and two per holder.
THEOREM FundingTheorem == MCSpec => []SpendsOnlyNeeded
<1>1. OpsInv => SpendsOnlyNeeded
  BY FundGuarded DEF OpsInv
<1> QED BY <1>1, OpsInit, OpsNext, PTL DEF MCSpec
=============================================================================
