-------------------------------- MODULE C2Run --------------------------------
(***************************************************************************)
(* scripts/c2/run.sh: the demo sequence on mainnet, or rehearsed on a      *)
(* fork, with the read-only checks it calls (preflight.ts, checks.ts, the  *)
(* amounts of e2e/plan.ts).  A pass may die anywhere and a transaction may *)
(* land without being confirmed; --resume goes on from the state file.     *)
(* The passes of a run are started alike, and a dry run without --confirm: *)
(* its operator is asked before each step of a mainnet run, unless it is   *)
(* started with --yes.                                                     *)
(*                                                                         *)
(* SPYx is counted in percent of the threshold, SOL in thousandths, and of *)
(* the price only whether it is within --max-price-drift-pct of another.   *)
(* What sales and redemptions bring is left out.                           *)
(***************************************************************************)
EXTENDS Integers, Sequences, FiniteSets, FiniteSetsExt

CONSTANTS
    Deployers,     \* SOL the deployer may be given
    MaxRuns,       \* bound: run directories
    MaxMarkers,    \* bound: times the user writes the approval marker
    MaxFaults      \* bound: things that go wrong, runs after the first included

VARIABLES
    clusters,   \* mainnet and the fork
    marker,     \* the version of keys/c2-approved, 0 when there is none
    runs,       \* the run directories, each with its launch and what has landed of its steps
    pass,       \* the running command
    price,      \* of the quote asset, at Jupiter
    spent,      \* history: <<marker, run>> of what was sent on mainnet
    faults

vars == <<clusters, marker, runs, pass, price, spent, faults>>

Steps == <<"deploy", "create-launch", "buy1", "buy2", "crank-graduate", "damm-buy",
           "damm-sell", "crank-lp", "redeem1", "redeem2", "status-final">>
Step(i) == Steps[i]
AllSteps == {Steps[i] : i \in DOMAIN Steps}

\* What is sent again by whoever runs the step again.
NotIdempotent == {"buy1", "buy2", "damm-buy", "damm-sell", "redeem1", "redeem2"}

\* What each wallet needs of the plan, what it is given (10% more), who buys what.
Needs == [creator |-> 10, buyer1 |-> 50, buyer2 |-> 50]
Given == [creator |-> 11, buyer1 |-> 55, buyer2 |-> 55]
QuoteStep == [creator |-> "create-launch", buyer1 |-> "buy1", buyer2 |-> "buy2"]
DeployCost == 2574

Phase(run) ==
    CASE run.reserve = 0 -> "none"
      [] run.reserve \in 1..99 -> "presale"
      [] run.reserve = 100 /\ ~run.graduated -> "graduating"
      [] OTHER -> "redeemable"

\* The phase a step expects of the launch (guards_for).
Expected(step) ==
    CASE step \in {"buy1", "buy2"} -> {"presale"}
      [] step = "crank-graduate" -> {"graduating", "redeemable"}
      [] step \in {"damm-buy", "damm-sell", "crank-lp", "redeem1", "redeem2"} -> {"redeemable"}
      [] OTHER -> {"none", "presale", "graduating", "redeemable"}

Clusters == {"mainnet", "surfnet"}
Prices == {"low", "high"}
Idle == [pc |-> "idle", run |-> 0, cluster |-> "surfnet", from |-> "none", reached |-> FALSE, i |-> 1]
\* Its mode, and whether its operator is asked: not with --yes, nor in a dry run.
Ways == {<<"mainnet", TRUE>>, <<"mainnet", FALSE>>, <<"dry", FALSE>>}
NewRun(mode, asks) ==
    [mode |-> mode, asks |-> asks, marker |-> 0, plan |-> "none", steps |-> [s \in AllSteps |-> "todo"], launch |-> FALSE,
     reserve |-> 0, graduated |-> FALSE, outcome |-> "open", landed |-> [s \in AllSteps |-> 0]]

Init ==
    /\ \E sol \in Deployers :
          clusters = [c \in Clusters |->
                         [program |-> "absent", paid |-> 0, sol |-> sol, spyx |-> Given, blocked |-> FALSE]]
    /\ marker = 0 /\ runs = <<>> /\ pass = Idle /\ price = "low" /\ spent = {} /\ faults = 0

Fault == faults < MaxFaults /\ faults' = faults + 1

Run == runs[pass.run]
Chain == clusters[pass.cluster]

-----------------------------------------------------------------------------

\* The user approves a run.
WriteMarker ==
    /\ marker < MaxMarkers /\ marker' = marker + 1
    /\ UNCHANGED <<clusters, runs, pass, price, spent, faults>>

\* Mutant: a run that has come to its end is forgotten.
MarkerTakenByOpen(id) == \E r \in DOMAIN runs \ {id} : runs[r].marker = marker /\ runs[r].outcome = "open"
MarkerTaken(id) == \E r \in DOMAIN runs \ {id} : runs[r].marker = marker

(***************************************************************************)
(* The gate: mainnet needs the marker, and the marker no other run.  A     *)
(* refused new run leaves its directory behind.                            *)
(***************************************************************************)
Enter(dirs, id, from, cluster) ==
    /\ dirs[id].mode = "mainnet" => marker > 0
    /\ IF dirs[id].mode = "mainnet" /\ MarkerTaken(id)
       THEN pass' = Idle /\ runs' = dirs
       ELSE /\ pass' = [pc |-> "preflight", run |-> id, cluster |-> cluster, from |-> from,
                        reached |-> FALSE, i |-> 1]
            /\ runs' = [dirs EXCEPT ![id].marker = IF dirs[id].mode = "mainnet" THEN marker ELSE 0]
    /\ UNCHANGED <<clusters, marker, price, spent>>

Start ==
    /\ pass.pc = "idle" /\ Len(runs) < MaxRuns
    /\ IF runs = <<>> THEN UNCHANGED faults ELSE Fault
    /\ \E way \in Ways, cluster \in Clusters :
          Enter(Append(runs, NewRun(way[1], way[2])), Len(runs) + 1, "none", cluster)

\* --from is for a launch that has moved on without the run: the first step that is
\* still to do and that its phase allows.
From(id) ==
    LET todo == {i \in DOMAIN Steps : runs[id].steps[Step(i)] = "todo"}
        fits == {i \in todo : Phase(runs[id]) \in Expected(Step(i))}
    IN  IF todo = {} \/ Min(todo) \in fits \/ ~runs[id].launch THEN "none" ELSE Step(Min(fits))

Resume(id, cluster) ==
    /\ pass.pc = "idle" /\ id \in DOMAIN runs /\ runs[id].outcome = "open"
    /\ Enter(runs, id, From(id), cluster)
    /\ UNCHANGED faults

Abort == pass' = Idle /\ UNCHANGED <<clusters, marker, runs, price, spent, faults>>

-----------------------------------------------------------------------------

\* Wallets whose buy is recorded need nothing more (--spyx-spent, --spent-roles).
Spent == {w \in DOMAIN Needs : Run.steps[QuoteStep[w]] = "done"}

NoGo(c) ==
    \/ c.blocked
    \/ c.sol < DeployCost
    \/ \E w \in DOMAIN Needs \ Spent : c.spyx[w] < Needs[w]

(***************************************************************************)
(* The amounts are planned once, at the price of the moment (plan.env).    *)
(* The preflight: a mainnet run needs GO on mainnet.  A dry run needs a    *)
(* surfnet, whatever the verdict, and cannot even set the rent elsewhere.  *)
(***************************************************************************)
Planned == [runs EXCEPT ![pass.run].plan = IF @ = "none" THEN price ELSE @]

Preflight ==
    /\ pass.pc = "preflight"
    /\ IF Run.mode = "dry" /\ pass.cluster = "mainnet" THEN Abort
       ELSE /\ runs' = Planned
            /\ pass' = IF Run.mode = "mainnet" /\ (pass.cluster # "mainnet" \/ NoGo(Chain)) THEN Idle
                       ELSE [pass EXCEPT !.pc = "step"]
            /\ UNCHANGED <<clusters, marker, price, spent, faults>>

Here == Step(pass.i)
GoOn == [pass EXCEPT !.pc = "step", !.i = @ + 1]
Mark(status) == [runs EXCEPT ![pass.run].steps[Here] = status]

\* step_begin: a recorded step is passed over; then --from is looked at.
PassOver ==
    /\ pass.pc = "step" /\ pass.i <= Len(Steps)
    /\ \/ Run.steps[Here] # "todo" /\ UNCHANGED runs
       \/ Run.steps[Here] = "todo" /\ pass.from \notin {"none", Here} /\ ~pass.reached
          /\ runs' = Mark("skipped")
    /\ pass' = GoOn
    /\ UNCHANGED <<clusters, marker, price, spent, faults>>

MoneyMoved == \E s \in {"create-launch", "buy1", "buy2"} : Run.steps[s] = "done"
PriceSteps == {"create-launch", "buy1", "buy2", "damm-buy"}

Drifted(run) == run.plan # price

\* A price that has moved stops the run, whatever it has spent; one that Jupiter does not
\* tell only before money has moved.
PriceStops(told) == Here \in PriceSteps /\ IF told THEN Drifted(Run) ELSE ~MoneyMoved

\* The guards, then the prompt.
GuardsWith(told) ==
    /\ pass.pc = "step" /\ pass.i <= Len(Steps)
    /\ Run.steps[Here] = "todo" /\ (pass.from \in {"none", Here} \/ pass.reached)
    /\ pass' = IF \/ Chain.blocked /\ Here # "status-final"
                  \/ PriceStops(told)
                  \/ Run.launch /\ Phase(Run) \notin Expected(Here)
                  \/ ~Run.launch /\ Here \notin {"deploy", "create-launch"}
               THEN Idle
               ELSE [pass EXCEPT !.pc = "prompt", !.reached = pass.from # "none"]
    /\ UNCHANGED <<clusters, marker, runs, price, spent>>

Guards == GuardsWith(TRUE) /\ UNCHANGED faults

\* Jupiter does not answer.
NoPrice == pass.i <= Len(Steps) /\ Here \in PriceSteps /\ GuardsWith(FALSE) /\ Fault

\* An operator who is asked does as the recovery notes say and skips what has landed;
\* where nobody is asked it goes on.
Answer ==
    /\ pass.pc = "prompt"
    /\ IF Run.asks /\ Here \in NotIdempotent /\ Run.landed[Here] > 0
       THEN runs' = Mark("skipped") /\ pass' = GoOn
       ELSE pass' = [pass EXCEPT !.pc = "send"] /\ UNCHANGED runs
    /\ UNCHANGED <<clusters, marker, price, spent, faults>>

-----------------------------------------------------------------------------

Offer == IF 100 - Run.reserve > 50 THEN 50 ELSE 100 - Run.reserve

\* Who pays what for a step, and whether the step can succeed.
Price(step) ==
    CASE step = "create-launch" -> [w |-> "creator", amount |-> 10]
      [] step = "buy1" -> [w |-> "buyer1", amount |-> 45]
      [] step = "buy2" -> [w |-> "buyer2", amount |-> Offer]
      [] step = "damm-buy" -> [w |-> "buyer1", amount |-> 5]
      [] OTHER -> [w |-> "creator", amount |-> 0]

Can(step) ==
    /\ Chain.spyx[Price(step).w] >= Price(step).amount
    /\ CASE step = "deploy" -> Chain.program # "absent" \/ Chain.sol >= DeployCost
         [] step = "create-launch" -> Chain.program = "match"
         [] step = "buy1" -> Run.reserve <= 55
         [] step = "buy2" -> Run.reserve >= 50
         [] OTHER -> TRUE

\* solana program deploy goes on with its buffer; a program that is there is left.
RentDue == Chain.program = "absent"

PayRent(program) ==
    clusters' = [clusters EXCEPT ![pass.cluster] =
                    [Chain EXCEPT !.program = program, !.sol = IF RentDue THEN @ - DeployCost ELSE @,
                              !.paid = IF RentDue THEN @ + 1 ELSE @]]

\* The session of a launch that has landed sends nothing more.
Again(step) == step = "create-launch" /\ Run.landed[step] > 0

Lands(status) ==
    /\ Can(Here)
    /\ IF Here = "deploy" THEN PayRent("match")
       ELSE clusters' = [clusters EXCEPT ![pass.cluster].spyx[Price(Here).w] =
                            IF Again(Here) THEN @ ELSE @ - Price(Here).amount]
    /\ runs' = [runs EXCEPT ![pass.run] =
                   [Run EXCEPT !.landed[Here] = IF Again(Here) THEN @ ELSE @ + 1,
                             !.steps[Here] = status,
                             !.launch = @ \/ (Here = "create-launch" /\ status = "done"),
                             !.reserve = IF Here \in {"create-launch", "buy1", "buy2"} /\ ~Again(Here)
                                         THEN @ + Price(Here).amount ELSE @,
                             !.graduated = @ \/ Here = "crank-graduate"]]
    /\ spent' = IF pass.cluster = "mainnet" THEN spent \cup {<<Run.marker, pass.run>>} ELSE spent
    /\ UNCHANGED <<marker, price>>

Send == pass.pc = "send" /\ Lands("done") /\ pass' = GoOn /\ UNCHANGED faults

\* It lands and nobody hears of it: a timeout, a kill, a node that lags.
SendUnconfirmed == pass.pc = "send" /\ Lands("todo") /\ pass' = Idle /\ Fault

\* It does not land, or only the deploy's buffer is written.
SendFails ==
    /\ pass.pc = "send" /\ Can(Here) /\ Fault /\ pass' = Idle
    /\ IF Here = "deploy" /\ Chain.program # "match" THEN PayRent("buffer") ELSE UNCHANGED clusters
    /\ UNCHANGED <<marker, runs, price, spent>>

Refused == pass.pc = "send" /\ ~Can(Here) /\ Abort

Finish ==
    /\ pass.pc = "step" /\ pass.i > Len(Steps)
    /\ runs' = [runs EXCEPT ![pass.run].outcome = "completed"]
    /\ pass' = Idle
    /\ UNCHANGED <<clusters, marker, price, spent, faults>>

\* Ctrl-C, abort at a prompt, the end of input.
Interrupted ==
    /\ pass.pc # "idle" /\ Fault /\ pass' = Idle
    /\ UNCHANGED <<clusters, marker, runs, price, spent>>

-----------------------------------------------------------------------------

\* Anyone may crank, or buy the rest of the curve; the issuer may pause for a while, the
\* price move, and back or not;
\* the user tops up a wallet that has become too poor for the preflight.
OthersTrade ==
    /\ \E r \in DOMAIN runs :
          /\ runs[r].mode = "mainnet"
          /\ \/ runs[r].reserve = 100 /\ ~runs[r].graduated
                /\ runs' = [runs EXCEPT ![r].graduated = TRUE] /\ UNCHANGED faults
             \/ runs[r].reserve \in 1..99 /\ Fault /\ runs' = [runs EXCEPT ![r].reserve = 100]
    /\ UNCHANGED <<clusters, marker, pass, price, spent>>

Pause ==
    /\ ~clusters["mainnet"].blocked /\ Fault
    /\ clusters' = [clusters EXCEPT !["mainnet"].blocked = TRUE]
    /\ UNCHANGED <<marker, runs, pass, price, spent>>
Unpause ==
    /\ clusters["mainnet"].blocked
    /\ clusters' = [clusters EXCEPT !["mainnet"].blocked = FALSE]
    /\ UNCHANGED <<marker, runs, pass, price, spent, faults>>

TopUp ==
    /\ pass.pc = "idle"
    /\ LET c == clusters["mainnet"]
       IN  /\ c.sol < DeployCost \/ \E w \in DOMAIN Needs : c.spyx[w] < Needs[w]
           /\ clusters' = [clusters EXCEPT !["mainnet"].sol = IF @ < DeployCost THEN DeployCost ELSE @,
                                           !["mainnet"].spyx = Given]
    /\ UNCHANGED <<marker, runs, pass, price, spent, faults>>

\* When it moves matters only to the next look at it.
PriceMoves ==
    /\ pass.pc \in {"idle", "step"}
    /\ Fault /\ \E p \in Prices \ {price} : price' = p
    /\ UNCHANGED <<clusters, marker, runs, pass, spent>>

Goes == Preflight \/ PassOver \/ Guards \/ Answer \/ Send \/ Refused \/ Finish

Next ==
    \/ WriteMarker \/ Start \/ (\E id \in 1..MaxRuns, c \in Clusters : Resume(id, c)) \/ Goes \/ NoPrice \/ SendUnconfirmed \/ SendFails
    \/ Interrupted \/ OthersTrade \/ Pause \/ Unpause \/ TopUp \/ PriceMoves

\* The operator resumes what was interrupted on the right cluster, the user tops up,
\* a pause ends.
Fairness ==
    /\ WF_vars(Goes) /\ WF_vars(Unpause) /\ SF_vars(TopUp)
    /\ \A id \in 1..MaxRuns : SF_vars(Resume(id, "mainnet"))

Spec == Init /\ [][Next]_vars /\ Fairness

-----------------------------------------------------------------------------

TypeOK ==
    /\ marker \in 0..MaxMarkers /\ faults \in 0..MaxFaults
    /\ \A c \in DOMAIN clusters :
          /\ clusters[c].sol \in Nat
          /\ \A w \in DOMAIN Needs : clusters[c].spyx[w] \in Nat
          /\ clusters[c].program \in {"absent", "buffer", "match"}
    /\ pass.pc \in {"idle", "preflight", "step", "prompt", "send"} /\ pass.run \in 0..Len(runs)
    /\ price \in Prices

\* Buys, sales and redemptions are not idempotent: however often a run is interrupted
\* and resumed, each lands once, if its operator is asked; the rent of the program is
\* paid once even if nobody is.
SentOnce ==
    /\ \A r \in DOMAIN runs : runs[r].asks => \A s \in NotIdempotent : runs[r].landed[s] <= 1
    /\ clusters["mainnet"].paid <= 1

\* One approval pays for one run.
OneRunPerMarker == \A p, q \in spent : p[1] = q[1] => p[2] = q[2]

\* A dry run sends nothing to mainnet.
DryStaysLocal == \A p \in spent : runs[p[2]].mode = "mainnet"

RunsGuarded == SentOnce /\ OneRunPerMarker /\ DryStaysLocal

\* A run that was interrupted is completed: its operator resumes it and tops up what
\* the preflight misses; unless the price stays away from the one it was planned at
\* while a step is still to do whose amount comes from it.
Bound(r) == r \in DOMAIN runs /\ runs[r].marker > 0
HeldUp(run) == run.plan # "none" /\ Drifted(run) /\ \E s \in PriceSteps : run.steps[s] = "todo"
RunsComplete ==
    \A r \in 1..MaxRuns :
        Bound(r) ~> /\ Bound(r)
                    /\ runs[r].outcome = "completed" \/ runs[r].marker # marker \/ HeldUp(runs[r])
=============================================================================
