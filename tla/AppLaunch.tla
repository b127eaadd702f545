------------------------------ MODULE AppLaunch ------------------------------
(***************************************************************************)
(* Creating a launch in the web application: CreateLaunchForm, which keeps *)
(* the handle of a retry, ChainLaunchActions.createLaunch, which keeps the *)
(* session the handle names in the memory of the page, and runSteps.       *)
(***************************************************************************)
EXTENDS LaunchTxs, Functions

VARIABLES
    sessions,  \* the session map: the finished steps of each unfinished launch
    form,      \* the form's submit state
    run,       \* the call of createLaunch in progress
    flow       \* the progress shown

F == INSTANCE TxFlow

appVars == <<sessions, form, run, flow>>
vars == <<chain, plans, transit, late, faults, appVars>>

Off == [pc |-> "off", l |-> 0]

AppInit ==
    /\ sessions = <<>>
    /\ form = [status |-> "idle", resume |-> 0]
    /\ run = Off
    /\ flow = F!Idle

Init == LaunchTxsInit /\ AppInit

Todo(l) == plans[l] \ sessions[l]

-----------------------------------------------------------------------------
(* The form.  It is locked while a retry is pending.                       *)

Submit ==
    /\ form.status \in {"idle", "failed"} /\ form.resume = 0
    /\ \E l \in Launches : Fresh(l)
    /\ form' = [status |-> "submitting", resume |-> 0]
    /\ run' = [pc |-> "prepare", l |-> 0]
    /\ flow' = F!Idle
    /\ UNCHANGED <<chain, plans, transit, late, faults, sessions>>

Retry ==
    /\ form.status = "failed" /\ form.resume # 0
    /\ form' = [status |-> "submitting", resume |-> 0]
    /\ run' = [pc |-> "prepare", l |-> form.resume]
    /\ UNCHANGED <<chain, plans, transit, late, faults, sessions, flow>>

StartOver ==
    /\ form.status = "failed"
    /\ form' = [status |-> "idle", resume |-> 0]
    /\ flow' = F!Idle
    /\ UNCHANGED <<chain, plans, transit, late, faults, sessions, run>>

-----------------------------------------------------------------------------
(* createLaunch.                                                           *)

\* A failure: the handle is given out for a session that is in the map.
Ends(f, l) ==
    /\ form' = [status |-> "failed", resume |-> l]
    /\ flow' = F!Fail(f)
    /\ run' = Off

\* Wallet, cluster, issuer or balance: before a session is made or looked up.
PrepareFails ==
    /\ run.pc = "prepare"
    /\ Fault
    /\ Ends(flow, 0)
    /\ UNCHANGED <<chain, plans, transit, late, sessions>>

Prepare ==
    /\ run.pc = "prepare" /\ run.l = 0
    /\ \E l \in Launches, firstBuy \in BOOLEAN :
          /\ Fresh(l)
          /\ \E plan \in Plans(firstBuy) :
                /\ plans' = [plans EXCEPT ![l] = plan]
                /\ flow' = F!Start(flow, plan)
          /\ sessions' = [k \in {l} \cup DOMAIN sessions |-> IF k = l THEN {} ELSE sessions[k]]
          /\ run' = [pc |-> "check", l |-> l]
    /\ UNCHANGED <<chain, transit, late, faults, form>>

\* The steps of the earlier attempt are shown as done.
PrepareRetry ==
    /\ run.pc = "prepare" /\ run.l # 0
    /\ run' = [run EXCEPT !.pc = "check"]
    /\ LET f == F!Start(flow, plans[run.l])
       IN  flow' = [f EXCEPT !.steps = [t \in DOMAIN f.steps |->
                                          IF t \in sessions[run.l] THEN "done" ELSE f.steps[t]]]
    /\ UNCHANGED <<chain, plans, transit, late, faults, sessions, form>>

\* Mutants: the pool is not looked up; the combined transaction is not recognised either.
AlreadyDoneByLaunch(l, t) == t # "buy" /\ chain[l].launch
AlreadyDoneConfigOnly(l, t) == t = "config" /\ chain[l].launch
\* alreadyDone: nothing tells whether a first buy has landed.
AlreadyDone(l, t) ==
    \/ t = "config" /\ chain[l].launch
    \/ t \in {"pool", "poolBuy"} /\ chain[l].pool

\* Mutant: a first buy is not remembered.
RemembersAllButBuy(l, t) == IF t = "buy" THEN sessions ELSE [sessions EXCEPT ![l] = @ \cup {t}]
Remembers(l, t) == [sessions EXCEPT ![l] = @ \cup {t}]

Check ==
    /\ run.pc = "check" /\ Todo(run.l) # {}
    /\ LET t == FirstOf(Todo(run.l))
           started == F!StepStarted(flow, t)
       IN  \/ /\ AlreadyDone(run.l, t)
              /\ sessions' = Remembers(run.l, t)
              /\ flow' = F!StepSucceeded(started, t)
              /\ UNCHANGED <<form, run, faults>>
           \/ /\ ~AlreadyDone(run.l, t)
              /\ run' = [run EXCEPT !.pc = "send"]
              /\ flow' = started
              /\ UNCHANGED <<sessions, form, faults>>
           \/ /\ Fault
              /\ Ends(F!StepFailed(started, t, TRUE), run.l)
              /\ UNCHANGED sessions
    /\ UNCHANGED <<chain, plans, transit, late>>

Send ==
    /\ run.pc = "send"
    /\ LET t == FirstOf(Todo(run.l))
       IN  \/ /\ Confirmed(run.l, t)
              /\ sessions' = Remembers(run.l, t)
              /\ flow' = F!StepSucceeded(flow, t)
              /\ run' = [run EXCEPT !.pc = "check"]
              /\ UNCHANGED form
           \/ /\ Refused(run.l, t) \/ Unheard(run.l, t)
              /\ Ends(F!StepFailed(flow, t, TRUE), run.l)
              /\ UNCHANGED sessions
    /\ UNCHANGED plans

Created ==
    /\ run.pc = "check" /\ Todo(run.l) = {}
    /\ sessions' = Restrict(sessions, DOMAIN sessions \ {run.l})
    /\ flow' = F!Finish(flow)
    /\ form' = [status |-> "created", resume |-> 0]
    /\ run' = [run EXCEPT !.pc = "off"]
    /\ UNCHANGED <<chain, plans, transit, late, faults>>

\* The page is reloaded: the memory of form, flow and actions is gone.
Reload ==
    /\ Fault
    /\ sessions' = <<>>
    /\ form' = [status |-> "idle", resume |-> 0]
    /\ run' = Off
    /\ flow' = F!Idle
    /\ UNCHANGED <<chain, plans, transit, late>>

Works == PrepareRetry \/ Prepare \/ Check \/ Send \/ Created

Next ==
    \/ Submit \/ Retry \/ StartOver \/ PrepareFails \/ Works \/ Reload
    \/ (Lands \/ Expires) /\ UNCHANGED appVars

\* A call that can go on does, and somebody presses Retry.
Fairness == WF_vars(Works) /\ WF_vars(Retry)

Spec == Init /\ [][Next]_vars /\ Fairness

-----------------------------------------------------------------------------

\* Types; a handle names a session that is in the map.
TypeOK ==
    /\ LaunchTxsTypeOK
    /\ DOMAIN sessions \subseteq Launches
    /\ \A l \in DOMAIN sessions : sessions[l] \subseteq plans[l]
    /\ form.status \in {"idle", "submitting", "created", "failed"}
    /\ form.resume \in DOMAIN sessions \cup {0}
    /\ run.pc \in {"off", "prepare", "check", "send"} /\ run.l \in Launches \cup {0}
    /\ F!IsFlow(flow, Labels)

\* However often it is retried, a launch buys more than once only if a first buy
\* with a transaction of its own landed after createLaunch had given up on it.
BuysOnceUnlessLate == \A l \in Launches : chain[l].buys <= 1 + late[l]

\* createLaunch(resume): "finished transactions are not sent again"
\* (app/src/lib/data/types.ts:164).
FinishedNotSentAgain == \A l \in Launches : chain[l].buys <= 1

\* What the form and the flow say happened has happened on chain.
ShownIsTrue ==
    /\ run.l # 0 /\ flow.status \in {"running", "succeeded"} =>
          \A t \in DOMAIN flow.steps : flow.steps[t] = "done" => OnChain(run.l, t)
    /\ form.status = "created" => Complete(run.l) /\ flow.status = "succeeded"

\* A launch that offers a retry is completed, unless its handle is dropped: the
\* user starts over or reloads, or a retry fails before it finds its session.
Dropped(l) == run.l # l /\ form.resume # l

RetryCompletes == \A l \in Launches : (form.resume = l) ~> (Complete(l) \/ Dropped(l))

\* Pass back to retry from the failed step (app/src/lib/data/types.ts:123): while
\* the page lives, a failed retry can be retried.
HandleKept ==
    [][\A l \in DOMAIN sessions :
          run = [pc |-> "prepare", l |-> l] /\ form'.status = "failed" => form'.resume = l]_vars

=============================================================================
