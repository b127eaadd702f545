------------------------------- MODULE TxFlow -------------------------------
(***************************************************************************)
(* The reducer of app/src/lib/chain/txFlow.ts: what the user is shown of   *)
(* an action that sends several transactions.  A flow is a status and the  *)
(* status of every step; an event that does not fit changes nothing.       *)
(* Nothing dispatches the event "resume": a retry starts the flow anew.    *)
(***************************************************************************)
EXTENDS Naturals

Idle == [status |-> "idle", steps |-> [id \in {} |-> "pending"]]

Open == {"pending", "active"}

Running(f) == f.status = "running"

Move(f, id, from, to) ==
    IF Running(f) /\ id \in DOMAIN f.steps /\ f.steps[id] \in from
    THEN [f EXCEPT !.steps[id] = to] ELSE f

Start(f, ids) ==
    IF Running(f) THEN f
    ELSE [status |-> "running", steps |-> [id \in ids |-> "pending"]]

StepsAdded(f, ids) ==
    IF ~Running(f) THEN f
    ELSE [f EXCEPT !.steps = [id \in DOMAIN f.steps \cup ids |->
                                 IF id \in DOMAIN f.steps THEN f.steps[id] ELSE "pending"]]

StepStarted(f, id) ==
    IF \E i \in DOMAIN f.steps : f.steps[i] = "active" THEN f
    ELSE Move(f, id, {"pending"}, "active")

StepSucceeded(f, id) == Move(f, id, Open, "done")

StepSkipped(f, id) == Move(f, id, Open, "skipped")

\* Mutant: a step that is over may still fail.
StepFailedLate(f, id, terminal) ==
    LET next == Move(f, id, Open \cup {"done"}, "failed")
    IN  IF next # f /\ terminal THEN [next EXCEPT !.status = "failed"] ELSE next
StepFailed(f, id, terminal) ==
    LET next == Move(f, id, Open, "failed")
    IN  IF next # f /\ terminal THEN [next EXCEPT !.status = "failed"] ELSE next

SkipPending(f) ==
    IF ~Running(f) THEN f
    ELSE [f EXCEPT !.steps = [id \in DOMAIN f.steps |->
                                 IF f.steps[id] = "pending" THEN "skipped" ELSE f.steps[id]]]

\* Mutant: a flow with failed steps may finish.
FinishAnyhow(f) ==
    IF Running(f) /\ \A id \in DOMAIN f.steps : f.steps[id] \notin Open
    THEN [f EXCEPT !.status = "succeeded"] ELSE f
Finish(f) ==
    IF Running(f) /\ \A id \in DOMAIN f.steps : f.steps[id] \in {"done", "skipped"}
    THEN [f EXCEPT !.status = "succeeded"] ELSE f

\* Mutant: a flow that is over may still fail.
FailAlways(f) ==
    [status |-> "failed",
     steps |-> [id \in DOMAIN f.steps |->
                   IF f.steps[id] = "active" THEN "failed" ELSE f.steps[id]]]
Fail(f) ==
    IF f.status = "succeeded" THEN f
    ELSE [status |-> "failed",
          steps |-> [id \in DOMAIN f.steps |->
                        IF f.steps[id] = "active" THEN "failed" ELSE f.steps[id]]]

Statuses == {"idle", "running", "succeeded", "failed"}
StepStatuses == Open \cup {"done", "failed", "skipped"}

\* A flow over the steps ids; at most one of them is active.
IsFlow(f, ids) ==
    /\ f.status \in Statuses
    /\ DOMAIN f.steps \subseteq ids
    /\ \A id \in DOMAIN f.steps : f.steps[id] \in StepStatuses
    /\ \A i, j \in DOMAIN f.steps : f.steps[i] = "active" /\ f.steps[j] = "active" => i = j

=============================================================================
