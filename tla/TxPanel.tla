------------------------------- MODULE TxPanel -------------------------------
(***************************************************************************)
(* A panel of the token page, its flow, and the calls of ChainLaunchActions*)
(* (redeem, trade, crank) that report to that flow.  The panel lets the    *)
(* user press its button again before a call has returned: RedeemPanel     *)
(* when the amount is edited meanwhile.  A call that was overtaken goes on *)
(* and reports to the same flow.                                           *)
(***************************************************************************)
EXTENDS Naturals, SequencesExt

CONSTANTS
    MaxCalls,   \* bound: times the button is pressed
    MaxSends    \* bound: transactions of one crank call

VARIABLES
    panel,     \* which panel: redeem, trade or crank
    busy,      \* the panel's pending flag
    calls,     \* the calls made so far
    flow,      \* what is shown
    overtaken  \* history: the button was pressed before the last call returned

vars == <<panel, busy, calls, flow, overtaken>>

F == INSTANCE TxFlow

\* The steps of one call: a trade may go through Jupiter before or after.
Plans ==
    CASE panel = "redeem" -> {<<"redeem">>}
      [] panel = "trade" -> {<<"swap">>, <<"jupiter">>, <<"jupiter", "swap">>, <<"swap", "jupiter">>}
      [] panel = "crank" -> {<<"a", "b">>}

\* A crank that plans again may find an action that its first plan had not.
Ids == {"redeem", "swap", "jupiter", "a", "b", "c"}

\* A call: where it is, its steps still to do, those of its transactions that
\* landed, and those it counted as failed.
Begun(plan) == [pc |-> "begin", todo |-> plan, landed |-> {}, failed |-> {}, sends |-> 0]

Init ==
    /\ panel \in {"redeem", "trade", "crank"}
    /\ busy = FALSE
    /\ calls = <<>>
    /\ flow = F!Idle
    /\ overtaken = FALSE

Newest == calls[Len(calls)]
AllOver == \A k \in DOMAIN calls : calls[k].pc = "over"

-----------------------------------------------------------------------------
(* The panel.                                                              *)

Press ==
    /\ ~busy /\ Len(calls) < MaxCalls
    /\ busy' = TRUE
    /\ flow' = F!Idle
    /\ \E plan \in Plans : calls' = Append(calls, Begun(plan))
    /\ overtaken' = (overtaken \/ ~AllOver)
    /\ UNCHANGED panel

\* Editing the amount: only RedeemPanel takes the run for over.
Edit ==
    /\ panel = "redeem"
    /\ busy' = FALSE
    /\ flow' = IF F!Running(flow) THEN flow ELSE F!Idle
    /\ UNCHANGED <<panel, calls, overtaken>>

SwitchSide ==
    /\ panel = "trade"
    /\ flow' = F!Idle
    /\ UNCHANGED <<panel, busy, calls, overtaken>>

-----------------------------------------------------------------------------
(* One call, number k.                                                     *)

Is(k, pc) == calls[k].pc = pc
Goes(k, c) == calls' = [calls EXCEPT ![k] = c]
Returns(k, c) == Goes(k, [c EXCEPT !.pc = "over"]) /\ busy' = FALSE
Step(k) == Head(calls[k].todo)

\* Wallet, cluster, amount or balance: the call may fail before it has a step.
Begin(k) ==
    /\ Is(k, "begin")
    /\ \/ /\ flow' = F!Start(flow, {calls[k].todo[i] : i \in DOMAIN calls[k].todo})
          /\ Goes(k, [calls[k] EXCEPT !.pc = "read"]) /\ UNCHANGED busy
       \/ flow' = F!Fail(flow) /\ Returns(k, calls[k])
    /\ UNCHANGED <<panel, overtaken>>

\* Between two steps it reads the chain, which may fail too.
Read(k) ==
    /\ panel # "crank" /\ Is(k, "read")
    /\ \/ /\ calls[k].todo # <<>>
          /\ flow' = F!StepStarted(flow, Step(k))
          /\ Goes(k, [calls[k] EXCEPT !.pc = "send"]) /\ UNCHANGED busy
       \/ /\ calls[k].todo = <<>>
          /\ flow' = F!Finish(flow) /\ Returns(k, calls[k])
       \/ flow' = F!Fail(flow) /\ Returns(k, calls[k])
    /\ UNCHANGED <<panel, overtaken>>

\* Mutant: a call goes on before its transaction is confirmed.
LandedSoon(k) == calls[k].landed
\* send returns once the transaction is confirmed.
Landed(k) == calls[k].landed \cup {Step(k)}

\* The transaction is confirmed, or it is not and may have landed all the same.
Send(k) ==
    /\ panel # "crank" /\ Is(k, "send")
    /\ LET landed == [calls[k] EXCEPT !.landed = Landed(k)]
       IN  \/ /\ flow' = F!StepSucceeded(flow, Step(k))
              /\ Goes(k, [landed EXCEPT !.pc = "read", !.todo = Tail(@)]) /\ UNCHANGED busy
           \/ /\ flow' = F!Fail(F!StepFailed(flow, Step(k), TRUE))
              /\ \E c \in {landed, calls[k]} : Returns(k, c)
    /\ UNCHANGED <<panel, overtaken>>

CrankSends(k, id, rest) ==
    /\ flow' = F!StepStarted(F!StepsAdded(flow, {id}), id)
    /\ Goes(k, [calls[k] EXCEPT !.pc = "send", !.sends = @ + 1, !.todo = <<id>> \o rest])

\* runCrank sends an action of the plan, or one it has found meanwhile.
CrankSend(k) ==
    /\ panel = "crank" /\ Is(k, "read")
    /\ calls[k].sends < MaxSends
    /\ \/ \E i \in DOMAIN calls[k].todo : CrankSends(k, calls[k].todo[i], RemoveAt(calls[k].todo, i))
       \/ "c" \notin DOMAIN flow.steps /\ CrankSends(k, "c", calls[k].todo)
    /\ UNCHANGED <<panel, busy, overtaken>>

\* Executed, done by someone else, failed; or declined in the wallet, which ends
\* the call; or the reads after it fail.
CrankSent(k) ==
    /\ panel = "crank" /\ Is(k, "send")
    /\ LET c == [calls[k] EXCEPT !.pc = "read", !.todo = Tail(@)]
       IN  \/ /\ flow' = F!StepSucceeded(flow, Step(k))
              /\ Goes(k, [c EXCEPT !.landed = Landed(k)]) /\ UNCHANGED busy
           \/ flow' = F!StepSkipped(flow, Step(k)) /\ Goes(k, c) /\ UNCHANGED busy
           \/ /\ flow' = F!StepFailed(flow, Step(k), FALSE)
              /\ Goes(k, [c EXCEPT !.failed = @ \cup {Step(k)}]) /\ UNCHANGED busy
           \/ flow' = F!Fail(F!SkipPending(flow)) /\ Returns(k, c)
           \/ flow' = F!Fail(flow) /\ Returns(k, c)
    /\ UNCHANGED <<panel, overtaken>>

\* Mutant: failures are left to the reducer.
CrankOutcomeFinish(c, f) == F!Finish(F!SkipPending(f))
CrankOutcome(c, f) ==
    IF c.failed # {} THEN F!Fail(F!SkipPending(f)) ELSE F!Finish(F!SkipPending(f))

\* The run is over; or reading, before the first transaction, fails.
CrankEnds(k) ==
    /\ panel = "crank" /\ Is(k, "read")
    /\ \/ flow' = CrankOutcome(calls[k], flow)
       \/ calls[k].sends = 0 /\ flow' = F!Fail(flow)
    /\ Returns(k, calls[k])
    /\ UNCHANGED <<panel, overtaken>>

Call(k) == Begin(k) \/ Read(k) \/ Send(k) \/ CrankSend(k) \/ CrankSent(k) \/ CrankEnds(k)

Next == Press \/ Edit \/ SwitchSide \/ \E k \in DOMAIN calls : Call(k)

Spec == Init /\ [][Next]_vars

-----------------------------------------------------------------------------

\* Types of the panel, the flow and the calls.
TypeOK ==
    /\ panel \in {"redeem", "trade", "crank"} /\ busy \in BOOLEAN /\ overtaken \in BOOLEAN
    /\ F!IsFlow(flow, Ids)
    /\ Len(calls) <= MaxCalls
    /\ \A k \in DOMAIN calls :
          /\ calls[k].pc \in {"begin", "read", "send", "over"}
          /\ calls[k].landed \subseteq Ids /\ calls[k].failed \subseteq Ids

\* When every call has returned, nothing is shown as running.
NoOrphanSpinner == AllOver => ~F!Running(flow)

\* A flow shown as succeeded tells of transactions that landed; of the newest
\* call's, as long as no call has been overtaken.
SuccessIsTrue ==
    flow.status = "succeeded" =>
       /\ \A id \in DOMAIN flow.steps :
             flow.steps[id] = "done" => \E k \in DOMAIN calls : id \in calls[k].landed
       /\ ~overtaken => /\ Newest.pc = "over" /\ Newest.failed = {}
                        /\ \A id \in DOMAIN flow.steps :
                              flow.steps[id] = "done" => id \in Newest.landed

\* "A late callback can never move a finished flow backwards" (txFlow.ts:3-4): until
\* it is reset or started again, what is over stays as it is.
Over == {"done", "skipped", "failed"}
Restarted == ~F!Running(flow) /\ F!Running(flow') /\ Range(flow'.steps) \subseteq {"pending"}

NeverBackwards ==
    [][\/ flow' = F!Idle \/ Restarted
       \/ /\ flow.status = "succeeded" => flow'.status = "succeeded"
          /\ \A id \in DOMAIN flow.steps : flow.steps[id] \in Over => flow'.steps[id] = flow.steps[id]]_flow

\* What is shown is always of the newest call.
FlowOfNewest ==
    flow.status = "succeeded" =>
       \A id \in DOMAIN flow.steps : flow.steps[id] = "done" => id \in Newest.landed

=============================================================================
