---------------------------- MODULE MCApp_proofs ----------------------------
(***************************************************************************)
(* The programs around the chain: an inductive invariant for each part of  *)
(* MCApp, and that together they are one of the whole.  Of each part there *)
(* are four lemmas: it starts so, a step of the part keeps it, it holds    *)
(* where the part rests, and what the properties ask follows from it.      *)
(***************************************************************************)
EXTENDS MCApp, Arithmetic_proofs, SequenceTheorems

-----------------------------------------------------------------------------
(***************************************************************************)
(* TxPanel: the reducer of what is shown, and the calls that report to it. *)
(***************************************************************************)

\* A flow over the steps of the panels.
Shown(f) == DOMAIN f = {"status", "steps"} /\ Panel!F!IsFlow(f, Panel!Ids)

\* g comes after f: what is over stays as it is.
Onward(f, g) ==
    /\ f.status = "succeeded" => g.status = "succeeded"
    /\ \A id \in DOMAIN f.steps :
          id \in DOMAIN g.steps /\ (f.steps[id] \in Panel!Over => g.steps[id] = f.steps[id])

\* Nothing is shown as done in g that was not in f.
DoneFrom(f, g) ==
    \A id \in DOMAIN g.steps : g.steps[id] = "done" => id \in DOMAIN f.steps /\ f.steps[id] = "done"

\* f is over, but for a success that it told of before.
Stopped(f, g) ==
    /\ Shown(g) /\ Onward(f, g) /\ DoneFrom(f, g)
    /\ ~Panel!F!Running(g) /\ (g.status = "succeeded" => f.status = "succeeded")

\* Step id of f, if it is one of from, is now to; the others are as they were.
Moved(f, g, id, from, to) ==
    /\ Shown(g) /\ g.status = f.status /\ DOMAIN g.steps = DOMAIN f.steps
    /\ \A i \in DOMAIN f.steps :
          g.steps[i] = IF i = id /\ Panel!F!Running(f) /\ f.steps[i] \in from THEN to ELSE f.steps[i]

LEMMA MoveMoves ==
  ASSUME NEW f, Shown(f), NEW id, NEW from, NEW to \in {"done", "skipped", "failed"}
  PROVE  Moved(f, Panel!F!Move(f, id, from, to), id, from, to)
<1> DEFINE g == [f EXCEPT !.steps[id] = to]
<1>1. CASE Panel!F!Running(f) /\ id \in DOMAIN f.steps /\ f.steps[id] \in from
  <2>1. Panel!F!Move(f, id, from, to) = g
    BY <1>1 DEF Panel!F!Move
  <2>2. g.status = f.status /\ g.steps = [f.steps EXCEPT ![id] = to]
    OBVIOUS
  <2>3. /\ DOMAIN g.steps = DOMAIN f.steps
        /\ \A i \in DOMAIN f.steps : g.steps[i] = IF i = id THEN to ELSE f.steps[i]
    BY <2>2
  <2>4. Shown(g)
    BY <2>2, <2>3 DEF Shown, Panel!F!IsFlow, Panel!F!StepStatuses, Panel!F!Open
  <2> HIDE DEF g
  <2> QED BY <1>1, <2>1, <2>2, <2>3, <2>4 DEF Moved
<1>2. CASE ~(Panel!F!Running(f) /\ id \in DOMAIN f.steps /\ f.steps[id] \in from)
  <2>1. Panel!F!Move(f, id, from, to) = f
    BY <1>2 DEF Panel!F!Move
  <2> QED BY <1>2, <2>1 DEF Moved
<1> QED BY <1>1, <1>2

LEMMA StartedMoves ==
  ASSUME NEW f, Shown(f), NEW id
  PROVE  LET g == Panel!F!StepStarted(f, id)
         IN  /\ Shown(g) /\ g.status = f.status /\ DOMAIN g.steps = DOMAIN f.steps
             /\ \A i \in DOMAIN f.steps :
                   \/ g.steps[i] = f.steps[i]
                   \/ i = id /\ f.steps[i] = "pending" /\ g.steps[i] = "active"
<1> DEFINE g == [f EXCEPT !.steps[id] = "active"]
<1>1. CASE /\ ~\E i \in DOMAIN f.steps : f.steps[i] = "active"
           /\ Panel!F!Running(f) /\ id \in DOMAIN f.steps /\ f.steps[id] = "pending"
  <2>1. Panel!F!StepStarted(f, id) = g
    BY <1>1 DEF Panel!F!StepStarted, Panel!F!Move
  <2>2. g.status = f.status /\ g.steps = [f.steps EXCEPT ![id] = "active"]
    OBVIOUS
  <2>3. /\ DOMAIN g.steps = DOMAIN f.steps
        /\ \A i \in DOMAIN f.steps : g.steps[i] = IF i = id THEN "active" ELSE f.steps[i]
    BY <2>2
  <2>4. Shown(g)
    BY <1>1, <2>2, <2>3 DEF Shown, Panel!F!IsFlow, Panel!F!StepStatuses, Panel!F!Open
  <2> HIDE DEF g
  <2> QED BY <1>1, <2>1, <2>2, <2>3, <2>4
<1>2. CASE ~(/\ ~\E i \in DOMAIN f.steps : f.steps[i] = "active"
             /\ Panel!F!Running(f) /\ id \in DOMAIN f.steps /\ f.steps[id] = "pending")
  <2>1. Panel!F!StepStarted(f, id) = f
    BY <1>2 DEF Panel!F!StepStarted, Panel!F!Move
  <2> QED BY <2>1
<1> QED BY <1>1, <1>2

LEMMA StartShown ==
  ASSUME NEW f, Shown(f), NEW ids \in SUBSET Panel!Ids
  PROVE  LET g == Panel!F!Start(f, ids)
         IN  /\ Shown(g) /\ Panel!F!Running(g)
             /\ \/ Panel!F!Running(f) /\ g = f
                \/ /\ ~Panel!F!Running(f) /\ DOMAIN g.steps = ids
                   /\ \A id \in ids : g.steps[id] = "pending"
<1> DEFINE g == [status |-> "running", steps |-> [id \in ids |-> "pending"]]
<1>1. CASE Panel!F!Running(f)
  BY <1>1 DEF Panel!F!Start
<1>2. CASE ~Panel!F!Running(f)
  <2>1. Panel!F!Start(f, ids) = g
    BY <1>2 DEF Panel!F!Start
  <2>2. Panel!F!Running(g) /\ DOMAIN g.steps = ids /\ \A id \in ids : g.steps[id] = "pending"
    BY DEF Panel!F!Running
  <2>3. Shown(g)
    BY <2>2 DEF Shown, Panel!F!IsFlow, Panel!F!Running, Panel!F!Statuses, Panel!F!StepStatuses, Panel!F!Open
  <2> QED BY <1>2, <2>1, <2>2, <2>3
<1> QED BY <1>1, <1>2

LEMMA FailShown ==
  ASSUME NEW f, Shown(f)
  PROVE  Stopped(f, Panel!F!Fail(f))
<1> DEFINE g == [status |-> "failed",
                 steps |-> [id \in DOMAIN f.steps |-> IF f.steps[id] = "active" THEN "failed" ELSE f.steps[id]]]
<1>1. CASE f.status = "succeeded"
  BY <1>1 DEF Panel!F!Fail, Stopped, Onward, DoneFrom, Panel!F!Running
<1>2. CASE f.status # "succeeded"
  <2>1. Panel!F!Fail(f) = g
    BY <1>2 DEF Panel!F!Fail
  <2>2. /\ g.status = "failed" /\ DOMAIN g.steps = DOMAIN f.steps
        /\ \A id \in DOMAIN f.steps : g.steps[id] = IF f.steps[id] = "active" THEN "failed" ELSE f.steps[id]
    OBVIOUS
  <2>3. Shown(g)
    BY <2>2 DEF Shown, Panel!F!IsFlow, Panel!F!Statuses, Panel!F!StepStatuses, Panel!F!Open
  <2> HIDE DEF g
  <2> QED BY <1>2, <2>1, <2>2, <2>3 DEF Stopped, Onward, DoneFrom, Panel!F!Running, Panel!Over
<1> QED BY <1>1, <1>2

\* A step that fails and ends the flow.
LEMMA StepFailShown ==
  ASSUME NEW f, Shown(f), NEW id
  PROVE  Stopped(f, Panel!F!Fail(Panel!F!StepFailed(f, id, TRUE)))
<1> DEFINE m == Panel!F!Move(f, id, Panel!F!Open, "failed")
           g == [m EXCEPT !.status = "failed"]
<1>1. Moved(f, m, id, Panel!F!Open, "failed")
  BY MoveMoves
<1>2. CASE m = f
  <2>1. Panel!F!StepFailed(f, id, TRUE) = f
    BY <1>2 DEF Panel!F!StepFailed
  <2> QED BY <2>1, FailShown
<1>3. CASE m # f
  <2>1. Panel!F!StepFailed(f, id, TRUE) = g
    BY <1>3 DEF Panel!F!StepFailed
  <2>2. Panel!F!Running(f)
    BY <1>3 DEF Panel!F!Move
  <2>3. m.status = f.status /\ DOMAIN m.steps = DOMAIN f.steps /\ Shown(m)
    BY <1>1 DEF Moved
  <2>4. \A i \in DOMAIN f.steps :
          m.steps[i] = f.steps[i] \/ (m.steps[i] = "failed" /\ f.steps[i] \in Panel!F!Open)
    BY <1>1 DEF Moved
  <2> HIDE DEF m
  <2>7. g.status = "failed" /\ g.steps = m.steps /\ DOMAIN g = {"status", "steps"}
    BY <2>3 DEF Shown
  <2>8. Shown(g)
    BY <2>3, <2>7 DEF Shown, Panel!F!IsFlow, Panel!F!Statuses
  <2> HIDE DEF g
  <2>9. Stopped(g, Panel!F!Fail(g))
    BY <2>8, FailShown
  <2>10. Onward(f, g) /\ DoneFrom(f, g)
    BY <2>2, <2>3, <2>4, <2>7 DEF Onward, DoneFrom, Panel!Over, Panel!F!Open, Panel!F!Running
  <2>11. Onward(f, Panel!F!Fail(g)) /\ DoneFrom(f, Panel!F!Fail(g))
    BY <2>2, <2>9, <2>10 DEF Stopped, Onward, DoneFrom, Panel!F!Running
  <2> QED BY <2>1, <2>7, <2>9, <2>11 DEF Stopped
<1> QED BY <1>2, <1>3

LEMMA FinishShown ==
  ASSUME NEW f, Shown(f)
  PROVE  LET g == Panel!F!Finish(f)
             Whole == \A id \in DOMAIN f.steps : f.steps[id] \in {"done", "skipped"}
         IN  /\ Shown(g) /\ g.steps = f.steps
             /\ g.status = IF Panel!F!Running(f) /\ Whole THEN "succeeded" ELSE f.status
             /\ Panel!F!Running(g) => g = f
<1> DEFINE g == [f EXCEPT !.status = "succeeded"]
           Whole == \A id \in DOMAIN f.steps : f.steps[id] \in {"done", "skipped"}
<1>1. CASE Panel!F!Running(f) /\ Whole
  <2>1. Panel!F!Finish(f) = g
    BY <1>1 DEF Panel!F!Finish
  <2>2. g.status = "succeeded" /\ g.steps = f.steps
    <3>1. "status" \in DOMAIN f
      BY DEF Shown
    <3> QED BY <3>1
  <2> QED BY <1>1, <2>1, <2>2 DEF Shown, Panel!F!IsFlow, Panel!F!Statuses, Panel!F!Running
<1>2. CASE ~(Panel!F!Running(f) /\ Whole)
  BY <1>2 DEF Panel!F!Finish
<1> QED BY <1>1, <1>2

LEMMA SkipShown ==
  ASSUME NEW f, Shown(f)
  PROVE  LET g == Panel!F!SkipPending(f)
         IN  /\ Shown(g) /\ g.status = f.status /\ DOMAIN g.steps = DOMAIN f.steps
             /\ Onward(f, g) /\ DoneFrom(f, g)
             /\ Panel!F!Running(f) =>
                   \A i \in DOMAIN f.steps :
                      g.steps[i] = IF f.steps[i] = "pending" THEN "skipped" ELSE f.steps[i]
<1> DEFINE s == [id \in DOMAIN f.steps |-> IF f.steps[id] = "pending" THEN "skipped" ELSE f.steps[id]]
           g == [f EXCEPT !.steps = s]
<1>1. CASE Panel!F!Running(f)
  <2>1. Panel!F!SkipPending(f) = g
    BY <1>1 DEF Panel!F!SkipPending
  <2>2. DOMAIN g = {"status", "steps"} /\ g.status = f.status /\ g.steps = s
    BY DEF Shown
  <2>3. /\ DOMAIN s = DOMAIN f.steps
        /\ \A i \in DOMAIN f.steps : s[i] = IF f.steps[i] = "pending" THEN "skipped" ELSE f.steps[i]
    OBVIOUS
  <2> HIDE DEF s, g
  <2>4. Shown(g)
    BY <2>2, <2>3 DEF Shown, Panel!F!IsFlow, Panel!F!StepStatuses, Panel!F!Open
  <2> QED BY <1>1, <2>1, <2>2, <2>3, <2>4 DEF Onward, DoneFrom, Panel!Over
<1>2. CASE ~Panel!F!Running(f)
  BY <1>2 DEF Panel!F!SkipPending, Onward, DoneFrom
<1> QED BY <1>1, <1>2

LEMMA StopsAfter ==
  ASSUME NEW f, NEW g, NEW h, Onward(f, g), DoneFrom(f, g), g.status = f.status, Stopped(g, h)
  PROVE  Stopped(f, h)
BY DEF Onward, DoneFrom, Stopped

LEMMA AddedShown ==
  ASSUME NEW f, Shown(f), NEW id \in Panel!Ids
  PROVE  LET g == Panel!F!StepsAdded(f, {id})
         IN  /\ Shown(g) /\ g.status = f.status
             /\ DOMAIN g.steps = IF Panel!F!Running(f) THEN DOMAIN f.steps \cup {id} ELSE DOMAIN f.steps
             /\ \A i \in DOMAIN g.steps :
                   g.steps[i] = IF i \in DOMAIN f.steps THEN f.steps[i] ELSE "pending"
<1> DEFINE s == [i \in DOMAIN f.steps \cup {id} |-> IF i \in DOMAIN f.steps THEN f.steps[i] ELSE "pending"]
           g == [f EXCEPT !.steps = s]
<1>1. CASE Panel!F!Running(f)
  <2>1. Panel!F!StepsAdded(f, {id}) = g
    BY <1>1 DEF Panel!F!StepsAdded
  <2>2. DOMAIN g = {"status", "steps"} /\ g.status = f.status /\ g.steps = s
    BY DEF Shown
  <2>3. /\ DOMAIN s = DOMAIN f.steps \cup {id}
        /\ \A i \in DOMAIN s : s[i] = IF i \in DOMAIN f.steps THEN f.steps[i] ELSE "pending"
    OBVIOUS
  <2> HIDE DEF s, g
  <2>4. Shown(g)
    BY <2>2, <2>3 DEF Shown, Panel!F!IsFlow, Panel!F!StepStatuses, Panel!F!Open
  <2> QED BY <1>1, <2>1, <2>2, <2>3, <2>4
<1>2. CASE ~Panel!F!Running(f)
  BY <1>2 DEF Panel!F!StepsAdded
<1> QED BY <1>1, <1>2

\* What runCrank makes of the flow when it is over.
LEMMA OutcomeShown ==
  ASSUME NEW f, Shown(f), NEW c
  PROVE  LET g == Panel!CrankOutcome(c, f)
         IN  /\ Shown(g) /\ Onward(f, g) /\ DoneFrom(f, g)
             /\ g.status = "succeeded" => f.status = "succeeded" \/ c.failed = {}
             /\ (Panel!F!Running(f) =>
                    \A id \in DOMAIN f.steps : f.steps[id] \in {"active", "failed"} => c.failed # {})
                => ~Panel!F!Running(g)
<1> DEFINE h == Panel!F!SkipPending(f)
<1>1. /\ Shown(h) /\ h.status = f.status /\ DOMAIN h.steps = DOMAIN f.steps
      /\ Onward(f, h) /\ DoneFrom(f, h)
      /\ Panel!F!Running(f) =>
            \A i \in DOMAIN f.steps :
               h.steps[i] = IF f.steps[i] = "pending" THEN "skipped" ELSE f.steps[i]
  BY SkipShown
<1>2. Panel!CrankOutcome(c, f) = IF c.failed # {} THEN Panel!F!Fail(h) ELSE Panel!F!Finish(h)
  BY DEF Panel!CrankOutcome
<1> HIDE DEF h
<1>3. CASE c.failed # {}
  <2>1. Stopped(f, Panel!F!Fail(h))
    BY <1>1, FailShown, StopsAfter
  <2> QED BY <1>2, <1>3, <2>1 DEF Stopped
<1>4. CASE c.failed = {}
  <2> DEFINE g == Panel!F!Finish(h)
             Whole == \A id \in DOMAIN h.steps : h.steps[id] \in {"done", "skipped"}
  <2>1. /\ Shown(g) /\ g.steps = h.steps
        /\ g.status = IF Panel!F!Running(h) /\ Whole THEN "succeeded" ELSE h.status
    BY <1>1, FinishShown
  <2> HIDE DEF g
  <2>2. Onward(f, g)
    BY <1>1, <2>1 DEF Onward, Panel!F!Running
  <2>3. DoneFrom(f, g)
    BY <1>1, <2>1 DEF DoneFrom
  <2>4. ASSUME Panel!F!Running(f) =>
                 \A id \in DOMAIN f.steps : f.steps[id] \in {"active", "failed"} => c.failed # {}
        PROVE  ~Panel!F!Running(g)
    <3>1. CASE Panel!F!Running(f)
      <4>1. \A id \in DOMAIN f.steps : f.steps[id] \in {"pending", "done", "skipped"}
        BY <1>4, <2>4, <3>1 DEF Shown, Panel!F!IsFlow, Panel!F!StepStatuses, Panel!F!Open
      <4>2. Whole
        BY <1>1, <3>1, <4>1
      <4> QED BY <1>1, <2>1, <3>1, <4>2 DEF Panel!F!Running
    <3>2. CASE ~Panel!F!Running(f)
      BY <1>1, <2>1, <3>2 DEF Panel!F!Running
    <3> QED BY <3>1, <3>2
  <2> QED BY <1>2, <1>4, <2>1, <2>2, <2>3, <2>4 DEF g
<1> QED BY <1>3, <1>4

-----------------------------------------------------------------------------
(* The calls.                                                              *)

PanelCalls ==
    [pc : {"begin", "read", "send", "over"}, todo : Seq(Panel!Ids),
     landed : SUBSET Panel!Ids, failed : SUBSET Panel!Ids, sends : Nat]

Going(c) == c.pc \in {"read", "send"}

PanelTyped ==
    /\ panel \in {"redeem", "trade", "crank"} /\ busy \in BOOLEAN /\ overtaken \in BOOLEAN
    /\ Shown(shownFlow)
    /\ calls \in Seq(PanelCalls) /\ Len(calls) <= MaxCalls
    /\ \A k \in DOMAIN calls :
          /\ calls[k].pc = "send" => calls[k].todo # <<>>
          /\ panel # "crank" => calls[k].failed = {}

\* Until one is overtaken, all calls but the newest are over; only RedeemPanel lets a call be.
Lone ==
    /\ ~overtaken => \A k \in DOMAIN calls : k < Len(calls) => calls[k].pc = "over"
    /\ panel # "redeem" => ~overtaken /\ (~busy => Panel!AllOver)

DoneLanded ==
    \A id \in DOMAIN shownFlow.steps : shownFlow.steps[id] = "done" =>
        /\ \E k \in DOMAIN calls : id \in calls[k].landed
        /\ ~overtaken => calls # <<>> /\ id \in Panel!Newest.landed

SuccessOver ==
    shownFlow.status = "succeeded" /\ ~overtaken =>
        calls # <<>> /\ Panel!Newest.pc = "over" /\ Panel!Newest.failed = {}

\* A redemption that is shown as running has a call under way, and one with its
\* transaction ahead while the step is open.
RedeemRuns ==
    panel = "redeem" =>
        /\ \A k \in DOMAIN calls :
              /\ \A i \in DOMAIN calls[k].todo : calls[k].todo[i] = "redeem"
              /\ calls[k].pc = "begin" => calls[k].todo # <<>>
        /\ Panel!F!Running(shownFlow) =>
              /\ \A id \in DOMAIN shownFlow.steps :
                    id = "redeem" /\ shownFlow.steps[id] \in {"pending", "active", "done"}
              /\ \E k \in DOMAIN calls : Going(calls[k])
              /\ (\E id \in DOMAIN shownFlow.steps : shownFlow.steps[id] # "done") =>
                    \E k \in DOMAIN calls : Going(calls[k]) /\ calls[k].todo # <<>>

\* What is not done of a trade is what its call has still to do.
TradeRuns ==
    panel = "trade" /\ Panel!F!Running(shownFlow) =>
        /\ calls # <<>> /\ Going(Panel!Newest)
        /\ \A id \in DOMAIN shownFlow.steps :
              /\ shownFlow.steps[id] \in {"pending", "active", "done"}
              /\ shownFlow.steps[id] = "done" \/ \E i \in DOMAIN Panel!Newest.todo : Panel!Newest.todo[i] = id

\* Between two transactions of runCrank no step is active, and it knows those that failed.
CrankRuns ==
    panel = "crank" /\ Panel!F!Running(shownFlow) =>
        /\ calls # <<>> /\ Going(Panel!Newest)
        /\ \A id \in DOMAIN shownFlow.steps :
              /\ shownFlow.steps[id] = "active" => Panel!Newest.pc = "send" /\ id = Head(Panel!Newest.todo)
              /\ shownFlow.steps[id] = "failed" => id \in Panel!Newest.failed

PanelInv == PanelTyped /\ Lone /\ DoneLanded /\ SuccessOver /\ RedeemRuns /\ TradeRuns /\ CrankRuns

LEMMA IdleShown ==
  /\ Shown(Panel!F!Idle) /\ ~Panel!F!Running(Panel!F!Idle) /\ DOMAIN Panel!F!Idle.steps = {}
  /\ Panel!F!Idle.status = "idle"
BY DEF Panel!F!Idle, Shown, Panel!F!IsFlow, Panel!F!Statuses, Panel!F!Running

LEMMA PanelStarts == Panel!Init => PanelInv
<1> SUFFICES ASSUME Panel!Init PROVE PanelInv
  OBVIOUS
<1> USE DEF Panel!Init
<1>1. DOMAIN calls = {} /\ Len(calls) = 0 /\ calls \in Seq(PanelCalls) /\ 0 <= MaxCalls
  BY AppAssumption DEF AppAssumption
<1>2. shownFlow = Panel!F!Idle /\ shownFlow.status = "idle" /\ DOMAIN shownFlow.steps = {}
  BY IdleShown
<1>3. PanelTyped
  BY <1>1, IdleShown DEF PanelTyped
<1>4. Lone
  BY <1>1 DEF Lone, Panel!AllOver
<1>5. DoneLanded /\ SuccessOver /\ TradeRuns /\ CrankRuns
  BY <1>2, IdleShown DEF DoneLanded, SuccessOver, TradeRuns, CrankRuns
<1>6. RedeemRuns
  BY <1>1, <1>2, IdleShown DEF RedeemRuns
<1> QED BY <1>3, <1>4, <1>5, <1>6 DEF PanelInv

\* The newest call, and a call that goes on.
LEMMA CallFacts ==
  ASSUME calls \in Seq(PanelCalls)
  PROVE  /\ DOMAIN calls = 1 .. Len(calls) /\ Len(calls) \in Nat
         /\ \A k \in DOMAIN calls : k \in Nat /\ k <= Len(calls) /\ calls[k] \in PanelCalls /\ calls # <<>>
         /\ calls # <<>> => Len(calls) \in DOMAIN calls /\ Panel!Newest = calls[Len(calls)]
<1>1. DOMAIN calls = 1 .. Len(calls) /\ Len(calls) \in Nat
  OBVIOUS
<1>2. \A k \in DOMAIN calls : k \in Nat /\ k <= Len(calls) /\ calls[k] \in PanelCalls
  BY <1>1
<1>3. calls # <<>> => Len(calls) \in DOMAIN calls
  BY <1>1, EmptySeq
<1>4. DOMAIN calls # {} => calls # <<>>
  BY <1>1
<1> QED BY <1>1, <1>2, <1>3, <1>4 DEF Panel!Newest

LEMMA CallSet ==
  ASSUME calls \in Seq(PanelCalls), NEW k \in DOMAIN calls, NEW c \in PanelCalls,
         calls' = [calls EXCEPT ![k] = c]
  PROVE  /\ calls' \in Seq(PanelCalls) /\ Len(calls') = Len(calls) /\ DOMAIN calls' = DOMAIN calls
         /\ calls'[k] = c /\ \A j \in DOMAIN calls : j # k => calls'[j] = calls[j]
         /\ calls' # <<>> /\ Panel!Newest' = IF k = Len(calls) THEN c ELSE Panel!Newest
         /\ Len(calls) \in DOMAIN calls
<1>1. calls' \in Seq(PanelCalls) /\ Len(calls') = Len(calls) /\ DOMAIN calls' = DOMAIN calls
  BY ExceptSeq
<1>2. calls'[k] = c /\ \A j \in DOMAIN calls : j # k => calls'[j] = calls[j]
  OBVIOUS
<1>3. calls # <<>> /\ calls' # <<>> /\ Len(calls) \in DOMAIN calls
  BY <1>1, CallFacts
<1> QED BY <1>1, <1>2, <1>3 DEF Panel!Newest

\* A call that is not over is the only one, unless one has been overtaken.
LEMMA OnlyOne ==
  ASSUME PanelTyped, Lone, NEW k \in DOMAIN calls, calls[k].pc # "over"
  PROVE  /\ calls # <<>> /\ k \in Nat /\ k <= Len(calls) /\ Len(calls) \in Nat
         /\ ~overtaken => k = Len(calls) /\ Panel!Newest = calls[k]
         /\ panel # "redeem" => ~overtaken
<1>1. /\ calls # <<>> /\ k \in Nat /\ k <= Len(calls) /\ Len(calls) \in Nat
      /\ Panel!Newest = calls[Len(calls)]
  BY CallFacts DEF PanelTyped
<1> QED BY <1>1 DEF Lone

\* Call k returns.
LEMMA ReturnKeeps ==
  ASSUME PanelInv, NEW k \in DOMAIN calls, calls[k].pc # "over", NEW c \in PanelCalls, c.pc = "over",
         calls' = [calls EXCEPT ![k] = c], busy' = FALSE, UNCHANGED <<panel, overtaken>>,
         calls[k].landed \subseteq c.landed, panel # "crank" => c.failed = {},
         panel = "redeem" => \A i \in DOMAIN c.todo : c.todo[i] = "redeem",
         Shown(shownFlow'), DoneFrom(shownFlow, shownFlow'),
         shownFlow'.status = "succeeded" => shownFlow.status = "succeeded" \/ c.failed = {},
         Panel!F!Running(shownFlow') =>
            /\ panel = "redeem" /\ shownFlow' = shownFlow /\ calls[k].todo = <<>>
            /\ \E id \in DOMAIN shownFlow.steps : shownFlow.steps[id] # "done"
  PROVE  PanelInv'
<1> USE DEF PanelInv
<1>1. /\ calls' \in Seq(PanelCalls) /\ Len(calls') = Len(calls) /\ DOMAIN calls' = DOMAIN calls
      /\ calls'[k] = c /\ \A j \in DOMAIN calls : j # k => calls'[j] = calls[j]
      /\ calls' # <<>> /\ Panel!Newest' = IF k = Len(calls) THEN c ELSE Panel!Newest
      /\ Len(calls) \in DOMAIN calls
  BY CallSet DEF PanelTyped
<1>2. /\ calls # <<>> /\ k \in Nat /\ k <= Len(calls) /\ Len(calls) \in Nat
      /\ ~overtaken => k = Len(calls) /\ Panel!Newest = calls[k]
      /\ panel # "redeem" => ~overtaken
  BY OnlyOne
<1>3. PanelTyped'
  <2>1. \A j \in DOMAIN calls' : /\ calls'[j].pc = "send" => calls'[j].todo # <<>>
                                 /\ panel' # "crank" => calls'[j].failed = {}
    BY <1>1 DEF PanelTyped
  <2> QED BY <1>1, <2>1 DEF PanelTyped
<1>4. Lone'
  <2>1. ~overtaken => \A j \in DOMAIN calls : j < Len(calls) => calls'[j].pc = "over"
    BY <1>1 DEF Lone
  <2>2. panel # "redeem" => \A j \in DOMAIN calls : j = k \/ j < Len(calls)
    BY <1>1, <1>2, CallFacts DEF PanelTyped
  <2>3. panel # "redeem" => ~overtaken /\ \A j \in DOMAIN calls : calls'[j].pc = "over"
    BY <1>1, <1>2, <2>1, <2>2
  <2> QED BY <1>1, <2>1, <2>3 DEF Lone, Panel!AllOver
<1>5. DoneLanded'
  <2> SUFFICES ASSUME NEW id \in DOMAIN shownFlow'.steps, shownFlow'.steps[id] = "done"
               PROVE  /\ \E j \in DOMAIN calls' : id \in calls'[j].landed
                      /\ ~overtaken => calls' # <<>> /\ id \in Panel!Newest'.landed
    BY DEF DoneLanded
  <2>1. id \in DOMAIN shownFlow.steps /\ shownFlow.steps[id] = "done"
    BY DEF DoneFrom
  <2>2. PICK j \in DOMAIN calls : id \in calls[j].landed
    BY <2>1 DEF DoneLanded
  <2>3. id \in calls'[j].landed
    BY <1>1, <2>2
  <2>4. ~overtaken => id \in Panel!Newest'.landed
    BY <1>1, <1>2, <2>1 DEF DoneLanded
  <2> QED BY <1>1, <2>2, <2>3, <2>4
<1>6. SuccessOver'
  <2> SUFFICES ASSUME shownFlow'.status = "succeeded", ~overtaken
               PROVE  Panel!Newest'.pc = "over" /\ Panel!Newest'.failed = {}
    BY <1>1 DEF SuccessOver
  <2>1. Panel!Newest' = c
    BY <1>1, <1>2
  <2>2. shownFlow.status # "succeeded"
    BY <1>2 DEF SuccessOver
  <2> QED BY <2>1, <2>2
<1>7. RedeemRuns'
  <2> SUFFICES ASSUME panel = "redeem"
               PROVE  /\ \A j \in DOMAIN calls' :
                            /\ \A i \in DOMAIN calls'[j].todo : calls'[j].todo[i] = "redeem"
                            /\ calls'[j].pc = "begin" => calls'[j].todo # <<>>
                      /\ Panel!F!Running(shownFlow') =>
                            /\ \A id \in DOMAIN shownFlow'.steps :
                                  id = "redeem" /\ shownFlow'.steps[id] \in {"pending", "active", "done"}
                            /\ \E j \in DOMAIN calls' : Going(calls'[j]) /\ calls'[j].todo # <<>>
    BY DEF RedeemRuns, Going
  <2>1. \A j \in DOMAIN calls' :
           /\ \A i \in DOMAIN calls'[j].todo : calls'[j].todo[i] = "redeem"
           /\ calls'[j].pc = "begin" => calls'[j].todo # <<>>
    BY <1>1 DEF RedeemRuns
  <2>2. ASSUME Panel!F!Running(shownFlow')
        PROVE  /\ \A id \in DOMAIN shownFlow'.steps :
                      id = "redeem" /\ shownFlow'.steps[id] \in {"pending", "active", "done"}
               /\ \E j \in DOMAIN calls' : Going(calls'[j]) /\ calls'[j].todo # <<>>
    <3>1. Panel!F!Running(shownFlow) /\ shownFlow' = shownFlow /\ calls[k].todo = <<>>
      BY <2>2 DEF Panel!F!Running
    <3>2. \E id \in DOMAIN shownFlow.steps : shownFlow.steps[id] # "done"
      BY <2>2
    <3>3. PICK j \in DOMAIN calls : Going(calls[j]) /\ calls[j].todo # <<>>
      BY <3>1, <3>2 DEF RedeemRuns
    <3>4. calls'[j] = calls[j] /\ j \in DOMAIN calls'
      BY <1>1, <3>1, <3>3
    <3>5. \A id \in DOMAIN shownFlow'.steps :
             id = "redeem" /\ shownFlow'.steps[id] \in {"pending", "active", "done"}
      BY <3>1 DEF RedeemRuns
    <3> QED BY <3>3, <3>4, <3>5
  <2> QED BY <2>1, <2>2
<1>8. TradeRuns' /\ CrankRuns'
  BY DEF TradeRuns, CrankRuns
<1> QED BY <1>3, <1>4, <1>5, <1>6, <1>7, <1>8

\* Call k goes on, and what it says is shown as done has landed.
GoesOn(k, c) ==
    /\ calls[k].pc # "over" /\ Going(c) /\ (c.pc = "send" => c.todo # <<>>)
    /\ calls' = [calls EXCEPT ![k] = c] /\ UNCHANGED <<panel, busy, overtaken>>
    /\ calls[k].landed \subseteq c.landed /\ (panel # "crank" => c.failed = {})
    /\ Shown(shownFlow') /\ (shownFlow'.status = "succeeded" => shownFlow.status = "succeeded")
    /\ \A id \in DOMAIN shownFlow'.steps : shownFlow'.steps[id] = "done" =>
          id \in c.landed \/ (id \in DOMAIN shownFlow.steps /\ shownFlow.steps[id] = "done")

LEMMA GoesOnKeeps ==
  ASSUME PanelInv, NEW k \in DOMAIN calls, NEW c \in PanelCalls, GoesOn(k, c)
  PROVE  PanelTyped' /\ Lone' /\ DoneLanded' /\ SuccessOver'
<1> USE DEF PanelInv, GoesOn, Going
<1>1. /\ calls' \in Seq(PanelCalls) /\ Len(calls') = Len(calls) /\ DOMAIN calls' = DOMAIN calls
      /\ calls'[k] = c /\ \A j \in DOMAIN calls : j # k => calls'[j] = calls[j]
      /\ calls' # <<>> /\ Panel!Newest' = IF k = Len(calls) THEN c ELSE Panel!Newest
      /\ Len(calls) \in DOMAIN calls
  BY CallSet DEF PanelTyped
<1>2. /\ calls # <<>> /\ k \in Nat /\ k <= Len(calls) /\ Len(calls) \in Nat
      /\ ~overtaken => k = Len(calls) /\ Panel!Newest = calls[k]
      /\ panel # "redeem" => ~overtaken
  BY OnlyOne
<1>3. PanelTyped'
  <2>1. \A j \in DOMAIN calls' : /\ calls'[j].pc = "send" => calls'[j].todo # <<>>
                                 /\ panel' # "crank" => calls'[j].failed = {}
    BY <1>1 DEF PanelTyped
  <2> QED BY <1>1, <2>1 DEF PanelTyped
<1>4. Lone'
  <2>1. ~overtaken => \A j \in DOMAIN calls : j < Len(calls) => calls'[j].pc = "over"
    BY <1>1, <1>2 DEF Lone
  <2>2. panel # "redeem" => busy
    BY DEF Lone, Panel!AllOver
  <2> QED BY <1>1, <1>2, <2>1, <2>2 DEF Lone
<1>5. DoneLanded'
  <2> SUFFICES ASSUME NEW id \in DOMAIN shownFlow'.steps, shownFlow'.steps[id] = "done"
               PROVE  /\ \E j \in DOMAIN calls' : id \in calls'[j].landed
                      /\ ~overtaken => calls' # <<>> /\ id \in Panel!Newest'.landed
    BY DEF DoneLanded
  <2>1. CASE id \in c.landed
    BY <1>1, <1>2, <2>1
  <2>2. CASE id \in DOMAIN shownFlow.steps /\ shownFlow.steps[id] = "done"
    <3>1. PICK j \in DOMAIN calls : id \in calls[j].landed
      BY <2>2 DEF DoneLanded
    <3>2. id \in calls'[j].landed
      BY <1>1, <3>1
    <3>3. ~overtaken => id \in Panel!Newest'.landed
      BY <1>1, <1>2, <2>2 DEF DoneLanded
    <3> QED BY <1>1, <3>1, <3>2, <3>3
  <2> QED BY <2>1, <2>2
<1>6. SuccessOver'
  <2>1. shownFlow'.status = "succeeded" /\ ~overtaken => FALSE
    BY <1>2 DEF SuccessOver
  <2> QED BY <2>1 DEF SuccessOver
<1> QED BY <1>3, <1>4, <1>5, <1>6

LEMMA StopKeeps ==
  ASSUME PanelInv, NEW k \in DOMAIN calls, calls[k].pc # "over", NEW c \in PanelCalls,
         Panel!Returns(k, c), UNCHANGED <<panel, overtaken>>,
         calls[k].landed \subseteq c.landed, panel # "crank" => c.failed = {},
         panel = "redeem" => \A i \in DOMAIN c.todo : c.todo[i] = "redeem",
         Stopped(shownFlow, shownFlow')
  PROVE  PanelInv'
<1> DEFINE d == [c EXCEPT !.pc = "over"]
<1>1. /\ d \in PanelCalls /\ d.pc = "over" /\ d.todo = c.todo /\ d.landed = c.landed /\ d.failed = c.failed
  BY DEF PanelCalls
<1>2. calls' = [calls EXCEPT ![k] = d] /\ busy' = FALSE
  BY DEF Panel!Returns, Panel!Goes
<1> HIDE DEF d
<1>3. /\ Shown(shownFlow') /\ DoneFrom(shownFlow, shownFlow')
      /\ shownFlow'.status = "succeeded" => shownFlow.status = "succeeded"
      /\ ~Panel!F!Running(shownFlow')
  BY DEF Stopped
<1>4. /\ calls[k].landed \subseteq d.landed /\ (panel # "crank" => d.failed = {})
      /\ panel = "redeem" => \A i \in DOMAIN d.todo : d.todo[i] = "redeem"
  BY <1>1
<1> QED BY <1>1, <1>2, <1>3, <1>4, ReturnKeeps

\* A call as it is may return.
LEMMA FailKeeps ==
  ASSUME PanelInv, NEW k \in DOMAIN calls, calls[k].pc # "over",
         shownFlow' = Panel!F!Fail(shownFlow), Panel!Returns(k, calls[k]), UNCHANGED <<panel, overtaken>>
  PROVE  PanelInv'
<1>1. calls[k] \in PanelCalls /\ (panel # "crank" => calls[k].failed = {}) /\ Shown(shownFlow)
  BY CallFacts DEF PanelInv, PanelTyped
<1>2. panel = "redeem" => \A i \in DOMAIN calls[k].todo : calls[k].todo[i] = "redeem"
  BY DEF PanelInv, RedeemRuns
<1>3. Stopped(shownFlow, shownFlow')
  BY <1>1, FailShown
<1> QED BY <1>1, <1>2, <1>3, StopKeeps

LEMMA PressKeeps == ASSUME PanelInv, Panel!Press PROVE PanelInv'
<1> USE DEF PanelInv
<1>1. /\ ~busy /\ Len(calls) < MaxCalls /\ busy' = TRUE /\ shownFlow' = Panel!F!Idle
      /\ overtaken' = (overtaken \/ ~Panel!AllOver) /\ panel' = panel
  BY DEF Panel!Press
<1>2. PICK plan \in Panel!Plans : calls' = Append(calls, Panel!Begun(plan))
  BY DEF Panel!Press
<1> DEFINE b == Panel!Begun(plan)
<1>3. plan \in Seq(Panel!Ids) /\ plan # <<>> /\ (panel = "redeem" => plan = <<"redeem">>)
  <2>1. plan \in {<<"redeem">>, <<"swap">>, <<"jupiter">>, <<"jupiter", "swap">>, <<"swap", "jupiter">>, <<"a", "b">>}
    BY DEF Panel!Plans, PanelTyped
  <2>2. panel = "redeem" => plan = <<"redeem">>
    BY DEF Panel!Plans
  <2>3. \A i, j \in Panel!Ids : <<i>> \in Seq(Panel!Ids) /\ <<i, j>> \in Seq(Panel!Ids)
    OBVIOUS
  <2>4. {"redeem", "swap", "jupiter", "a", "b"} \subseteq Panel!Ids
    BY DEF Panel!Ids
  <2>5. plan \in Seq(Panel!Ids)
    BY <2>1, <2>3, <2>4
  <2>6. plan # <<>>
    BY <2>1
  <2> QED BY <2>2, <2>5, <2>6
<1>4. b \in PanelCalls /\ b.pc = "begin" /\ b.todo = plan /\ b.failed = {}
  BY <1>3 DEF Panel!Begun, PanelCalls
<1> HIDE DEF b
<1>5. /\ calls' \in Seq(PanelCalls) /\ Len(calls') = Len(calls) + 1 /\ calls'[Len(calls')] = b
      /\ DOMAIN calls' = 1 .. Len(calls) + 1 /\ DOMAIN calls = 1 .. Len(calls) /\ Len(calls) \in Nat
      /\ \A k \in DOMAIN calls : calls'[k] = calls[k]
  BY <1>2, <1>4 DEF PanelTyped, b
<1>6. \A k \in DOMAIN calls' : k \in DOMAIN calls \/ (k = Len(calls') /\ calls'[k] = b)
  BY <1>5
<1>7. PanelTyped'
  <2>1. \A k \in DOMAIN calls' : /\ calls'[k].pc = "send" => calls'[k].todo # <<>>
                                 /\ panel # "crank" => calls'[k].failed = {}
    BY <1>4, <1>5, <1>6 DEF PanelTyped
  <2>2. Len(calls') <= MaxCalls
    BY <1>1, <1>5, AppAssumption DEF AppAssumption, PanelTyped
  <2>3. overtaken' \in BOOLEAN /\ Shown(shownFlow')
    BY <1>1, IdleShown DEF PanelTyped
  <2> QED BY <1>1, <1>5, <2>1, <2>2, <2>3 DEF PanelTyped
<1>8. Lone'
  <2>1. ~overtaken' => \A k \in DOMAIN calls : calls'[k].pc = "over"
    BY <1>1, <1>5 DEF Panel!AllOver
  <2>2. panel # "redeem" => ~overtaken'
    BY <1>1 DEF Lone
  <2>3. ~overtaken' => \A k \in DOMAIN calls' : k < Len(calls') => calls'[k].pc = "over"
    BY <1>5, <2>1
  <2> QED BY <1>1, <2>2, <2>3 DEF Lone
<1>9. DoneLanded' /\ SuccessOver' /\ TradeRuns' /\ CrankRuns'
  BY <1>1, IdleShown DEF DoneLanded, SuccessOver, TradeRuns, CrankRuns
<1>10. RedeemRuns'
  <2>1. panel = "redeem" => \A k \in DOMAIN calls' :
              /\ \A i \in DOMAIN calls'[k].todo : calls'[k].todo[i] = "redeem"
              /\ calls'[k].pc = "begin" => calls'[k].todo # <<>>
    BY <1>3, <1>4, <1>5, <1>6 DEF RedeemRuns
  <2> QED BY <1>1, <2>1, IdleShown DEF RedeemRuns
<1> QED BY <1>7, <1>8, <1>9, <1>10

LEMMA EditKeeps == ASSUME PanelInv, Panel!Edit \/ Panel!SwitchSide PROVE PanelInv'
<1> USE DEF PanelInv
<1>1. /\ UNCHANGED <<panel, calls, overtaken>> /\ (panel # "redeem" => busy' = busy)
      /\ busy' \in BOOLEAN /\ (shownFlow' = Panel!F!Idle \/ shownFlow' = shownFlow)
  BY DEF Panel!Edit, Panel!SwitchSide, PanelTyped
<1>2. Panel!Newest' = Panel!Newest /\ Panel!AllOver' = Panel!AllOver
  BY <1>1 DEF Panel!Newest, Panel!AllOver
<1>3. PanelTyped'
  BY <1>1, IdleShown DEF PanelTyped
<1>4. Lone'
  BY <1>1, <1>2 DEF Lone
<1>5. CASE shownFlow' = Panel!F!Idle
  <2>1. DoneLanded' /\ SuccessOver' /\ TradeRuns' /\ CrankRuns'
    BY <1>5, IdleShown DEF DoneLanded, SuccessOver, TradeRuns, CrankRuns
  <2>2. RedeemRuns'
    BY <1>1, <1>5, IdleShown DEF RedeemRuns
  <2> QED BY <1>3, <1>4, <2>1, <2>2
<1>6. CASE shownFlow' = shownFlow
  <2>1. DoneLanded' /\ SuccessOver'
    BY <1>1, <1>2, <1>6 DEF DoneLanded, SuccessOver
  <2>2. RedeemRuns' /\ TradeRuns' /\ CrankRuns'
    BY <1>1, <1>2, <1>6 DEF RedeemRuns, TradeRuns, CrankRuns
  <2> QED BY <1>3, <1>4, <2>1, <2>2
<1> QED BY <1>1, <1>5, <1>6

LEMMA BeginKeeps == ASSUME PanelInv, NEW k \in DOMAIN calls, Panel!Begin(k) PROVE PanelInv'
<1> USE DEF PanelInv
<1> DEFINE ids == {calls[k].todo[i] : i \in DOMAIN calls[k].todo}
           c == [calls[k] EXCEPT !.pc = "read"]
<1>1. calls[k].pc = "begin" /\ UNCHANGED <<panel, overtaken>>
  BY DEF Panel!Begin, Panel!Is
<1>2. CASE shownFlow' = Panel!F!Fail(shownFlow) /\ Panel!Returns(k, calls[k])
  BY <1>1, <1>2, FailKeeps
<1>3. CASE shownFlow' = Panel!F!Start(shownFlow, ids) /\ Panel!Goes(k, c) /\ UNCHANGED busy
  <2>1. calls[k] \in PanelCalls /\ Shown(shownFlow) /\ (panel # "crank" => calls[k].failed = {})
    BY CallFacts DEF PanelTyped
  <2>2. /\ c \in PanelCalls /\ c.pc = "read" /\ c.todo = calls[k].todo
        /\ c.landed = calls[k].landed /\ c.failed = calls[k].failed
    BY <2>1 DEF PanelCalls
  <2>3. ids \in SUBSET Panel!Ids
    BY <2>1 DEF PanelCalls
  <2>4. calls' = [calls EXCEPT ![k] = c]
    BY <1>3 DEF Panel!Goes
  <2>5. \A id : id \in ids <=> \E i \in DOMAIN calls[k].todo : calls[k].todo[i] = id
    OBVIOUS
  <2> HIDE DEF c, ids
  <2>6. /\ Shown(shownFlow') /\ Panel!F!Running(shownFlow')
        /\ \/ Panel!F!Running(shownFlow) /\ shownFlow' = shownFlow
           \/ /\ ~Panel!F!Running(shownFlow) /\ DOMAIN shownFlow'.steps = ids
              /\ \A id \in ids : shownFlow'.steps[id] = "pending"
    BY <1>3, <2>1, <2>3, StartShown
  <2>7. GoesOn(k, c)
    <3>1. \A id \in DOMAIN shownFlow'.steps : shownFlow'.steps[id] = "done" =>
             id \in DOMAIN shownFlow.steps /\ shownFlow.steps[id] = "done"
      BY <2>6
    <3>2. shownFlow'.status # "succeeded"
      BY <2>6 DEF Panel!F!Running
    <3> QED BY <1>1, <1>3, <2>1, <2>2, <2>4, <2>6, <3>1, <3>2 DEF GoesOn, Going
  <2>8. PanelTyped' /\ Lone' /\ DoneLanded' /\ SuccessOver'
    BY <2>2, <2>7, GoesOnKeeps
  <2>9. /\ DOMAIN calls' = DOMAIN calls /\ calls'[k] = c /\ \A j \in DOMAIN calls : j # k => calls'[j] = calls[j]
        /\ calls' # <<>> /\ Panel!Newest' = IF k = Len(calls) THEN c ELSE Panel!Newest
    BY <2>2, <2>4, CallSet DEF PanelTyped
  <2>10. /\ ~overtaken => k = Len(calls) /\ Panel!Newest = calls[k]
         /\ panel # "redeem" => ~overtaken
    BY <1>1, OnlyOne
  <2>11. RedeemRuns'
    <3> SUFFICES ASSUME panel = "redeem" PROVE RedeemRuns'
      BY <1>1 DEF RedeemRuns
    <3>1. \A j \in DOMAIN calls' :
              /\ \A i \in DOMAIN calls'[j].todo : calls'[j].todo[i] = "redeem"
              /\ calls'[j].pc = "begin" => calls'[j].todo # <<>>
      BY <2>2, <2>9 DEF RedeemRuns
    <3>2. Going(c) /\ c.todo # <<>>
      BY <1>1, <2>2 DEF RedeemRuns, Going
    <3>3. \A id \in DOMAIN shownFlow'.steps : id = "redeem" /\ shownFlow'.steps[id] \in {"pending", "active", "done"}
      BY <2>5, <2>6 DEF RedeemRuns
    <3> QED BY <2>9, <3>1, <3>2, <3>3 DEF RedeemRuns
  <2>12. TradeRuns' /\ CrankRuns'
    <3> SUFFICES ASSUME panel # "redeem" PROVE TradeRuns' /\ CrankRuns'
      BY <1>1 DEF TradeRuns, CrankRuns
    <3>1. Panel!Newest = calls[k] /\ Panel!Newest' = c
      BY <2>9, <2>10
    <3>2. ~Panel!F!Running(shownFlow)
      BY <1>1, <3>1 DEF TradeRuns, CrankRuns, Going, PanelTyped
    <3>3. DOMAIN shownFlow'.steps = ids /\ \A id \in ids : shownFlow'.steps[id] = "pending"
      BY <2>6, <3>2
    <3>4. \A id \in ids : \E i \in DOMAIN c.todo : c.todo[i] = id
      BY <2>2, <2>5
    <3> QED BY <2>2, <2>9, <3>1, <3>3, <3>4 DEF TradeRuns, CrankRuns, Going
  <2> QED BY <2>8, <2>11, <2>12
<1> QED BY <1>2, <1>3 DEF Panel!Begin

LEMMA SeqParts ==
  ASSUME NEW S, NEW s \in Seq(S), s # <<>>
  PROVE  /\ Head(s) \in S /\ Tail(s) \in Seq(S) /\ \E i \in DOMAIN s : s[i] = Head(s)
         /\ \A i \in DOMAIN s : s[i] = Head(s) \/ \E j \in DOMAIN Tail(s) : Tail(s)[j] = s[i]
         /\ \A j \in DOMAIN Tail(s) : \E i \in DOMAIN s : s[i] = Tail(s)[j]
<1>1. /\ Len(s) \in Nat \ {0} /\ Head(s) = s[1] /\ Head(s) \in S /\ Tail(s) \in Seq(S)
      /\ Len(Tail(s)) = Len(s) - 1 /\ \A i \in 1 .. Len(Tail(s)) : Tail(s)[i] = s[i + 1]
  BY EmptySeq, HeadTailProperties
<1>2. DOMAIN s = 1 .. Len(s) /\ DOMAIN Tail(s) = 1 .. Len(s) - 1
  BY <1>1
<1>3. ASSUME NEW i \in DOMAIN s, i # 1 PROVE \E j \in DOMAIN Tail(s) : Tail(s)[j] = s[i]
  <2>1. i - 1 \in 1 .. Len(Tail(s)) /\ i - 1 \in DOMAIN Tail(s) /\ (i - 1) + 1 = i
    BY <1>1, <1>2, <1>3
  <2> QED BY <1>1, <2>1
<1>4. \A j \in DOMAIN Tail(s) : j + 1 \in DOMAIN s /\ s[j + 1] = Tail(s)[j]
  BY <1>1, <1>2
<1> QED BY <1>1, <1>2, <1>3, <1>4

LEMMA ReadKeeps == ASSUME PanelInv, NEW k \in DOMAIN calls, Panel!Read(k) PROVE PanelInv'
<1> USE DEF PanelInv
<1> DEFINE c == [calls[k] EXCEPT !.pc = "send"]
           step == Head(calls[k].todo)
           d == [calls[k] EXCEPT !.pc = "over"]
<1>1. calls[k].pc = "read" /\ panel # "crank" /\ UNCHANGED <<panel, overtaken>>
  BY DEF Panel!Read, Panel!Is
<1>2. /\ calls[k] \in PanelCalls /\ Shown(shownFlow) /\ calls[k].failed = {}
  BY <1>1, CallFacts DEF PanelTyped
<1>3. /\ ~overtaken => k = Len(calls) /\ Panel!Newest = calls[k]
      /\ panel # "redeem" => ~overtaken
  BY <1>1, OnlyOne
<1>4. CASE shownFlow' = Panel!F!Fail(shownFlow) /\ Panel!Returns(k, calls[k])
  BY <1>1, <1>4, FailKeeps
<1>5. CASE /\ calls[k].todo # <<>> /\ shownFlow' = Panel!F!StepStarted(shownFlow, step)
           /\ Panel!Goes(k, c) /\ UNCHANGED busy
  <2>1. /\ c \in PanelCalls /\ c.pc = "send" /\ c.todo = calls[k].todo
        /\ c.landed = calls[k].landed /\ c.failed = calls[k].failed
    BY <1>2 DEF PanelCalls
  <2>2. calls' = [calls EXCEPT ![k] = c]
    BY <1>5 DEF Panel!Goes
  <2> HIDE DEF c, step
  <2>3. /\ Shown(shownFlow') /\ shownFlow'.status = shownFlow.status
        /\ DOMAIN shownFlow'.steps = DOMAIN shownFlow.steps
        /\ \A i \in DOMAIN shownFlow.steps :
              \/ shownFlow'.steps[i] = shownFlow.steps[i]
              \/ shownFlow.steps[i] = "pending" /\ shownFlow'.steps[i] = "active"
    BY <1>2, <1>5, StartedMoves
  <2>4. GoesOn(k, c)
    BY <1>1, <1>2, <1>5, <2>1, <2>2, <2>3 DEF GoesOn, Going
  <2>5. PanelTyped' /\ Lone' /\ DoneLanded' /\ SuccessOver'
    BY <2>1, <2>4, GoesOnKeeps
  <2>6. /\ DOMAIN calls' = DOMAIN calls /\ calls'[k] = c /\ \A j \in DOMAIN calls : j # k => calls'[j] = calls[j]
        /\ calls' # <<>> /\ Panel!Newest' = IF k = Len(calls) THEN c ELSE Panel!Newest
    BY <2>1, <2>2, CallSet DEF PanelTyped
  <2>7. Panel!F!Running(shownFlow') <=> Panel!F!Running(shownFlow)
    BY <2>3 DEF Panel!F!Running
  <2>8. RedeemRuns'
    <3> SUFFICES ASSUME panel = "redeem" PROVE RedeemRuns'
      BY <1>1 DEF RedeemRuns
    <3>1. \A j \in DOMAIN calls' :
              /\ \A i \in DOMAIN calls'[j].todo : calls'[j].todo[i] = "redeem"
              /\ calls'[j].pc = "begin" => calls'[j].todo # <<>>
      BY <2>1, <2>6 DEF RedeemRuns
    <3>2. Going(c) /\ c.todo # <<>>
      BY <1>5, <2>1 DEF Going
    <3>3. Panel!F!Running(shownFlow) =>
            \A id \in DOMAIN shownFlow'.steps : id = "redeem" /\ shownFlow'.steps[id] \in {"pending", "active", "done"}
      BY <2>3 DEF RedeemRuns
    <3> QED BY <2>6, <2>7, <3>1, <3>2, <3>3 DEF RedeemRuns
  <2>9. TradeRuns'
    <3> SUFFICES ASSUME panel = "trade", Panel!F!Running(shownFlow) PROVE TradeRuns'
      BY <1>1, <2>7 DEF TradeRuns
    <3>1. Panel!Newest = calls[k] /\ Panel!Newest' = c
      BY <1>3, <2>6
    <3>2. \A id \in DOMAIN shownFlow.steps :
            /\ shownFlow.steps[id] \in {"pending", "active", "done"}
            /\ shownFlow.steps[id] = "done" \/ \E i \in DOMAIN c.todo : c.todo[i] = id
      BY <2>1, <3>1 DEF TradeRuns
    <3>3. \A id \in DOMAIN shownFlow'.steps :
            /\ shownFlow'.steps[id] \in {"pending", "active", "done"}
            /\ shownFlow'.steps[id] = "done" \/ \E i \in DOMAIN c.todo : c.todo[i] = id
      BY <2>3, <3>2
    <3> QED BY <2>1, <2>6, <3>1, <3>3 DEF TradeRuns, Going
  <2>10. CrankRuns'
    BY <1>1 DEF CrankRuns
  <2> QED BY <2>5, <2>8, <2>9, <2>10
<1>6. CASE calls[k].todo = <<>> /\ shownFlow' = Panel!F!Finish(shownFlow) /\ Panel!Returns(k, calls[k])
  <2>1. /\ d \in PanelCalls /\ d.pc = "over" /\ d.todo = calls[k].todo
        /\ d.landed = calls[k].landed /\ d.failed = calls[k].failed
    BY <1>2 DEF PanelCalls
  <2>2. calls' = [calls EXCEPT ![k] = d] /\ busy' = FALSE
    BY <1>6 DEF Panel!Returns, Panel!Goes
  <2> HIDE DEF d
  <2> DEFINE Whole == \A id \in DOMAIN shownFlow.steps : shownFlow.steps[id] \in {"done", "skipped"}
  <2>3. /\ Shown(shownFlow') /\ shownFlow'.steps = shownFlow.steps
        /\ shownFlow'.status = IF Panel!F!Running(shownFlow) /\ Whole THEN "succeeded" ELSE shownFlow.status
        /\ Panel!F!Running(shownFlow') => shownFlow' = shownFlow
    BY <1>2, <1>6, FinishShown
  <2>4. DoneFrom(shownFlow, shownFlow')
    BY <2>3 DEF DoneFrom
  <2>5. ASSUME Panel!F!Running(shownFlow')
        PROVE  /\ panel = "redeem" /\ shownFlow' = shownFlow
               /\ \E id \in DOMAIN shownFlow.steps : shownFlow.steps[id] # "done"
    <3>1. Panel!F!Running(shownFlow) /\ ~Whole /\ shownFlow' = shownFlow
      BY <2>3, <2>5 DEF Panel!F!Running
    <3>2. panel # "trade"
      <4> SUFFICES ASSUME panel = "trade" PROVE FALSE
        OBVIOUS
      <4>1. Panel!Newest.todo = <<>>
        BY <1>3, <1>6
      <4>2. \A id \in DOMAIN shownFlow.steps : shownFlow.steps[id] = "done"
        BY <3>1, <4>1 DEF TradeRuns
      <4> QED BY <3>1, <4>2
    <3> QED BY <1>1, <3>1, <3>2 DEF PanelTyped
  <2>6. panel = "redeem" => \A i \in DOMAIN d.todo : d.todo[i] = "redeem"
    BY <2>1 DEF RedeemRuns
  <2>7. calls[k].pc # "over" /\ calls[k].landed \subseteq d.landed /\ d.failed = {}
    BY <1>1, <1>2, <2>1
  <2> HIDE DEF Whole
  <2> QED BY <1>1, <1>6, <2>1, <2>2, <2>3, <2>4, <2>5, <2>6, <2>7, ReturnKeeps
<1> QED BY <1>4, <1>5, <1>6 DEF Panel!Read, Panel!Step

LEMMA SendKeeps == ASSUME PanelInv, NEW k \in DOMAIN calls, Panel!Send(k) PROVE PanelInv'
<1> USE DEF PanelInv
<1> DEFINE step == Head(calls[k].todo)
           e == [calls[k] EXCEPT !.landed = calls[k].landed \cup {step}]
           c == [e EXCEPT !.pc = "read", !.todo = Tail(@)]
<1>1. calls[k].pc = "send" /\ panel # "crank" /\ UNCHANGED <<panel, overtaken>>
  BY DEF Panel!Send, Panel!Is
<1>2. /\ calls[k] \in PanelCalls /\ Shown(shownFlow) /\ calls[k].failed = {} /\ calls[k].todo # <<>>
  BY <1>1, CallFacts DEF PanelTyped
<1>3. /\ ~overtaken => k = Len(calls) /\ Panel!Newest = calls[k]
      /\ panel # "redeem" => ~overtaken
  BY <1>1, OnlyOne
<1>4. /\ calls[k].todo \in Seq(Panel!Ids) /\ step \in Panel!Ids /\ Tail(calls[k].todo) \in Seq(Panel!Ids)
      /\ calls[k].landed \in SUBSET Panel!Ids /\ \E i \in DOMAIN calls[k].todo : calls[k].todo[i] = step
      /\ \A i \in DOMAIN calls[k].todo :
            calls[k].todo[i] = step \/ \E j \in DOMAIN Tail(calls[k].todo) : Tail(calls[k].todo)[j] = calls[k].todo[i]
      /\ \A j \in DOMAIN Tail(calls[k].todo) :
            \E i \in DOMAIN calls[k].todo : calls[k].todo[i] = Tail(calls[k].todo)[j]
  <2>1. calls[k].todo \in Seq(Panel!Ids) /\ calls[k].landed \in SUBSET Panel!Ids
    BY <1>2 DEF PanelCalls
  <2> QED BY <1>2, <2>1, SeqParts
<1>5. /\ e \in PanelCalls /\ e.todo = calls[k].todo /\ e.landed = calls[k].landed \cup {step} /\ e.failed = {}
  BY <1>2, <1>4 DEF PanelCalls
<1>6. /\ c \in PanelCalls /\ c.pc = "read" /\ c.todo = Tail(calls[k].todo)
      /\ c.landed = calls[k].landed \cup {step} /\ c.failed = {}
  BY <1>2, <1>4, <1>5 DEF PanelCalls
<1> HIDE DEF c, e, step
<1>7. CASE /\ shownFlow' = Panel!F!Fail(Panel!F!StepFailed(shownFlow, step, TRUE))
           /\ \E b \in {e, calls[k]} : Panel!Returns(k, b)
  <2>1. PICK b \in {e, calls[k]} : Panel!Returns(k, b)
    BY <1>7
  <2>2. b \in PanelCalls /\ b.todo = calls[k].todo /\ calls[k].landed \subseteq b.landed /\ b.failed = {}
    BY <1>2, <1>5, <2>1
  <2>3. panel = "redeem" => \A i \in DOMAIN b.todo : b.todo[i] = "redeem"
    BY <2>2 DEF RedeemRuns
  <2>4. Stopped(shownFlow, shownFlow')
    BY <1>2, <1>7, StepFailShown
  <2> QED BY <1>1, <2>1, <2>2, <2>3, <2>4, StopKeeps
<1>8. CASE /\ shownFlow' = Panel!F!StepSucceeded(shownFlow, step) /\ Panel!Goes(k, c) /\ UNCHANGED busy
  <2>1. calls' = [calls EXCEPT ![k] = c]
    BY <1>8 DEF Panel!Goes
  <2>2. /\ Shown(shownFlow') /\ shownFlow'.status = shownFlow.status
        /\ DOMAIN shownFlow'.steps = DOMAIN shownFlow.steps
        /\ \A i \in DOMAIN shownFlow.steps :
              shownFlow'.steps[i] = IF i = step /\ Panel!F!Running(shownFlow) /\ shownFlow.steps[i] \in Panel!F!Open
                                    THEN "done" ELSE shownFlow.steps[i]
    BY <1>2, <1>8, MoveMoves DEF Panel!F!StepSucceeded, Moved
  <2>3. GoesOn(k, c)
    BY <1>1, <1>2, <1>6, <1>8, <2>1, <2>2 DEF GoesOn, Going
  <2>4. PanelTyped' /\ Lone' /\ DoneLanded' /\ SuccessOver'
    BY <1>6, <2>3, GoesOnKeeps
  <2>5. /\ DOMAIN calls' = DOMAIN calls /\ calls'[k] = c /\ \A j \in DOMAIN calls : j # k => calls'[j] = calls[j]
        /\ calls' # <<>> /\ Panel!Newest' = IF k = Len(calls) THEN c ELSE Panel!Newest
    BY <1>6, <2>1, CallSet DEF PanelTyped
  <2>6. Panel!F!Running(shownFlow') <=> Panel!F!Running(shownFlow)
    BY <2>2 DEF Panel!F!Running
  <2>7. RedeemRuns'
    <3> SUFFICES ASSUME panel = "redeem" PROVE RedeemRuns'
      BY <1>1 DEF RedeemRuns
    <3>1. \A i \in DOMAIN c.todo : c.todo[i] = "redeem"
      BY <1>4, <1>6 DEF RedeemRuns
    <3>2. \A j \in DOMAIN calls' :
              /\ \A i \in DOMAIN calls'[j].todo : calls'[j].todo[i] = "redeem"
              /\ calls'[j].pc = "begin" => calls'[j].todo # <<>>
      <4>1. \A j \in DOMAIN calls :
              /\ \A i \in DOMAIN calls[j].todo : calls[j].todo[i] = "redeem"
              /\ calls[j].pc = "begin" => calls[j].todo # <<>>
        BY DEF RedeemRuns
      <4>2. c.pc = "read"
        BY <1>6
      <4> QED BY ONLY <2>5, <3>1, <4>1, <4>2
    <3>3. Going(c) /\ step = "redeem"
      BY <1>4, <1>6 DEF Going, RedeemRuns
    <3>4. Panel!F!Running(shownFlow) =>
            \A id \in DOMAIN shownFlow'.steps : id = "redeem" /\ shownFlow'.steps[id] = "done"
      BY <2>2, <3>3 DEF RedeemRuns, Panel!F!Open
    <3> QED BY <2>5, <2>6, <3>2, <3>3, <3>4 DEF RedeemRuns
  <2>8. TradeRuns'
    <3> SUFFICES ASSUME panel = "trade", Panel!F!Running(shownFlow) PROVE TradeRuns'
      BY <1>1, <2>6 DEF TradeRuns
    <3>1. Panel!Newest = calls[k] /\ Panel!Newest' = c
      BY <1>3, <2>5
    <3>2. \A id \in DOMAIN shownFlow.steps :
            /\ shownFlow.steps[id] \in {"pending", "active", "done"}
            /\ shownFlow.steps[id] = "done" \/ \E i \in DOMAIN calls[k].todo : calls[k].todo[i] = id
      BY <3>1 DEF TradeRuns
    <3>3. \A id \in DOMAIN shownFlow.steps :
            shownFlow.steps[id] = "done" \/ id = step \/ \E i \in DOMAIN c.todo : c.todo[i] = id
      <4> SUFFICES ASSUME NEW id \in DOMAIN shownFlow.steps, shownFlow.steps[id] # "done"
                   PROVE  id = step \/ \E i \in DOMAIN c.todo : c.todo[i] = id
        OBVIOUS
      <4>1. PICK i \in DOMAIN calls[k].todo : calls[k].todo[i] = id
        BY <3>2
      <4>2. id = step \/ \E j \in DOMAIN Tail(calls[k].todo) : Tail(calls[k].todo)[j] = id
        BY <1>4, <4>1
      <4> QED BY <1>6, <4>2, Zenon
    <3>4. \A id \in DOMAIN shownFlow'.steps :
            /\ shownFlow'.steps[id] \in {"pending", "active", "done"}
            /\ shownFlow'.steps[id] = "done" \/ \E i \in DOMAIN c.todo : c.todo[i] = id
      BY <2>2, <3>2, <3>3 DEF Panel!F!Open
    <3> QED BY <1>6, <2>5, <3>1, <3>4 DEF TradeRuns, Going
  <2>9. CrankRuns'
    BY <1>1 DEF CrankRuns
  <2> QED BY <2>4, <2>7, <2>8, <2>9
<1>9. Panel!Landed(k) = calls[k].landed \cup {step}
  BY DEF Panel!Landed, Panel!Step, step
<1> QED BY <1>7, <1>8, <1>9 DEF Panel!Send, Panel!Step, step, e, c

\* runCrank sends: step id is active, what was failed or active before is what the call knows.
LEMMA CrankSendsKeeps ==
  ASSUME PanelInv, NEW k \in DOMAIN calls, panel = "crank", calls[k].pc = "read",
         NEW id \in Panel!Ids, NEW rest \in Seq(Panel!Ids), Panel!CrankSends(k, id, rest),
         UNCHANGED <<panel, busy, overtaken>>
  PROVE  PanelInv'
<1> USE DEF PanelInv
<1> DEFINE c == [calls[k] EXCEPT !.pc = "send", !.sends = @ + 1, !.todo = <<id>> \o rest]
           h == Panel!F!StepsAdded(shownFlow, {id})
<1>1. /\ calls[k] \in PanelCalls /\ Shown(shownFlow)
      /\ k = Len(calls) /\ Panel!Newest = calls[k]
  BY CallFacts, OnlyOne DEF PanelTyped
<1>2. <<id>> \o rest \in Seq(Panel!Ids) /\ <<id>> \o rest # <<>> /\ Head(<<id>> \o rest) = id
  OBVIOUS
<1>3. /\ c \in PanelCalls /\ c.pc = "send" /\ c.todo = <<id>> \o rest
      /\ c.landed = calls[k].landed /\ c.failed = calls[k].failed
  <2> DEFINE n == calls[k].sends + 1
             t == <<id>> \o rest
  <2>1. n \in Nat /\ t \in Seq(Panel!Ids) /\ c = [calls[k] EXCEPT !.pc = "send", !.sends = n, !.todo = t]
    BY <1>1, <1>2 DEF PanelCalls
  <2> HIDE DEF c, n, t
  <2>2. /\ c \in PanelCalls /\ c.pc = "send" /\ c.todo = t
        /\ c.landed = calls[k].landed /\ c.failed = calls[k].failed
    BY <1>1, <2>1 DEF PanelCalls
  <2> QED BY <2>2 DEF t
<1>4. calls' = [calls EXCEPT ![k] = c] /\ shownFlow' = Panel!F!StepStarted(h, id)
  BY DEF Panel!CrankSends, Panel!Goes
<1>5. /\ Shown(h) /\ h.status = shownFlow.status
      /\ \A i \in DOMAIN h.steps :
            \/ i \in DOMAIN shownFlow.steps /\ h.steps[i] = shownFlow.steps[i]
            \/ h.steps[i] = "pending"
  <2> HIDE DEF h
  <2>1. /\ Shown(h) /\ h.status = shownFlow.status
        /\ \A i \in DOMAIN h.steps :
              h.steps[i] = IF i \in DOMAIN shownFlow.steps THEN shownFlow.steps[i] ELSE "pending"
    BY <1>1, AddedShown DEF h
  <2> QED BY <2>1
<1> HIDE DEF c, h
<1>6. /\ Shown(shownFlow') /\ shownFlow'.status = shownFlow.status
      /\ DOMAIN shownFlow'.steps = DOMAIN h.steps
      /\ \A i \in DOMAIN h.steps :
            \/ shownFlow'.steps[i] = h.steps[i]
            \/ i = id /\ shownFlow'.steps[i] = "active"
  BY <1>4, <1>5, StartedMoves
<1>7. \A i \in DOMAIN shownFlow'.steps :
         \/ i \in DOMAIN shownFlow.steps /\ shownFlow'.steps[i] = shownFlow.steps[i]
         \/ shownFlow'.steps[i] = "pending"
         \/ i = id /\ shownFlow'.steps[i] = "active"
  BY <1>5, <1>6
<1>8. GoesOn(k, c)
  <2>1. \A i \in DOMAIN shownFlow'.steps : shownFlow'.steps[i] = "done" =>
           i \in DOMAIN shownFlow.steps /\ shownFlow.steps[i] = "done"
    BY <1>7
  <2> QED BY <1>2, <1>3, <1>4, <1>6, <2>1 DEF GoesOn, Going
<1>9. PanelTyped' /\ Lone' /\ DoneLanded' /\ SuccessOver'
  BY <1>3, <1>8, GoesOnKeeps
<1>10. calls' # <<>> /\ Panel!Newest' = c
  BY <1>1, <1>3, <1>4, CallSet DEF PanelTyped
<1>11. CrankRuns'
  <2> SUFFICES ASSUME Panel!F!Running(shownFlow')
               PROVE  \A i \in DOMAIN shownFlow'.steps :
                        /\ shownFlow'.steps[i] = "active" => i = Head(c.todo)
                        /\ shownFlow'.steps[i] = "failed" => i \in c.failed
    BY <1>3, <1>10 DEF CrankRuns, Going
  <2>1. Panel!F!Running(shownFlow)
    BY <1>6 DEF Panel!F!Running
  <2>2. \A i \in DOMAIN shownFlow.steps :
           shownFlow.steps[i] # "active" /\ (shownFlow.steps[i] = "failed" => i \in calls[k].failed)
    BY <1>1, <2>1 DEF CrankRuns
  <2> QED BY <1>2, <1>3, <1>7, <2>2
<1>12. RedeemRuns' /\ TradeRuns'
  BY DEF RedeemRuns, TradeRuns
<1> QED BY <1>9, <1>11, <1>12

LEMMA RemovedAt ==
  ASSUME NEW S, NEW s \in Seq(S), NEW i \in DOMAIN s
  PROVE  Panel!RemoveAt(s, i) \in Seq(S) /\ s[i] \in S
<1>1. i \in 1 .. Len(s) /\ Len(s) \in Nat
  OBVIOUS
<1>2. SubSeq(s, 1, i - 1) \in Seq(S) /\ SubSeq(s, i + 1, Len(s)) \in Seq(S)
  BY <1>1
<1> QED BY <1>1, <1>2 DEF Panel!RemoveAt

LEMMA CrankSendKeeps == ASSUME PanelInv, NEW k \in DOMAIN calls, Panel!CrankSend(k) PROVE PanelInv'
<1>1. panel = "crank" /\ calls[k].pc = "read" /\ UNCHANGED <<panel, busy, overtaken>>
  BY DEF Panel!CrankSend, Panel!Is
<1>2. calls[k].todo \in Seq(Panel!Ids)
  BY CallFacts DEF PanelInv, PanelTyped, PanelCalls
<1>3. ASSUME NEW i \in DOMAIN calls[k].todo,
             Panel!CrankSends(k, calls[k].todo[i], Panel!RemoveAt(calls[k].todo, i))
      PROVE  PanelInv'
  BY <1>1, <1>2, <1>3, RemovedAt, CrankSendsKeeps
<1>4. ASSUME Panel!CrankSends(k, "c", calls[k].todo) PROVE PanelInv'
  <2>1. "c" \in Panel!Ids
    BY DEF Panel!Ids
  <2> QED BY <1>1, <1>2, <1>4, <2>1, CrankSendsKeeps
<1> QED BY <1>3, <1>4 DEF Panel!CrankSend

\* runCrank goes on to read, its step told as done, skipped or failed.
LEMMA CrankToldKeeps ==
  ASSUME PanelInv, NEW k \in DOMAIN calls, panel = "crank", calls[k].pc = "send",
         NEW c \in PanelCalls, c.pc = "read", Panel!Goes(k, c), UNCHANGED <<panel, busy, overtaken>>,
         calls[k].landed \subseteq c.landed, calls[k].failed \subseteq c.failed,
         NEW to \in {"done", "skipped", "failed"},
         Moved(shownFlow, shownFlow', Head(calls[k].todo), Panel!F!Open, to),
         to = "done" => Head(calls[k].todo) \in c.landed, to = "failed" => Head(calls[k].todo) \in c.failed
  PROVE  PanelInv'
<1> USE DEF PanelInv
<1>1. /\ calls[k] \in PanelCalls /\ Shown(shownFlow)
      /\ k = Len(calls) /\ Panel!Newest = calls[k]
  BY CallFacts, OnlyOne DEF PanelTyped
<1>2. calls' = [calls EXCEPT ![k] = c]
  BY DEF Panel!Goes
<1> DEFINE step == Head(calls[k].todo)
<1> HIDE DEF step
<1>3. /\ Shown(shownFlow') /\ shownFlow'.status = shownFlow.status
      /\ DOMAIN shownFlow'.steps = DOMAIN shownFlow.steps
      /\ \A i \in DOMAIN shownFlow.steps :
            shownFlow'.steps[i] = IF i = step /\ Panel!F!Running(shownFlow) /\ shownFlow.steps[i] \in Panel!F!Open
                                  THEN to ELSE shownFlow.steps[i]
  BY DEF Moved, step
<1>4. (to = "done" => step \in c.landed) /\ (to = "failed" => step \in c.failed)
  BY DEF step
<1>5. GoesOn(k, c)
  <2>1. \A i \in DOMAIN shownFlow'.steps : shownFlow'.steps[i] = "done" =>
           i \in c.landed \/ (i \in DOMAIN shownFlow.steps /\ shownFlow.steps[i] = "done")
    BY <1>3, <1>4
  <2> QED BY <1>2, <1>3, <2>1 DEF GoesOn, Going
<1>6. PanelTyped' /\ Lone' /\ DoneLanded' /\ SuccessOver'
  BY <1>5, GoesOnKeeps
<1>7. calls' # <<>> /\ Panel!Newest' = c
  BY <1>1, <1>2, CallSet DEF PanelTyped
<1>8. CrankRuns'
  <2> SUFFICES ASSUME Panel!F!Running(shownFlow')
               PROVE  \A i \in DOMAIN shownFlow'.steps :
                        /\ shownFlow'.steps[i] # "active"
                        /\ shownFlow'.steps[i] = "failed" => i \in c.failed
    BY <1>7 DEF CrankRuns, Going
  <2>1. Panel!F!Running(shownFlow)
    BY <1>3 DEF Panel!F!Running
  <2>2. \A i \in DOMAIN shownFlow.steps :
           /\ shownFlow.steps[i] = "active" => i = step
           /\ shownFlow.steps[i] = "failed" => i \in calls[k].failed
    BY <1>1, <2>1 DEF CrankRuns, step
  <2> QED BY <1>3, <1>4, <2>1, <2>2 DEF Panel!F!Open
<1>9. RedeemRuns' /\ TradeRuns'
  BY DEF RedeemRuns, TradeRuns
<1> QED BY <1>6, <1>8, <1>9

LEMMA CrankSentKeeps == ASSUME PanelInv, NEW k \in DOMAIN calls, Panel!CrankSent(k) PROVE PanelInv'
<1> DEFINE step == Head(calls[k].todo)
           c == [calls[k] EXCEPT !.pc = "read", !.todo = Tail(@)]
           cd == [c EXCEPT !.landed = Panel!Landed(k)]
           cf == [c EXCEPT !.failed = @ \cup {step}]
<1>1. panel = "crank" /\ calls[k].pc = "send" /\ calls[k].pc # "over" /\ UNCHANGED <<panel, overtaken>>
  BY DEF Panel!CrankSent, Panel!Is
<1>2. calls[k] \in PanelCalls /\ Shown(shownFlow) /\ calls[k].todo # <<>>
  BY <1>1, CallFacts DEF PanelInv, PanelTyped
<1>3. step \in Panel!Ids /\ Tail(calls[k].todo) \in Seq(Panel!Ids)
  <2>1. calls[k].todo \in Seq(Panel!Ids)
    BY <1>2 DEF PanelCalls
  <2> QED BY <1>2, <2>1, SeqParts
<1>4. /\ c \in PanelCalls /\ c.pc = "read" /\ c.landed = calls[k].landed /\ c.failed = calls[k].failed
  BY <1>2, <1>3 DEF PanelCalls
<1>5. Panel!Landed(k) = calls[k].landed \cup {step} /\ calls[k].landed \cup {step} \in SUBSET Panel!Ids
  BY <1>2, <1>3 DEF Panel!Landed, Panel!Step, PanelCalls
<1> HIDE DEF c
<1>6. cd \in PanelCalls /\ cd.pc = "read" /\ cd.landed = calls[k].landed \cup {step} /\ cd.failed = calls[k].failed
  BY <1>4, <1>5 DEF PanelCalls
<1>7. cf \in PanelCalls /\ cf.pc = "read" /\ cf.landed = calls[k].landed /\ cf.failed = calls[k].failed \cup {step}
  BY <1>3, <1>4 DEF PanelCalls
<1> HIDE DEF cd, cf
<1>8. CASE shownFlow' = Panel!F!StepSucceeded(shownFlow, step) /\ Panel!Goes(k, cd) /\ UNCHANGED busy
  <2>1. Moved(shownFlow, shownFlow', step, Panel!F!Open, "done")
    BY <1>2, <1>8, MoveMoves DEF Panel!F!StepSucceeded
  <2> QED BY <1>1, <1>6, <1>8, <2>1, CrankToldKeeps
<1>9. CASE shownFlow' = Panel!F!StepSkipped(shownFlow, step) /\ Panel!Goes(k, c) /\ UNCHANGED busy
  <2>1. Moved(shownFlow, shownFlow', step, Panel!F!Open, "skipped")
    BY <1>2, <1>9, MoveMoves DEF Panel!F!StepSkipped
  <2> QED BY <1>1, <1>4, <1>9, <2>1, CrankToldKeeps
<1>10. CASE shownFlow' = Panel!F!StepFailed(shownFlow, step, FALSE) /\ Panel!Goes(k, cf) /\ UNCHANGED busy
  <2>1. Moved(shownFlow, shownFlow', step, Panel!F!Open, "failed")
    BY <1>2, <1>10, MoveMoves DEF Panel!F!StepFailed
  <2> QED BY <1>1, <1>7, <1>10, <2>1, CrankToldKeeps
<1>11. CASE shownFlow' = Panel!F!Fail(Panel!F!SkipPending(shownFlow)) /\ Panel!Returns(k, c)
  <2> DEFINE h == Panel!F!SkipPending(shownFlow)
  <2>1. Shown(h) /\ h.status = shownFlow.status /\ Onward(shownFlow, h) /\ DoneFrom(shownFlow, h)
    BY <1>2, SkipShown
  <2> HIDE DEF h
  <2>2. Stopped(shownFlow, Panel!F!Fail(h))
    BY <2>1, FailShown, StopsAfter
  <2>3. Stopped(shownFlow, shownFlow')
    BY <1>11, <2>2 DEF h
  <2> QED BY <1>1, <1>4, <1>11, <2>3, StopKeeps
<1>12. CASE shownFlow' = Panel!F!Fail(shownFlow) /\ Panel!Returns(k, c)
  <2>1. Stopped(shownFlow, shownFlow')
    BY <1>2, <1>12, FailShown
  <2> QED BY <1>1, <1>4, <1>12, <2>1, StopKeeps
<1> QED BY <1>8, <1>9, <1>10, <1>11, <1>12 DEF Panel!CrankSent, Panel!Step, c, cd, cf

LEMMA CrankEndsKeeps == ASSUME PanelInv, NEW k \in DOMAIN calls, Panel!CrankEnds(k) PROVE PanelInv'
<1> DEFINE d == [calls[k] EXCEPT !.pc = "over"]
<1>1. /\ panel = "crank" /\ calls[k].pc = "read" /\ calls[k].pc # "over" /\ UNCHANGED <<panel, overtaken>>
      /\ Panel!Returns(k, calls[k])
  BY DEF Panel!CrankEnds, Panel!Is
<1>2. calls[k] \in PanelCalls /\ Shown(shownFlow) /\ Panel!Newest = calls[k]
  BY <1>1, CallFacts, OnlyOne DEF PanelInv, PanelTyped
<1>3. CASE shownFlow' = Panel!F!Fail(shownFlow)
  BY <1>1, <1>3, FailKeeps
<1>4. CASE shownFlow' = Panel!CrankOutcome(calls[k], shownFlow)
  <2>1. /\ d \in PanelCalls /\ d.pc = "over" /\ d.todo = calls[k].todo
        /\ d.landed = calls[k].landed /\ d.failed = calls[k].failed
    BY <1>2 DEF PanelCalls
  <2>2. calls' = [calls EXCEPT ![k] = d] /\ busy' = FALSE
    BY <1>1 DEF Panel!Returns, Panel!Goes
  <2> HIDE DEF d
  <2>3. /\ Shown(shownFlow') /\ DoneFrom(shownFlow, shownFlow') /\ Onward(shownFlow, shownFlow')
        /\ shownFlow'.status = "succeeded" => shownFlow.status = "succeeded" \/ d.failed = {}
        /\ (Panel!F!Running(shownFlow) =>
               \A id \in DOMAIN shownFlow.steps : shownFlow.steps[id] \in {"active", "failed"} => calls[k].failed # {})
           => ~Panel!F!Running(shownFlow')
    BY <1>2, <1>4, <2>1, OutcomeShown
  <2>4. ~Panel!F!Running(shownFlow')
    <3>1. Panel!F!Running(shownFlow) =>
             \A id \in DOMAIN shownFlow.steps : shownFlow.steps[id] \in {"active", "failed"} => calls[k].failed # {}
      BY <1>1, <1>2 DEF PanelInv, CrankRuns
    <3> QED BY <2>3, <3>1
  <2> QED BY <1>1, <2>1, <2>2, <2>3, <2>4, ReturnKeeps
<1> QED BY <1>3, <1>4 DEF Panel!CrankEnds

LEMMA PanelSteps == PanelInv /\ Panel!Next => PanelInv'
BY PressKeeps, EditKeeps, BeginKeeps, ReadKeeps, SendKeeps, CrankSendKeeps, CrankSentKeeps, CrankEndsKeeps
   DEF Panel!Next, Panel!Call

LEMMA PanelRests == PanelInv /\ UNCHANGED panelVars => PanelInv'
BY DEF panelVars, PanelInv, PanelTyped, Lone, DoneLanded, SuccessOver, RedeemRuns, TradeRuns, CrankRuns,
       Panel!Newest, Panel!AllOver

LEMMA PanelHolds == PanelInv => Panel!TypeOK /\ Panel!NoOrphanSpinner /\ Panel!SuccessIsTrue
<1> SUFFICES ASSUME PanelInv PROVE Panel!TypeOK /\ Panel!NoOrphanSpinner /\ Panel!SuccessIsTrue
  OBVIOUS
<1> USE DEF PanelInv
<1>1. calls # <<>> => Panel!Newest = calls[Len(calls)] /\ Len(calls) \in DOMAIN calls
  BY CallFacts DEF PanelTyped
<1>2. Panel!TypeOK
  <2>1. \A k \in DOMAIN calls : calls[k] \in PanelCalls
    BY CallFacts DEF PanelTyped
  <2>2. \A k \in DOMAIN calls :
          /\ calls[k].pc \in {"begin", "read", "send", "over"}
          /\ calls[k].landed \subseteq Panel!Ids /\ calls[k].failed \subseteq Panel!Ids
    BY <2>1 DEF PanelCalls
  <2> QED BY <2>2 DEF PanelTyped, Shown, Panel!TypeOK
<1>3. Panel!NoOrphanSpinner
  <2> SUFFICES ASSUME Panel!F!Running(shownFlow) PROVE \E k \in DOMAIN calls : calls[k].pc # "over"
    BY DEF Panel!NoOrphanSpinner, Panel!AllOver
  <2>1. CASE panel = "redeem"
    BY <2>1 DEF RedeemRuns, Going
  <2>2. CASE panel # "redeem"
    BY <1>1, <2>2 DEF TradeRuns, CrankRuns, Going, PanelTyped
  <2> QED BY <2>1, <2>2
<1>4. Panel!SuccessIsTrue
  BY DEF Panel!SuccessIsTrue, DoneLanded, SuccessOver
<1> QED BY <1>2, <1>3, <1>4

\* A step of the panel moves no finished flow backwards.
FlowStep ==
    \/ shownFlow' = Panel!F!Idle \/ Panel!Restarted
    \/ /\ shownFlow.status = "succeeded" => shownFlow'.status = "succeeded"
       /\ \A id \in DOMAIN shownFlow.steps :
             shownFlow.steps[id] \in Panel!Over => shownFlow'.steps[id] = shownFlow.steps[id]

LEMMA MovedOnward ==
  ASSUME NEW f, NEW g, NEW id, NEW to, Moved(f, g, id, Panel!F!Open, to)
  PROVE  Onward(f, g)
BY DEF Moved, Onward, Panel!Over, Panel!F!Open

LEMMA OnwardStep == ASSUME Onward(shownFlow, shownFlow') PROVE FlowStep
BY DEF Onward, FlowStep

LEMMA CallsOnward ==
  ASSUME PanelInv, NEW k \in DOMAIN calls, Panel!Call(k)
  PROVE  FlowStep
<1>1. Shown(shownFlow) /\ calls[k] \in PanelCalls
  BY CallFacts DEF PanelInv, PanelTyped
<1>2. Onward(shownFlow, Panel!F!Fail(shownFlow))
  BY <1>1, FailShown DEF Stopped
<1>3. CASE Panel!Begin(k)
  <2> DEFINE ids == {calls[k].todo[i] : i \in DOMAIN calls[k].todo}
  <2>1. CASE shownFlow' = Panel!F!Start(shownFlow, ids)
    <3>1. ids \in SUBSET Panel!Ids
      BY <1>1 DEF PanelCalls
    <3> HIDE DEF ids
    <3>2. /\ Panel!F!Running(shownFlow')
          /\ \/ shownFlow' = shownFlow
             \/ /\ ~Panel!F!Running(shownFlow) /\ DOMAIN shownFlow'.steps = ids
                /\ \A id \in ids : shownFlow'.steps[id] = "pending"
      BY <1>1, <2>1, <3>1, StartShown
    <3>3. CASE shownFlow' = shownFlow
      BY <3>3, OnwardStep DEF FlowStep
    <3>4. CASE /\ ~Panel!F!Running(shownFlow) /\ DOMAIN shownFlow'.steps = ids
               /\ \A id \in ids : shownFlow'.steps[id] = "pending"
      BY <3>2, <3>4 DEF FlowStep, Panel!Restarted, Panel!Range
    <3> QED BY <3>2, <3>3, <3>4
  <2>2. CASE shownFlow' = Panel!F!Fail(shownFlow)
    BY <1>2, <2>2, OnwardStep
  <2> QED BY <1>3, <2>1, <2>2 DEF Panel!Begin
<1>4. CASE Panel!Read(k)
  <2>1. CASE shownFlow' = Panel!F!StepStarted(shownFlow, Panel!Step(k))
    <3>1. /\ shownFlow'.status = shownFlow.status /\ DOMAIN shownFlow'.steps = DOMAIN shownFlow.steps
          /\ \A i \in DOMAIN shownFlow.steps :
               shownFlow'.steps[i] = shownFlow.steps[i] \/ shownFlow.steps[i] = "pending"
      BY <1>1, <2>1, StartedMoves
    <3> QED BY <3>1 DEF FlowStep, Panel!Over
  <2>2. CASE shownFlow' = Panel!F!Finish(shownFlow)
    <3>1. /\ shownFlow'.steps = shownFlow.steps
          /\ shownFlow'.status = "succeeded" \/ shownFlow'.status = shownFlow.status
      BY <1>1, <2>2, FinishShown
    <3> QED BY <3>1 DEF FlowStep
  <2>3. CASE shownFlow' = Panel!F!Fail(shownFlow)
    BY <1>2, <2>3, OnwardStep
  <2> QED BY <1>4, <2>1, <2>2, <2>3 DEF Panel!Read
<1>5. CASE Panel!Send(k)
  <2>1. CASE shownFlow' = Panel!F!StepSucceeded(shownFlow, Panel!Step(k))
    <3>1. Moved(shownFlow, shownFlow', Panel!Step(k), Panel!F!Open, "done")
      BY <1>1, <2>1, MoveMoves DEF Panel!F!StepSucceeded
    <3> QED BY <3>1, MovedOnward, OnwardStep
  <2>2. CASE shownFlow' = Panel!F!Fail(Panel!F!StepFailed(shownFlow, Panel!Step(k), TRUE))
    <3>1. Stopped(shownFlow, shownFlow')
      BY <1>1, <2>2, StepFailShown
    <3> QED BY <3>1, OnwardStep DEF Stopped
  <2> QED BY <1>5, <2>1, <2>2 DEF Panel!Send
<1>6. CASE Panel!CrankSend(k)
  <2>1. PICK id, rest : id \in Panel!Ids /\ Panel!CrankSends(k, id, rest)
    <3>1. calls[k].todo \in Seq(Panel!Ids) /\ "c" \in Panel!Ids
      BY <1>1 DEF PanelCalls, Panel!Ids
    <3>2. \A i \in DOMAIN calls[k].todo : calls[k].todo[i] \in Panel!Ids
      BY <3>1
    <3> QED BY <1>6, <3>1, <3>2 DEF Panel!CrankSend
  <2> DEFINE h == Panel!F!StepsAdded(shownFlow, {id})
  <2>2. shownFlow' = Panel!F!StepStarted(h, id)
    BY <2>1 DEF Panel!CrankSends
  <2> HIDE DEF h
  <2>3. /\ Shown(h) /\ h.status = shownFlow.status
        /\ DOMAIN h.steps = IF Panel!F!Running(shownFlow) THEN DOMAIN shownFlow.steps \cup {id} ELSE DOMAIN shownFlow.steps
        /\ \A i \in DOMAIN h.steps :
              h.steps[i] = IF i \in DOMAIN shownFlow.steps THEN shownFlow.steps[i] ELSE "pending"
    BY <1>1, <2>1, AddedShown DEF h
  <2>4. /\ shownFlow'.status = h.status /\ DOMAIN shownFlow'.steps = DOMAIN h.steps
        /\ \A i \in DOMAIN h.steps : shownFlow'.steps[i] = h.steps[i] \/ h.steps[i] = "pending"
    BY <2>2, <2>3, StartedMoves
  <2>5. \A i \in DOMAIN shownFlow.steps : i \in DOMAIN h.steps /\ h.steps[i] = shownFlow.steps[i]
    BY <2>3
  <2> QED BY <2>3, <2>4, <2>5 DEF FlowStep, Panel!Over
<1>7. CASE Panel!CrankSent(k)
  <2> DEFINE step == Panel!Step(k)
  <2> HIDE DEF step
  <2>1. CASE shownFlow' = Panel!F!StepSucceeded(shownFlow, step)
    <3>1. Moved(shownFlow, shownFlow', step, Panel!F!Open, "done")
      BY <1>1, <2>1, MoveMoves DEF Panel!F!StepSucceeded
    <3> QED BY <3>1, MovedOnward, OnwardStep
  <2>2. CASE shownFlow' = Panel!F!StepSkipped(shownFlow, step)
    <3>1. Moved(shownFlow, shownFlow', step, Panel!F!Open, "skipped")
      BY <1>1, <2>2, MoveMoves DEF Panel!F!StepSkipped
    <3> QED BY <3>1, MovedOnward, OnwardStep
  <2>3. CASE shownFlow' = Panel!F!StepFailed(shownFlow, step, FALSE)
    <3>1. Moved(shownFlow, shownFlow', step, Panel!F!Open, "failed")
      BY <1>1, <2>3, MoveMoves DEF Panel!F!StepFailed
    <3> QED BY <3>1, MovedOnward, OnwardStep
  <2>4. CASE shownFlow' = Panel!F!Fail(Panel!F!SkipPending(shownFlow))
    <3> DEFINE h == Panel!F!SkipPending(shownFlow)
    <3>1. Shown(h) /\ h.status = shownFlow.status /\ Onward(shownFlow, h) /\ DoneFrom(shownFlow, h)
      BY <1>1, SkipShown
    <3> HIDE DEF h
    <3>2. Stopped(shownFlow, Panel!F!Fail(h))
      BY <3>1, FailShown, StopsAfter
    <3>3. Stopped(shownFlow, shownFlow')
      BY <2>4, <3>2 DEF h
    <3> QED BY <3>3, OnwardStep DEF Stopped
  <2>5. CASE shownFlow' = Panel!F!Fail(shownFlow)
    BY <1>2, <2>5, OnwardStep
  <2> QED BY <1>7, <2>1, <2>2, <2>3, <2>4, <2>5 DEF Panel!CrankSent, step
<1>8. CASE Panel!CrankEnds(k)
  <2>1. Onward(shownFlow, Panel!CrankOutcome(calls[k], shownFlow))
    BY <1>1, OutcomeShown
  <2> QED BY <1>2, <1>8, <2>1, OnwardStep DEF Panel!CrankEnds
<1> QED BY <1>3, <1>4, <1>5, <1>6, <1>7, <1>8 DEF Panel!Call

LEMMA PanelOnward == PanelInv /\ Panel!Next => FlowStep \/ UNCHANGED shownFlow
<1> SUFFICES ASSUME PanelInv, Panel!Next PROVE FlowStep \/ UNCHANGED shownFlow
  OBVIOUS
<1>1. CASE Panel!Press \/ Panel!Edit \/ Panel!SwitchSide
  BY <1>1 DEF Panel!Press, Panel!Edit, Panel!SwitchSide, FlowStep
<1>2. CASE \E k \in DOMAIN calls : Panel!Call(k)
  BY <1>2, CallsOnward
<1> QED BY <1>1, <1>2 DEF Panel!Next

-----------------------------------------------------------------------------
(***************************************************************************)
(* RateLimiter: what was granted to some keys between two times.           *)
(***************************************************************************)

Grants == [Keys \X Limiter!Times -> Nat]
Span(a, b) == {s \in Limiter!Times : a <= s /\ s <= b}
Got(g, K, a, b) == Sum(g, K \X Span(a, b))
\* One grant more.
Granted(g, key, t) == [g EXCEPT ![<<key, t>>] = @ + 1]

LEMMA LimiterBounds ==
    /\ MaxTime \in Nat /\ Window \in Nat /\ Limit \in Nat /\ GlobalLimit \in Nat /\ MaxKeys \in Nat
    /\ 1 <= Window /\ 1 <= Limit /\ IsFiniteSet(Keys) /\ Limiter!Times = 0 .. MaxTime
BY AppAssumption DEF AppAssumption, Limiter!Times

LEMMA GotFinite ==
  ASSUME NEW K \in SUBSET Keys, NEW T \in SUBSET Limiter!Times
  PROVE  IsFiniteSet(K \X T) /\ K \X T \in SUBSET (Keys \X Limiter!Times)
<1>1. IsFiniteSet(K)
  BY LimiterBounds, FS_Subset
<1>2. IsFiniteSet(Limiter!Times)
  BY LimiterBounds, FS_Interval
<1>3. IsFiniteSet(T)
  BY <1>2, FS_Subset
<1> QED BY <1>1, <1>3, FS_Product

LEMMA GotNat ==
  ASSUME NEW K \in SUBSET Keys, NEW g \in Grants, NEW a, NEW b
  PROVE  Got(g, K, a, b) \in Nat
<1>1. Span(a, b) \in SUBSET Limiter!Times
  BY DEF Span
<1>2. PICK D : D = K \X Span(a, b)
  OBVIOUS
<1>3. IsFiniteSet(D) /\ D \in SUBSET (Keys \X Limiter!Times)
  BY <1>1, <1>2, GotFinite
<1>4. \A x \in D : g[x] \in Nat
  BY <1>3 DEF Grants
<1>5. Sum(g, D) \in Nat
  BY <1>3, <1>4, SumNat
<1> QED BY <1>2, <1>5 DEF Got

\* A longer time brings no less.
LEMMA GotGrows ==
  ASSUME NEW K \in SUBSET Keys, NEW g \in Grants, NEW a, NEW b, NEW c, NEW d, Span(a, b) \subseteq Span(c, d)
  PROVE  Got(g, K, a, b) <= Got(g, K, c, d)
<1>1. Span(c, d) \in SUBSET Limiter!Times
  BY DEF Span
<1>2. PICK D, E : D = K \X Span(c, d) /\ E = K \X Span(a, b)
  OBVIOUS
<1>3. IsFiniteSet(D) /\ D \in SUBSET (Keys \X Limiter!Times)
  BY <1>1, <1>2, GotFinite
<1>4. \A x \in D : g[x] \in Nat
  BY <1>3 DEF Grants
<1>5. E \in SUBSET D
  BY <1>2
<1>6. Sum(g, E) <= Sum(g, D)
  BY ONLY <1>3, <1>4, <1>5, SumGrows, ZenonT(30)
<1> QED BY <1>2, <1>6 DEF Got

\* A time in two parts.
LEMMA GotParts ==
  ASSUME NEW K \in SUBSET Keys, NEW g \in Grants, NEW a \in Int, NEW b \in Int, NEW c \in Int, a <= c + 1, c <= b
  PROVE  Got(g, K, a, b) = Got(g, K, a, c) + Got(g, K, c + 1, b)
<1>1. /\ Span(a, b) = Span(a, c) \cup Span(c + 1, b) /\ Span(a, c) \cap Span(c + 1, b) = {}
      /\ Span(a, c) \in SUBSET Limiter!Times /\ Span(c + 1, b) \in SUBSET Limiter!Times
  BY LimiterBounds DEF Span
<1>2. PICK D, E : D = K \X Span(a, c) /\ E = K \X Span(c + 1, b)
  OBVIOUS
<1>3. /\ IsFiniteSet(D) /\ D \in SUBSET (Keys \X Limiter!Times)
      /\ IsFiniteSet(E) /\ E \in SUBSET (Keys \X Limiter!Times)
  BY <1>1, <1>2, GotFinite
<1>4. \A x \in D \cup E : g[x] \in Int
  BY <1>3 DEF Grants
<1>5. D \cup E = K \X Span(a, b) /\ D \cap E = {}
  BY <1>1, <1>2
<1>6. Sum(g, D \cup E) = Sum(g, D) + Sum(g, E)
  BY ONLY <1>3, <1>4, <1>5, SumApart, ZenonT(30)
<1> QED BY <1>2, <1>5, <1>6, Zenon DEF Got

\* Nothing granted.
Quiet(g, K, a, b) == \A k \in K : \A s \in Span(a, b) : g[<<k, s>>] = 0

LEMMA GotNone ==
  ASSUME NEW K \in SUBSET Keys, NEW g \in Grants, NEW a, NEW b, Quiet(g, K, a, b)
  PROVE  Got(g, K, a, b) = 0
<1>1. Span(a, b) \in SUBSET Limiter!Times
  BY DEF Span
<1>2. PICK D : D = K \X Span(a, b)
  OBVIOUS
<1>3. IsFiniteSet(D)
  BY <1>1, <1>2, GotFinite
<1>4. \A x \in D : g[x] = 0
  BY <1>2 DEF Quiet
<1>5. Sum(g, D) = 0
  BY <1>3, <1>4, SumZero
<1> QED BY <1>2, <1>5 DEF Got

LEMMA GrantedTyped ==
  ASSUME NEW g \in Grants, NEW key \in Keys, NEW t \in Limiter!Times
  PROVE  /\ Granted(g, key, t) \in Grants
         /\ \A k \in Keys, s \in Limiter!Times : k # key \/ s # t => Granted(g, key, t)[<<k, s>>] = g[<<k, s>>]
<1>1. <<key, t>> \in Keys \X Limiter!Times
  OBVIOUS
<1> QED BY <1>1 DEF Grants, Granted

\* A grant counts where it falls.
LEMMA GotGranted ==
  ASSUME NEW K \in SUBSET Keys, NEW g \in Grants, NEW key \in Keys, NEW t \in Limiter!Times, NEW a, NEW b
  PROVE  Got(Granted(g, key, t), K, a, b) =
            IF key \in K /\ t \in Span(a, b) THEN Got(g, K, a, b) + 1 ELSE Got(g, K, a, b)
<1>1. Span(a, b) \in SUBSET Limiter!Times
  BY DEF Span
<1>2. PICK D, h, x : D = K \X Span(a, b) /\ h = Granted(g, key, t) /\ x = <<key, t>>
  OBVIOUS
<1>3. IsFiniteSet(D) /\ D \in SUBSET (Keys \X Limiter!Times)
  BY <1>1, <1>2, GotFinite
<1>4. h \in Grants /\ h[x] = g[x] + 1 /\ g[x] \in Nat
  <2>1. x \in Keys \X Limiter!Times
    BY <1>2
  <2> QED BY <1>2, <2>1 DEF Grants, Granted
<1>5. \A y \in D : g[y] \in Int /\ h[y] \in Int
  BY <1>3, <1>4 DEF Grants
<1>6. \A y \in Keys \X Limiter!Times : y # x => h[y] = g[y]
  BY <1>2 DEF Grants, Granted
<1>7. CASE key \in K /\ t \in Span(a, b)
  <2>1. x \in D
    BY <1>2, <1>7
  <2>2. SameBut(g, h, D, x)
    BY <1>3, <1>5, <1>6 DEF SameBut
  <2>3. IsFiniteSet(D)
    BY <1>3
  <2>4. Sum(h, D) = Sum(g, D) - g[x] + h[x] /\ Sum(g, D) \in Int /\ Sum(h, D) \in Int
    BY ONLY <2>1, <2>2, <2>3, SumChanged, Zenon
  <2>5. Sum(h, D) = Sum(g, D) + 1
    BY <1>4, <2>4
  <2> QED BY <1>2, <1>7, <2>5 DEF Got
<1>8. CASE ~(key \in K /\ t \in Span(a, b))
  <2>1. x \notin D
    BY <1>2, <1>8
  <2>2. \A y \in D : g[y] \in Int /\ h[y] = g[y]
    BY <1>3, <1>5, <1>6, <2>1
  <2>3. Sum(g, D) = Sum(h, D)
    BY ONLY <1>3, <2>2, SumAgree, ZenonT(30)
  <2> QED BY <1>2, <1>8, <2>3 DEF Got
<1> QED BY <1>7, <1>8

LEMMA SpanGrows ==
  ASSUME NEW a \in Int, NEW b \in Int, NEW c \in Int, NEW d \in Int, c <= a, b <= d
  PROVE  Span(a, b) \subseteq Span(c, d)
<1>1. SUFFICES ASSUME NEW s \in Limiter!Times, a <= s, s <= b PROVE c <= s /\ s <= d
  BY DEF Span
<1>2. s \in Int
  BY LimiterBounds
<1> QED BY <1>1, <1>2

LEMMA QuietFrom ==
  ASSUME NEW K, NEW g, NEW a, NEW b, \A k \in K : \A s \in Limiter!Times : s >= a => g[<<k, s>>] = 0
  PROVE  Quiet(g, K, a, b)
<1>1. \A s \in Span(a, b) : s \in Limiter!Times /\ s >= a
  BY DEF Span
<1> QED BY <1>1 DEF Quiet

-----------------------------------------------------------------------------
(* Fixed windows, of a key or of the instance.                             *)

\* What the window that began at st, with ct grants, says of the grants to the keys K by
\* the time n.  Before it, at most over were granted within Window.
WindowHolds(g, n, K, st, ct, lim, over) ==
    /\ st <= n /\ ct <= lim /\ Got(g, K, st, n) = ct
    /\ \A k \in K : \A s \in Limiter!Times : s >= st + Window \/ s > n => g[<<k, s>>] = 0
    /\ \A t \in Limiter!Times : st - Window < t /\ t < st => Got(g, K, t, st - 1) <= over
    /\ \A t \in Limiter!Times : Got(g, K, t, t + Window - 1) <= lim + over
    /\ lim <= over \/ (st = n /\ ct = 0) \/ Got(g, K, st, st) >= 1

\* No window: at most over were granted within Window.
RestHolds(g, n, K, lim, over) ==
    /\ \A k \in K : \A s \in Limiter!Times : s >= n => g[<<k, s>>] = 0
    /\ \A t \in Limiter!Times : t > n - Window => Got(g, K, t, n) <= over
    /\ \A t \in Limiter!Times : Got(g, K, t, t + Window - 1) <= lim + over

LEMMA WindowOpens ==
  ASSUME NEW g \in Grants, NEW n \in Limiter!Times, NEW K \in SUBSET Keys, NEW lim \in Nat, NEW over \in Nat,
         RestHolds(g, n, K, lim, over)
  PROVE  WindowHolds(g, n, K, n, 0, lim, over)
<1>1. n \in Int /\ Window \in Nat
  BY LimiterBounds
<1>2. Got(g, K, n, n) = 0
  <2>1. Quiet(g, K, n, n)
    BY <1>1, LimiterBounds DEF RestHolds, Quiet, Span
  <2> QED BY <2>1, GotNone
<1>3. \A k \in K : \A s \in Limiter!Times : s >= n + Window \/ s > n => g[<<k, s>>] = 0
  <2>1. \A s \in Limiter!Times : s >= n + Window \/ s > n => s >= n
    BY <1>1, LimiterBounds
  <2> QED BY <2>1 DEF RestHolds
<1>4. \A t \in Limiter!Times : n - Window < t /\ t < n => Got(g, K, t, n - 1) <= over
  <2>1. SUFFICES ASSUME NEW t \in Limiter!Times, n - Window < t PROVE Got(g, K, t, n - 1) <= over
    OBVIOUS
  <2>2. Span(t, n - 1) \subseteq Span(t, n) /\ t > n - Window
    BY <1>1, <2>1, LimiterBounds DEF Span
  <2>3. Got(g, K, t, n - 1) <= Got(g, K, t, n)
    BY <2>2, GotGrows
  <2>4. Got(g, K, t, n) <= over
    BY <2>2 DEF RestHolds
  <2>5. Got(g, K, t, n - 1) \in Nat /\ Got(g, K, t, n) \in Nat
    BY GotNat
  <2> QED BY <2>3, <2>4, <2>5
<1> QED BY <1>1, <1>2, <1>3, <1>4 DEF WindowHolds, RestHolds

LEMMA WindowExpires ==
  ASSUME NEW g \in Grants, NEW n \in Limiter!Times, NEW K \in SUBSET Keys, NEW lim \in Nat, NEW over \in Nat,
         NEW st \in Int, NEW ct \in Nat, WindowHolds(g, n, K, st, ct, lim, over), n - st >= Window, lim <= over + 1
  PROVE  RestHolds(g, n, K, lim, over)
<1>1. n \in Int /\ Window \in Nat /\ 1 <= Window /\ Limiter!Times \subseteq Int
  BY LimiterBounds
<1>2. \A k \in K : \A s \in Limiter!Times : s >= n => g[<<k, s>>] = 0
  <2>1. \A s \in Limiter!Times : s >= n => s >= st + Window
    BY <1>1
  <2> QED BY <2>1 DEF WindowHolds
<1>3. ASSUME NEW t \in Limiter!Times, t > n - Window PROVE Got(g, K, t, n) <= over
  <2>1. PICK a \in Nat, b \in Nat, c \in Nat, d \in Nat :
           a = Got(g, K, t, n) /\ b = Got(g, K, st, n) /\ c = Got(g, K, st, st) /\ d = Got(g, K, st + 1, n)
    BY GotNat
  <2>2. a <= d
    <3>1. t \in Int /\ st + 1 \in Int /\ st + 1 <= t /\ n <= n
      BY <1>1, <1>3
    <3>2. Span(t, n) \subseteq Span(st + 1, n)
      BY <1>1, <3>1, SpanGrows
    <3> QED BY <2>1, <3>2, GotGrows
  <2>3. b = c + d
    <3>1. Got(g, K, st, n) = Got(g, K, st, st) + Got(g, K, st + 1, n)
      BY <1>1, GotParts
    <3> QED BY <2>1, <3>1
  <2>4. b = ct /\ ct <= lim /\ (lim <= over \/ c >= 1)
    BY <1>1, <2>1 DEF WindowHolds
  <2> QED BY <2>1, <2>2, <2>3, <2>4
<1> QED BY <1>2, <1>3 DEF RestHolds, WindowHolds

LEMMA WindowCounts ==
  ASSUME NEW g \in Grants, NEW n \in Limiter!Times, NEW K \in SUBSET Keys, NEW lim \in Nat, NEW over \in Nat,
         NEW st \in Int, NEW ct \in Nat, NEW key \in K,
         WindowHolds(g, n, K, st, ct, lim, over), n - st < Window, ct < lim
  PROVE  WindowHolds(Granted(g, key, n), n, K, st, ct + 1, lim, over)
<1> DEFINE h == Granted(g, key, n)
<1>1. n \in Int /\ Window \in Nat /\ 1 <= Window /\ Limiter!Times \subseteq Int /\ n \in Limiter!Times /\ key \in Keys
  BY LimiterBounds
<1>2. /\ st <= n /\ Got(g, K, st, n) = ct
      /\ \A k \in K : \A s \in Limiter!Times : s >= st + Window \/ s > n => g[<<k, s>>] = 0
      /\ \A t \in Limiter!Times : st - Window < t /\ t < st => Got(g, K, t, st - 1) <= over
      /\ \A t \in Limiter!Times : Got(g, K, t, t + Window - 1) <= lim + over
      /\ lim <= over \/ (st = n /\ ct = 0) \/ Got(g, K, st, st) >= 1
  BY DEF WindowHolds
<1>3. h \in Grants /\ \A k \in Keys, s \in Limiter!Times : s # n => h[<<k, s>>] = g[<<k, s>>]
  BY <1>1, GrantedTyped
<1>4. \A a, b : Got(h, K, a, b) = IF n \in Span(a, b) THEN Got(g, K, a, b) + 1 ELSE Got(g, K, a, b)
  BY <1>1, GotGranted
<1> HIDE DEF h
<1>5. Got(h, K, st, n) = ct + 1
  <2>1. n \in Span(st, n)
    BY <1>1, <1>2 DEF Span
  <2> QED BY <1>2, <1>4, <2>1
<1>6. \A k \in K : \A s \in Limiter!Times : s >= st + Window \/ s > n => h[<<k, s>>] = 0
  <2>1. \A s \in Limiter!Times : s >= st + Window \/ s > n => s # n
    BY <1>1
  <2> QED BY <1>2, <1>3, <2>1
<1>7. \A t : Got(h, K, t, st - 1) = Got(g, K, t, st - 1)
  <2>1. \A t : n \notin Span(t, st - 1)
    BY <1>1, <1>2 DEF Span
  <2> QED BY <1>4, <2>1
<1>8. ASSUME NEW t \in Limiter!Times PROVE Got(h, K, t, t + Window - 1) <= lim + over
  <2>1. CASE n \notin Span(t, t + Window - 1)
    BY <1>2, <1>4, <2>1
  <2>2. CASE n \in Span(t, t + Window - 1)
    <3>1. t <= n /\ n <= t + Window - 1 /\ t \in Int
      BY <1>1, <2>2 DEF Span
    <3>2. PICK a \in Nat, b \in Nat, c \in Nat :
             a = Got(h, K, t, t + Window - 1) /\ b = Got(h, K, t, n) /\ c = Got(h, K, n + 1, t + Window - 1)
      BY <1>3, GotNat
    <3>3. a = b + c
      <4>1. Got(h, K, t, t + Window - 1) = Got(h, K, t, n) + Got(h, K, n + 1, t + Window - 1)
        BY <1>1, <1>3, <3>1, GotParts
      <4> QED BY <3>2, <4>1
    <3>4. c = 0
      <4>0. \A k \in K : \A s \in Limiter!Times : s >= n + 1 => h[<<k, s>>] = 0
        BY <1>1, <1>6
      <4>1. Quiet(h, K, n + 1, t + Window - 1)
        BY <4>0, QuietFrom
      <4> QED BY <1>3, <3>2, <4>1, GotNone
    <3>5. CASE t >= st
      <4>0. t \in Int /\ st \in Int /\ st <= t /\ n <= n /\ n \in Int
        BY <1>1, <3>1, <3>5
      <4>1. Span(t, n) \subseteq Span(st, n)
        BY <4>0, SpanGrows
      <4>2. Got(h, K, t, n) <= Got(h, K, st, n)
        BY <1>3, <4>1, GotGrows
      <4> QED BY <1>5, <3>2, <3>3, <3>4, <4>2
    <3>6. CASE t < st
      <4>1. Got(h, K, t, n) = Got(h, K, t, st - 1) + Got(h, K, (st - 1) + 1, n)
        <5>1. t \in Int /\ st - 1 \in Int /\ n \in Int /\ t <= (st - 1) + 1 /\ st - 1 <= n
          BY <1>1, <1>2, <3>1, <3>6
        <5> QED BY <1>3, <5>1, GotParts
      <4>2. (st - 1) + 1 = st /\ st - Window < t
        BY <1>1, <1>2, <3>1
      <4>3. Got(h, K, t, st - 1) <= over /\ Got(h, K, t, st - 1) \in Nat
        BY <1>2, <1>3, <1>7, <3>6, <4>2, GotNat
      <4> QED BY <1>5, <3>2, <3>3, <3>4, <4>1, <4>2, <4>3
    <3> QED BY <1>1, <3>1, <3>5, <3>6
  <2> QED BY <2>1, <2>2
<1>9. lim <= over \/ Got(h, K, st, st) >= 1
  <2>1. Got(g, K, st, st) \in Nat
    BY GotNat
  <2>2. Got(h, K, st, st) >= Got(g, K, st, st)
    BY <1>4, <2>1
  <2>3. st = n => n \in Span(st, st)
    BY <1>1 DEF Span
  <2>4. st = n => Got(h, K, st, st) = Got(g, K, st, st) + 1
    BY <1>4, <2>3
  <2> QED BY <1>2, <1>4, <2>1, <2>2, <2>4
<1> QED BY <1>2, <1>5, <1>6, <1>7, <1>8, <1>9 DEF WindowHolds, h

LEMMA WindowTicks ==
  ASSUME NEW g \in Grants, NEW n \in Limiter!Times, NEW K \in SUBSET Keys, NEW lim \in Nat, NEW over \in Nat,
         NEW st \in Int, NEW ct \in Nat, WindowHolds(g, n, K, st, ct, lim, over), n < MaxTime,
         lim <= over \/ ct >= 1
  PROVE  WindowHolds(g, n + 1, K, st, ct, lim, over)
<1>1. n \in Int /\ Window \in Nat /\ Limiter!Times \subseteq Int
  BY LimiterBounds
<1>2. Got(g, K, n + 1, n + 1) = 0
  <2>0. \A k \in K : \A s \in Limiter!Times : s >= n + 1 => g[<<k, s>>] = 0
    BY <1>1 DEF WindowHolds
  <2>1. Quiet(g, K, n + 1, n + 1)
    BY <2>0, QuietFrom
  <2> QED BY <2>1, GotNone
<1>3. Got(g, K, st, n + 1) = Got(g, K, st, n) + Got(g, K, n + 1, n + 1)
  BY <1>1, GotParts DEF WindowHolds
<1>4. Got(g, K, st, n + 1) = ct
  BY <1>2, <1>3 DEF WindowHolds
<1>5. \A k \in K : \A s \in Limiter!Times : s >= st + Window \/ s > n + 1 => g[<<k, s>>] = 0
  BY <1>1 DEF WindowHolds
<1>6. st <= n + 1 /\ ct <= lim
  BY <1>1 DEF WindowHolds
<1>7. lim <= over \/ Got(g, K, st, st) >= 1
  BY DEF WindowHolds
<1> QED BY <1>4, <1>5, <1>6, <1>7 DEF WindowHolds

LEMMA RestTicks ==
  ASSUME NEW g \in Grants, NEW n \in Limiter!Times, NEW K \in SUBSET Keys, NEW lim \in Nat, NEW over \in Nat,
         RestHolds(g, n, K, lim, over), n < MaxTime
  PROVE  RestHolds(g, n + 1, K, lim, over)
<1>1. n \in Int /\ Window \in Nat /\ Limiter!Times \subseteq Int
  BY LimiterBounds
<1>2. \A t : Quiet(g, K, n + 1, t)
  <2>1. \A k \in K : \A s \in Limiter!Times : s >= n + 1 => g[<<k, s>>] = 0
    BY <1>1 DEF RestHolds
  <2> QED BY <2>1, QuietFrom
<1>3. ASSUME NEW t \in Limiter!Times, t > (n + 1) - Window PROVE Got(g, K, t, n + 1) <= over
  <2>1. CASE t <= n + 1
    <3>1. Got(g, K, t, n + 1) = Got(g, K, t, n) + Got(g, K, n + 1, n + 1)
      BY <1>1, <2>1, GotParts
    <3>2. Got(g, K, n + 1, n + 1) = 0
      BY <1>2, GotNone
    <3>3. Got(g, K, t, n) <= over /\ Got(g, K, t, n) \in Nat
      <4>1. t > n - Window
        BY <1>1, <1>3
      <4> QED BY <4>1, GotNat DEF RestHolds
    <3> QED BY <3>1, <3>2, <3>3
  <2>2. CASE t > n + 1
    <3>1. Quiet(g, K, t, n + 1)
      BY <1>1, <2>2 DEF Quiet, Span
    <3>2. Got(g, K, t, n + 1) = 0
      BY <3>1, GotNone
    <3> QED BY <3>2
  <2> QED BY <1>1, <2>1, <2>2
<1>4. \A k \in K : \A s \in Limiter!Times : s >= n + 1 => g[<<k, s>>] = 0
  BY <1>1 DEF RestHolds
<1> QED BY <1>3, <1>4 DEF RestHolds

\* A grant to another key.
LEMMA OtherGranted ==
  ASSUME NEW g \in Grants, NEW n \in Limiter!Times, NEW K \in SUBSET Keys, NEW key \in Keys, key \notin K,
         NEW lim, NEW over
  PROVE  /\ RestHolds(g, n, K, lim, over) => RestHolds(Granted(g, key, n), n, K, lim, over)
         /\ \A st, ct : WindowHolds(g, n, K, st, ct, lim, over)
                           => WindowHolds(Granted(g, key, n), n, K, st, ct, lim, over)
<1>1. \A k \in K, s \in Limiter!Times : Granted(g, key, n)[<<k, s>>] = g[<<k, s>>]
  BY GrantedTyped
<1>2. \A a, b : Got(Granted(g, key, n), K, a, b) = Got(g, K, a, b)
  BY GotGranted
<1>3. RestHolds(g, n, K, lim, over) => RestHolds(Granted(g, key, n), n, K, lim, over)
  BY <1>1, <1>2 DEF RestHolds
<1>4. ASSUME NEW st, NEW ct, WindowHolds(g, n, K, st, ct, lim, over)
      PROVE  WindowHolds(Granted(g, key, n), n, K, st, ct, lim, over)
  BY <1>1, <1>2, <1>4 DEF WindowHolds
<1> QED BY <1>3, <1>4

-----------------------------------------------------------------------------
(* The limiter.                                                            *)

Windows == [start : Limiter!Times, count : 1 .. Limit]
\* What a map of windows says of the grants by the time n.
MapHolds(g, n, map) ==
    /\ DOMAIN map \subseteq Keys /\ map \in [DOMAIN map -> Windows]
    /\ \A k \in DOMAIN map : WindowHolds(g, n, {k}, map[k].start, map[k].count, Limit, Limit - 1)
    /\ \A k \in Keys \ DOMAIN map : RestHolds(g, n, {k}, Limit, Limit - 1)
InstanceHolds(g, n, w) ==
    /\ DOMAIN w = {"start", "count"}
    /\ w.start \in Limiter!Times \cup {-Window} /\ w.count \in 0 .. GlobalLimit
    /\ WindowHolds(g, n, Keys, w.start, w.count, GlobalLimit, GlobalLimit)
\* What the last sweep left had begun within Window before it.
SweepHolds ==
    /\ lastSweep \in Limiter!Times \cup {-Window} /\ crowdedOut \in BOOLEAN
    /\ \A k \in DOMAIN hits : lastSweep - hits[k].start < Window
    /\ crowdedOut => \A k \in DOMAIN hits : now - hits[k].start < 2 * Window

LimiterInv ==
    /\ now \in Limiter!Times /\ granted \in Grants
    /\ MapHolds(granted, now, hits) /\ Cardinality(DOMAIN hits) <= MaxKeys
    /\ InstanceHolds(granted, now, global)
    /\ SweepHolds /\ lastSweep <= now

LEMMA LimiterNow == LimiterInv => now \in 0 .. MaxTime /\ now \in Int /\ Window \in Nat /\ 1 <= Window
BY LimiterBounds DEF LimiterInv

LEMMA LimiterStarts == Limiter!Init => LimiterInv
<1> SUFFICES ASSUME Limiter!Init PROVE LimiterInv
  OBVIOUS
<1>1. /\ now = 0 /\ hits = <<>> /\ global = [start |-> -Window, count |-> 0] /\ lastSweep = -Window
      /\ granted = [grant \in Keys \X Limiter!Times |-> 0] /\ crowdedOut = FALSE
  BY DEF Limiter!Init
<1>2. now \in Limiter!Times /\ granted \in Grants /\ DOMAIN hits = {}
  BY <1>1, LimiterBounds DEF Grants
<1>3. hits \in [DOMAIN hits -> Windows]
  <2>1. hits = [k \in {} |-> 0]
    BY <1>1
  <2> QED BY <1>2, <2>1
<1>4. \A k \in Keys, s \in Limiter!Times : granted[<<k, s>>] = 0
  BY <1>1
<1>5. \A K \in SUBSET Keys : \A a, b : Got(granted, K, a, b) = 0
  <2>1. \A K \in SUBSET Keys : \A a, b : Quiet(granted, K, a, b)
    BY <1>4 DEF Quiet, Span
  <2> QED BY <1>2, <2>1, GotNone
<1>6. \A k \in Keys : RestHolds(granted, now, {k}, Limit, Limit - 1)
  <2>1. 0 <= Limit - 1 /\ 0 <= Limit + (Limit - 1)
    BY LimiterBounds
  <2> QED BY <1>4, <1>5, <2>1 DEF RestHolds
<1>7. InstanceHolds(granted, now, global)
  <2>1. global.start = -Window /\ global.count = 0 /\ DOMAIN global = {"start", "count"}
    BY <1>1
  <2>2. -Window <= 0 /\ 0 <= GlobalLimit + GlobalLimit /\ 0 \in 0 .. GlobalLimit /\ GlobalLimit <= GlobalLimit
    BY LimiterBounds
  <2>3. WindowHolds(granted, now, Keys, -Window, 0, GlobalLimit, GlobalLimit)
    BY <1>1, <1>4, <1>5, <2>2 DEF WindowHolds
  <2> QED BY <2>1, <2>2, <2>3 DEF InstanceHolds
<1>8. Cardinality(DOMAIN hits) <= MaxKeys
  BY <1>2, FS_EmptySet, LimiterBounds
<1>9. SweepHolds /\ lastSweep <= now
  <2>1. -Window <= 0
    BY LimiterBounds
  <2>2. lastSweep \in Limiter!Times \cup {-Window} /\ lastSweep <= now
    BY <1>1, <2>1
  <2>3. \A k \in DOMAIN hits : lastSweep - hits[k].start < Window
    BY <1>2
  <2> QED BY <1>1, <2>2, <2>3 DEF SweepHolds
<1> QED BY <1>2, <1>3, <1>6, <1>7, <1>8, <1>9 DEF LimiterInv, MapHolds

\* A key without a live window.
LEMMA KeyRests ==
  ASSUME LimiterInv, NEW k \in Keys, ~Limiter!Live(k)
  PROVE  RestHolds(granted, now, {k}, Limit, Limit - 1)
<1>1. CASE k \in DOMAIN hits
  <2>1. PICK st, ct : st = hits[k].start /\ ct = hits[k].count
    OBVIOUS
  <2>2. /\ st \in Limiter!Times /\ ct \in 1 .. Limit
        /\ WindowHolds(granted, now, {k}, st, ct, Limit, Limit - 1)
    BY <1>1, <2>1 DEF LimiterInv, MapHolds, Windows
  <2>3. now - st >= Window
    BY <1>1, <2>1 DEF Limiter!Live, Limiter!Expired
  <2>4. /\ Limit \in Nat /\ Limit - 1 \in Nat /\ Limit <= (Limit - 1) + 1 /\ st \in Int /\ ct \in Nat
        /\ now \in Limiter!Times /\ granted \in Grants /\ {k} \in SUBSET Keys
    BY <2>2, LimiterBounds DEF LimiterInv
  <2> QED BY <2>2, <2>3, <2>4, WindowExpires
<1>2. CASE k \notin DOMAIN hits
  BY <1>2 DEF LimiterInv, MapHolds
<1> QED BY <1>1, <1>2

\* The instance's window for this request.
LEMMA InstanceNow ==
  ASSUME LimiterInv
  PROVE  InstanceHolds(granted, now, Limiter!Global) /\ now - Limiter!Global.start < Window
<1>1. now \in Int /\ Window \in Nat /\ 1 <= Window /\ GlobalLimit \in Nat /\ now \in Limiter!Times /\ granted \in Grants
  BY LimiterNow, LimiterBounds DEF LimiterInv
<1>2. CASE ~Limiter!Expired(global.start)
  <2>1. now - global.start < Window
    <3>1. global.start \in Int
      BY <1>1, LimiterBounds DEF LimiterInv, InstanceHolds
    <3> QED BY <1>1, <1>2, <3>1 DEF Limiter!Expired
  <2> QED BY <1>2, <2>1 DEF Limiter!Global, LimiterInv
<1>3. CASE Limiter!Expired(global.start)
  <2>1. PICK st, ct : st = global.start /\ ct = global.count
    OBVIOUS
  <2>2. /\ st \in Int /\ ct \in Nat /\ WindowHolds(granted, now, Keys, st, ct, GlobalLimit, GlobalLimit)
        /\ now - st >= Window
    BY <1>1, <1>3, <2>1, LimiterBounds DEF LimiterInv, InstanceHolds, Limiter!Expired
  <2>3. Keys \in SUBSET Keys /\ GlobalLimit <= GlobalLimit + 1
    BY <1>1
  <2>4. RestHolds(granted, now, Keys, GlobalLimit, GlobalLimit)
    BY <1>1, <2>2, <2>3, WindowExpires
  <2>5. WindowHolds(granted, now, Keys, now, 0, GlobalLimit, GlobalLimit)
    BY <1>1, <2>3, <2>4, WindowOpens
  <2>6. Limiter!Global.start = now /\ Limiter!Global.count = 0 /\ DOMAIN Limiter!Global = {"start", "count"}
    BY <1>3 DEF Limiter!Global, Limiter!NewWindow
  <2>7. now - now < Window /\ 0 \in 0 .. GlobalLimit
    BY <1>1
  <2> QED BY <1>1, <2>5, <2>6, <2>7 DEF InstanceHolds
<1> QED BY <1>2, <1>3

\* A request that is granted, of a key with the window entry, which may be new.
LEMMA LimiterCounts ==
  ASSUME LimiterInv, NEW key \in Keys, NEW map, MapHolds(granted, now, map),
         NEW entry \in [start : Limiter!Times, count : Nat], entry.count < Limit,
         WindowHolds(granted, now, {key}, entry.start, entry.count, Limit, Limit - 1), now - entry.start < Window,
         Limiter!Global.count < GlobalLimit, Limiter!Count(key, map, entry)
  PROVE  /\ granted' \in Grants /\ MapHolds(granted', now, hits') /\ InstanceHolds(granted', now, global')
         /\ DOMAIN hits' = DOMAIN map \cup {key} /\ hits'[key].start = entry.start
         /\ \A k \in DOMAIN map : k # key => hits'[k] = map[k]
<1>1. /\ now \in Limiter!Times /\ granted \in Grants /\ now \in Int /\ Limit \in Nat /\ Limit - 1 \in Nat
      /\ GlobalLimit \in Nat /\ {key} \in SUBSET Keys /\ Keys \in SUBSET Keys /\ key \in {key}
      /\ entry.start \in Int /\ entry.start \in Limiter!Times /\ entry.count \in Nat
  BY LimiterNow, LimiterBounds DEF LimiterInv
<1>2. granted' = Granted(granted, key, now)
  BY DEF Limiter!Count, Granted
<1>3. granted' \in Grants
  BY <1>1, <1>2, GrantedTyped
<1> DEFINE next == [entry EXCEPT !.count = @ + 1]
<1>4. /\ next \in Windows /\ next.start = entry.start /\ next.count = entry.count + 1
  BY <1>1 DEF Windows
<1>5. hits' = [k \in DOMAIN map \cup {key} |-> IF k = key THEN next ELSE map[k]]
  BY DEF Limiter!Count
<1> HIDE DEF next
<1>6. /\ DOMAIN hits' = DOMAIN map \cup {key} /\ hits'[key] = next
      /\ \A k \in DOMAIN map : k # key => hits'[k] = map[k]
      /\ hits' \in [DOMAIN hits' -> Windows] /\ DOMAIN hits' \subseteq Keys
  BY <1>4, <1>5 DEF MapHolds
<1>7. WindowHolds(granted', now, {key}, entry.start, entry.count + 1, Limit, Limit - 1)
  BY <1>1, <1>2, WindowCounts
<1>8. \A k \in Keys : k # key =>
         /\ RestHolds(granted, now, {k}, Limit, Limit - 1) => RestHolds(granted', now, {k}, Limit, Limit - 1)
         /\ \A st, ct : WindowHolds(granted, now, {k}, st, ct, Limit, Limit - 1)
                          => WindowHolds(granted', now, {k}, st, ct, Limit, Limit - 1)
  <2> TAKE k \in Keys
  <2> HAVE k # key
  <2>1. {k} \in SUBSET Keys /\ key \notin {k}
    OBVIOUS
  <2> QED BY <1>1, <1>2, <2>1, OtherGranted
<1>9. MapHolds(granted', now, hits')
  <2>1. \A k \in DOMAIN hits' : WindowHolds(granted', now, {k}, hits'[k].start, hits'[k].count, Limit, Limit - 1)
    <3> TAKE k \in DOMAIN hits'
    <3>1. CASE k = key
      BY <1>4, <1>6, <1>7, <3>1
    <3>2. CASE k # key
      <4>1. k \in DOMAIN map /\ k \in Keys /\ hits'[k] = map[k]
        BY <1>6, <3>2
      <4>2. WindowHolds(granted, now, {k}, map[k].start, map[k].count, Limit, Limit - 1)
        BY <4>1 DEF MapHolds
      <4> QED BY <1>8, <3>2, <4>1, <4>2
    <3> QED BY <3>1, <3>2
  <2>2. \A k \in Keys \ DOMAIN hits' : RestHolds(granted', now, {k}, Limit, Limit - 1)
    <3> TAKE k \in Keys \ DOMAIN hits'
    <3>1. k # key /\ k \in Keys \ DOMAIN map
      BY <1>6
    <3>2. RestHolds(granted, now, {k}, Limit, Limit - 1)
      BY <3>1 DEF MapHolds
    <3> QED BY <1>8, <3>1, <3>2
  <2> QED BY <1>6, <2>1, <2>2 DEF MapHolds
<1>10. InstanceHolds(granted', now, global')
  <2>1. PICK st, ct : st = Limiter!Global.start /\ ct = Limiter!Global.count
    OBVIOUS
  <2>2. /\ st \in Limiter!Times \cup {-Window} /\ ct \in 0 .. GlobalLimit /\ st \in Int /\ ct \in Nat
        /\ WindowHolds(granted, now, Keys, st, ct, GlobalLimit, GlobalLimit) /\ now - st < Window /\ ct < GlobalLimit
    BY <2>1, InstanceNow, LimiterBounds DEF InstanceHolds
  <2>3. WindowHolds(granted', now, Keys, st, ct + 1, GlobalLimit, GlobalLimit)
    BY <1>1, <1>2, <2>2, WindowCounts
  <2>4. global'.start = st /\ global'.count = ct + 1 /\ DOMAIN global' = {"start", "count"}
    <3>1. global' = [Limiter!Global EXCEPT !.count = @ + 1]
      BY DEF Limiter!Count
    <3>2. DOMAIN Limiter!Global = {"start", "count"}
      BY InstanceNow DEF InstanceHolds
    <3>3. DOMAIN global' = {"start", "count"}
      BY <3>1, <3>2
    <3> QED BY <2>1, <3>1, <3>2, <3>3
  <2>5. ct + 1 \in 0 .. GlobalLimit
    BY <1>1, <2>2
  <2> QED BY <2>2, <2>3, <2>4, <2>5 DEF InstanceHolds
<1> QED BY <1>3, <1>4, <1>6, <1>9, <1>10

LEMMA LimiterCardinality == ASSUME NEW S PROVE Limiter!Cardinality(S) = Cardinality(S)
BY DEF Limiter!Cardinality, Cardinality

\* The windows of the keys in the map.
LEMMA LimiterWindows ==
  ASSUME LimiterInv, NEW k \in DOMAIN hits
  PROVE  /\ k \in Keys /\ hits[k] \in Windows /\ hits[k].start \in Limiter!Times /\ hits[k].start \in Int
         /\ hits[k].count \in 1 .. Limit /\ hits[k].start <= now
         /\ WindowHolds(granted, now, {k}, hits[k].start, hits[k].count, Limit, Limit - 1)
<1>1. k \in Keys /\ hits[k] \in Windows
  BY DEF LimiterInv, MapHolds
<1>2. hits[k].start \in Limiter!Times /\ hits[k].count \in 1 .. Limit
  BY <1>1 DEF Windows
<1>3. WindowHolds(granted, now, {k}, hits[k].start, hits[k].count, Limit, Limit - 1)
  BY DEF LimiterInv, MapHolds
<1>4. hits[k].start <= now
  BY <1>3 DEF WindowHolds
<1>5. hits[k].start \in Int
  BY <1>2, LimiterBounds
<1> QED BY <1>1, <1>2, <1>3, <1>4, <1>5

\* Of the map after the sweep that a full one may bring.
LEMMA LimiterSwept ==
  ASSUME LimiterInv
  PROVE  /\ MapHolds(granted, now, Limiter!Swept) /\ DOMAIN Limiter!Swept \subseteq DOMAIN hits
         /\ \A k \in DOMAIN Limiter!Swept : Limiter!Swept[k] = hits[k]
         /\ Limiter!Expired(lastSweep) => \A k \in DOMAIN Limiter!Swept : now - hits[k].start < Window
         /\ IsFiniteSet(DOMAIN hits) /\ Cardinality(DOMAIN Limiter!Swept) <= Cardinality(DOMAIN hits)
<1>1. PICK map : map = Limiter!Swept
  OBVIOUS
<1>2. /\ DOMAIN map \subseteq DOMAIN hits /\ \A k \in DOMAIN map : map[k] = hits[k]
      /\ map = [k \in DOMAIN map |-> hits[k]]
      /\ \A k \in DOMAIN hits \ DOMAIN map : Limiter!Expired(hits[k].start)
      /\ Limiter!Expired(lastSweep) => \A k \in DOMAIN map : ~Limiter!Expired(hits[k].start)
  <2>1. hits = [k \in DOMAIN hits |-> hits[k]]
    BY DEF LimiterInv, MapHolds
  <2>2. CASE Limiter!Expired(lastSweep)
    <3>1. map = [k \in {k \in DOMAIN hits : ~Limiter!Expired(hits[k].start)} |-> hits[k]]
      BY <1>1, <2>2 DEF Limiter!Swept, Limiter!Restrict
    <3> QED BY <3>1
  <2>3. CASE ~Limiter!Expired(lastSweep)
    BY <1>1, <2>1, <2>3 DEF Limiter!Swept
  <2> QED BY <2>2, <2>3
<1>3. MapHolds(granted, now, map)
  <2>1. DOMAIN map \subseteq Keys /\ map \in [DOMAIN map -> Windows]
    BY <1>2 DEF LimiterInv, MapHolds
  <2>2. \A k \in DOMAIN map : WindowHolds(granted, now, {k}, map[k].start, map[k].count, Limit, Limit - 1)
    BY <1>2 DEF LimiterInv, MapHolds
  <2>3. \A k \in Keys \ DOMAIN map : ~Limiter!Live(k)
    BY <1>2 DEF Limiter!Live
  <2>4. \A k \in Keys \ DOMAIN map : RestHolds(granted, now, {k}, Limit, Limit - 1)
    BY <2>3, KeyRests
  <2> QED BY <2>1, <2>2, <2>4 DEF MapHolds
<1>4. Limiter!Expired(lastSweep) => \A k \in DOMAIN map : now - hits[k].start < Window
  <2>1. \A k \in DOMAIN hits : hits[k].start \in Int
    BY LimiterWindows
  <2>2. \A k \in DOMAIN hits : ~Limiter!Expired(hits[k].start) => now - hits[k].start < Window
    BY <2>1, LimiterNow DEF Limiter!Expired
  <2> QED BY <1>2, <2>2
<1>5. IsFiniteSet(DOMAIN hits)
  BY LimiterBounds, FS_Subset DEF LimiterInv, MapHolds
<1>6. Cardinality(DOMAIN map) <= Cardinality(DOMAIN hits)
  BY <1>2, <1>5, FS_Subset
<1> QED BY <1>1, <1>2, <1>3, <1>4, <1>5, <1>6

\* One key more in a map with room, or a key that is there.
LEMMA LimiterRoom ==
  ASSUME NEW S, IsFiniteSet(S), NEW key, (key \in S /\ Cardinality(S) <= MaxKeys) \/ ~(Cardinality(S) >= MaxKeys)
  PROVE  Cardinality(S \cup {key}) <= MaxKeys
<1>1. Cardinality(S) \in Nat /\ MaxKeys \in Nat
  BY FS_CardinalityType, LimiterBounds
<1>2. CASE key \in S
  <2>1. S \cup {key} = S
    BY <1>2
  <2> QED BY <1>1, <2>1
<1>3. CASE key \notin S
  <2>1. Cardinality(S \cup {key}) = Cardinality(S) + 1
    BY <1>3, FS_AddElement
  <2> QED BY <1>1, <1>3, <2>1
<1> QED BY <1>2, <1>3

LEMMA LimiterBusy == LimiterInv /\ Limiter!InstanceBusy => LimiterInv'
<1> SUFFICES ASSUME LimiterInv, Limiter!InstanceBusy PROVE LimiterInv'
  OBVIOUS
<1>1. /\ global' = Limiter!Global /\ crowdedOut' = FALSE /\ UNCHANGED <<now, hits, lastSweep, granted>>
  BY DEF Limiter!InstanceBusy
<1>2. InstanceHolds(granted, now, Limiter!Global)
  BY InstanceNow
<1>3. InstanceHolds(granted', now', global')
  BY <1>1, <1>2
<1> QED BY <1>1, <1>3 DEF LimiterInv, SweepHolds

\* A new window, of a key without a live one.
LEMMA KeyOpens ==
  ASSUME LimiterInv, NEW key \in Keys, ~Limiter!Live(key)
  PROVE  /\ Limiter!NewWindow \in [start : Limiter!Times, count : Nat]
         /\ Limiter!NewWindow.start = now /\ Limiter!NewWindow.count < Limit
         /\ WindowHolds(granted, now, {key}, Limiter!NewWindow.start, Limiter!NewWindow.count, Limit, Limit - 1)
         /\ now - Limiter!NewWindow.start < Window
<1>1. /\ now \in Limiter!Times /\ granted \in Grants /\ now \in Int /\ Limit \in Nat /\ Limit - 1 \in Nat
      /\ {key} \in SUBSET Keys /\ 1 <= Limit /\ 1 <= Window /\ Window \in Nat
  BY LimiterNow, LimiterBounds DEF LimiterInv
<1>2. WindowHolds(granted, now, {key}, now, 0, Limit, Limit - 1)
  BY <1>1, KeyRests, WindowOpens
<1>3. Limiter!NewWindow.start = now /\ Limiter!NewWindow.count = 0
  BY DEF Limiter!NewWindow
<1>4. Limiter!NewWindow \in [start : Limiter!Times, count : Nat]
  BY <1>1 DEF Limiter!NewWindow
<1> QED BY <1>1, <1>2, <1>3, <1>4

LEMMA LimiterTakesLive ==
  ASSUME LimiterInv, NEW key \in Keys, Limiter!TakeLive(key)
  PROVE  LimiterInv'
<1>1. /\ Limiter!Global.count < GlobalLimit /\ Limiter!Live(key) /\ crowdedOut' = FALSE /\ UNCHANGED <<now, lastSweep>>
  BY DEF Limiter!TakeLive
<1>2. CASE Limiter!LimitReached(key)
  <2>1. global' = Limiter!Global /\ UNCHANGED <<hits, granted>>
    BY <1>2 DEF Limiter!TakeLive
  <2>2. InstanceHolds(granted', now', global')
    BY <1>1, <2>1, InstanceNow
  <2> QED BY <1>1, <2>1, <2>2 DEF LimiterInv, SweepHolds
<1>3. CASE ~Limiter!LimitReached(key)
  <2>1. Limiter!Count(key, hits, hits[key])
    BY <1>3 DEF Limiter!TakeLive
  <2>2. key \in DOMAIN hits /\ ~Limiter!Expired(hits[key].start)
    BY <1>1 DEF Limiter!Live
  <2>3. /\ hits[key] \in Windows /\ hits[key].start \in Int /\ hits[key].count \in 1 .. Limit
        /\ WindowHolds(granted, now, {key}, hits[key].start, hits[key].count, Limit, Limit - 1)
    BY <2>2, LimiterWindows
  <2>4. hits[key] \in [start : Limiter!Times, count : Nat] /\ hits[key].count < Limit /\ now - hits[key].start < Window
    BY <1>3, <2>2, <2>3, LimiterNow, LimiterBounds DEF Limiter!LimitReached, Limiter!Expired, Windows
  <2>5. MapHolds(granted, now, hits)
    BY DEF LimiterInv
  <2>6. /\ granted' \in Grants /\ MapHolds(granted', now, hits') /\ InstanceHolds(granted', now, global')
        /\ DOMAIN hits' = DOMAIN hits \cup {key} /\ hits'[key].start = hits[key].start
        /\ \A k \in DOMAIN hits : k # key => hits'[k] = hits[k]
    BY <1>1, <2>1, <2>3, <2>4, <2>5, LimiterCounts
  <2>7. DOMAIN hits' = DOMAIN hits /\ \A k \in DOMAIN hits : hits'[k].start = hits[k].start
    BY <2>2, <2>6
  <2>8. SweepHolds'
    BY <1>1, <2>7 DEF LimiterInv, SweepHolds
  <2> QED BY <1>1, <2>6, <2>7, <2>8 DEF LimiterInv
<1> QED BY <1>2, <1>3

LEMMA LimiterTakesNew ==
  ASSUME LimiterInv, NEW key \in Keys, Limiter!TakeNew(key)
  PROVE  LimiterInv'
<1>1. /\ Limiter!Global.count < GlobalLimit /\ ~Limiter!Live(key) /\ ~Limiter!Crowded(key)
      /\ Limiter!Count(key, hits, Limiter!NewWindow) /\ crowdedOut' = FALSE /\ UNCHANGED <<now, lastSweep>>
  BY DEF Limiter!TakeNew
<1>2. PICK entry : entry = Limiter!NewWindow
  OBVIOUS
<1>3. /\ entry \in [start : Limiter!Times, count : Nat] /\ entry.start = now /\ entry.count < Limit
      /\ WindowHolds(granted, now, {key}, entry.start, entry.count, Limit, Limit - 1)
      /\ now - entry.start < Window /\ Limiter!Count(key, hits, entry) /\ MapHolds(granted, now, hits)
  BY <1>1, <1>2, KeyOpens DEF LimiterInv
<1>4. /\ granted' \in Grants /\ MapHolds(granted', now, hits') /\ InstanceHolds(granted', now, global')
      /\ DOMAIN hits' = DOMAIN hits \cup {key} /\ hits'[key].start = entry.start
      /\ \A k \in DOMAIN hits : k # key => hits'[k] = hits[k]
  BY <1>1, <1>3, LimiterCounts
<1>5. Cardinality(DOMAIN hits') <= MaxKeys
  <2>1. (key \in DOMAIN hits /\ Cardinality(DOMAIN hits) <= MaxKeys) \/ ~(Cardinality(DOMAIN hits) >= MaxKeys)
    BY <1>1, LimiterCardinality DEF Limiter!Crowded, Limiter!Full, LimiterInv
  <2>2. IsFiniteSet(DOMAIN hits)
    BY LimiterSwept
  <2> QED BY <1>4, <2>1, <2>2, LimiterRoom
<1>6. SweepHolds'
  <2>1. lastSweep - now < Window
    BY LimiterNow, LimiterBounds DEF LimiterInv, SweepHolds
  <2>2. \A k \in DOMAIN hits' : lastSweep - hits'[k].start < Window
    BY <1>3, <1>4, <2>1 DEF LimiterInv, SweepHolds
  <2> QED BY <1>1, <2>2 DEF LimiterInv, SweepHolds
<1> QED BY <1>1, <1>4, <1>5, <1>6 DEF LimiterInv

LEMMA LimiterTakesCrowded ==
  ASSUME LimiterInv, NEW key \in Keys, Limiter!TakeCrowded(key)
  PROVE  LimiterInv'
<1>1. /\ Limiter!Global.count < GlobalLimit /\ UNCHANGED now
      /\ lastSweep' = IF Limiter!Expired(lastSweep) THEN now ELSE lastSweep
      /\ key \notin DOMAIN hits
  BY DEF Limiter!TakeCrowded, Limiter!Crowded
<1>2. PICK map : map = Limiter!Swept
  OBVIOUS
<1>3. /\ MapHolds(granted, now, map) /\ DOMAIN map \subseteq DOMAIN hits
      /\ \A k \in DOMAIN map : map[k] = hits[k]
      /\ Limiter!Expired(lastSweep) => \A k \in DOMAIN map : now - hits[k].start < Window
      /\ IsFiniteSet(DOMAIN hits) /\ Cardinality(DOMAIN map) <= Cardinality(DOMAIN hits)
  BY <1>2, LimiterSwept
<1>4. /\ now \in Limiter!Times /\ now \in Int /\ Window \in Nat /\ 1 <= Window /\ MaxKeys \in Nat
      /\ lastSweep \in Int /\ lastSweep \in Limiter!Times \cup {-Window}
  BY LimiterNow, LimiterBounds DEF LimiterInv, SweepHolds
<1>5. lastSweep' \in Limiter!Times \cup {-Window} /\ lastSweep' <= now'
  BY <1>1, <1>4 DEF LimiterInv
<1>6. \A k \in DOMAIN map : lastSweep' - map[k].start < Window /\ now - map[k].start < 2 * Window
  <2> TAKE k \in DOMAIN map
  <2>1. PICK st \in Int : st = hits[k].start /\ st = map[k].start /\ lastSweep - st < Window
    BY <1>3, LimiterWindows DEF LimiterInv, SweepHolds
  <2>2. CASE Limiter!Expired(lastSweep)
    BY <1>1, <1>3, <1>4, <2>1, <2>2
  <2>3. CASE ~Limiter!Expired(lastSweep)
    <3>1. now - lastSweep < Window /\ lastSweep' = lastSweep
      BY <1>1, <1>4, <2>3 DEF Limiter!Expired
    <3> QED BY <1>4, <2>1, <3>1
  <2> QED BY <2>2, <2>3
<1>7. CASE Limiter!Full(map)
  <2>1. hits' = map /\ global' = Limiter!Global /\ crowdedOut' = TRUE /\ UNCHANGED granted
    BY <1>2, <1>7 DEF Limiter!TakeCrowded
  <2>2. InstanceHolds(granted', now', global')
    BY <1>1, <2>1, InstanceNow
  <2>3. Cardinality(DOMAIN hits') <= MaxKeys
    <3>1. /\ Cardinality(DOMAIN hits) \in Nat /\ Cardinality(DOMAIN map) \in Nat
      BY <1>3, FS_CardinalityType, FS_Subset
    <3> QED BY <1>3, <1>4, <2>1, <3>1 DEF LimiterInv
  <2>4. SweepHolds'
    BY <1>1, <1>5, <1>6, <2>1 DEF SweepHolds
  <2>5. MapHolds(granted', now', hits') /\ granted' \in Grants
    BY <1>1, <1>3, <2>1 DEF LimiterInv
  <2> QED BY <1>1, <1>4, <1>5, <2>2, <2>3, <2>4, <2>5 DEF LimiterInv
<1>8. CASE ~Limiter!Full(map)
  <2>1. Limiter!Count(key, map, Limiter!NewWindow) /\ crowdedOut' = FALSE
    BY <1>2, <1>8 DEF Limiter!TakeCrowded
  <2>2. PICK entry : entry = Limiter!NewWindow
    OBVIOUS
  <2>3. /\ entry \in [start : Limiter!Times, count : Nat] /\ entry.start = now /\ entry.count < Limit
        /\ WindowHolds(granted, now, {key}, entry.start, entry.count, Limit, Limit - 1)
        /\ now - entry.start < Window /\ Limiter!Count(key, map, entry)
    <3>1. ~Limiter!Live(key)
      BY <1>1 DEF Limiter!Live
    <3> QED BY <2>1, <2>2, <3>1, KeyOpens
  <2>4. /\ granted' \in Grants /\ MapHolds(granted', now, hits') /\ InstanceHolds(granted', now, global')
        /\ DOMAIN hits' = DOMAIN map \cup {key} /\ hits'[key].start = entry.start
        /\ \A k \in DOMAIN map : k # key => hits'[k] = map[k]
    BY <1>1, <1>3, <2>3, LimiterCounts
  <2>5. Cardinality(DOMAIN hits') <= MaxKeys
    <3>1. ~(Cardinality(DOMAIN map) >= MaxKeys) /\ IsFiniteSet(DOMAIN map)
      BY <1>3, <1>8, LimiterCardinality, FS_Subset DEF Limiter!Full
    <3> QED BY <2>4, <3>1, LimiterRoom
  <2>6. \A k \in DOMAIN hits' : lastSweep' - hits'[k].start < Window
    <3>1. lastSweep' - now < Window
      BY <1>1, <1>4 DEF LimiterInv
    <3> QED BY <1>6, <2>3, <2>4, <3>1
  <2>7. SweepHolds'
    BY <1>5, <2>1, <2>6 DEF SweepHolds
  <2> QED BY <1>1, <1>4, <1>5, <2>4, <2>5, <2>7 DEF LimiterInv
<1> QED BY <1>7, <1>8

\* Time passes, in this part or in another.
LEMMA LimiterTicks ==
  ASSUME LimiterInv, now < MaxTime, now' = now + 1, UNCHANGED <<hits, global, lastSweep, granted>>, crowdedOut' = FALSE
  PROVE  LimiterInv'
<1>1. /\ now \in Limiter!Times /\ now \in Int /\ Window \in Nat /\ MaxTime \in Nat /\ granted \in Grants
      /\ Limit \in Nat /\ Limit - 1 \in Nat /\ GlobalLimit \in Nat /\ now' \in Limiter!Times
  BY LimiterNow, LimiterBounds DEF LimiterInv
<1>2. \A k \in DOMAIN hits : WindowHolds(granted, now', {k}, hits[k].start, hits[k].count, Limit, Limit - 1)
  <2> TAKE k \in DOMAIN hits
  <2>1. PICK st \in Int, ct \in Nat : st = hits[k].start /\ ct = hits[k].count /\ ct >= 1
    <3>1. hits[k].start \in Int /\ hits[k].count \in 1 .. Limit
      BY LimiterWindows
    <3>2. hits[k].count \in Nat /\ hits[k].count >= 1
      BY <3>1, LimiterBounds
    <3> QED BY <3>1, <3>2
  <2>2. {k} \in SUBSET Keys /\ WindowHolds(granted, now, {k}, st, ct, Limit, Limit - 1)
    BY <2>1, LimiterWindows
  <2> QED BY <1>1, <2>1, <2>2, WindowTicks
<1>3. \A k \in Keys \ DOMAIN hits : RestHolds(granted, now', {k}, Limit, Limit - 1)
  <2> TAKE k \in Keys \ DOMAIN hits
  <2>1. RestHolds(granted, now, {k}, Limit, Limit - 1) /\ {k} \in SUBSET Keys
    BY DEF LimiterInv, MapHolds
  <2> QED BY <1>1, <2>1, RestTicks
<1>4. InstanceHolds(granted, now', global)
  <2>1. PICK st \in Int, ct \in Nat : st = global.start /\ ct = global.count
    BY LimiterBounds DEF LimiterInv, InstanceHolds
  <2>2. Keys \in SUBSET Keys /\ WindowHolds(granted, now, Keys, st, ct, GlobalLimit, GlobalLimit)
    BY <2>1 DEF LimiterInv, InstanceHolds
  <2>3. WindowHolds(granted, now', Keys, st, ct, GlobalLimit, GlobalLimit)
    BY <1>1, <2>2, WindowTicks
  <2> QED BY <2>1, <2>3 DEF LimiterInv, InstanceHolds
<1>5. lastSweep' <= now'
  <2>1. lastSweep \in Int
    BY LimiterBounds DEF LimiterInv, SweepHolds
  <2> QED BY <1>1, <2>1 DEF LimiterInv
<1>6. MapHolds(granted', now', hits')
  BY <1>2, <1>3 DEF LimiterInv, MapHolds
<1>7. SweepHolds'
  BY DEF LimiterInv, SweepHolds
<1> QED BY <1>1, <1>4, <1>5, <1>6, <1>7 DEF LimiterInv

LEMMA LimiterSteps == LimiterInv /\ Limiter!Next => LimiterInv'
<1> SUFFICES ASSUME LimiterInv, Limiter!Next PROVE LimiterInv'
  OBVIOUS
<1>1. CASE Limiter!Tick
  BY <1>1, LimiterTicks DEF Limiter!Tick
<1> QED BY <1>1, LimiterBusy, LimiterTakesLive, LimiterTakesNew, LimiterTakesCrowded DEF Limiter!Next

LEMMA LimiterRests == LimiterInv /\ UNCHANGED <<now, limiterVars>> => LimiterInv'
BY DEF limiterVars, LimiterInv, SweepHolds

\* What the properties ask.
LEMMA LimiterSliding ==
  ASSUME LimiterInv, NEW K \in SUBSET Keys, NEW t \in Limiter!Times
  PROVE  Limiter!Sliding(K, t) = Got(granted, K, t, t + Window - 1)
<1>1. {s \in Limiter!Times : s \in t .. t + Window - 1} = Span(t, t + Window - 1)
  BY LimiterBounds DEF Span
<1>2. Limiter!Sliding(K, t) = Sum(granted, K \X {s \in Limiter!Times : s \in t .. t + Window - 1})
  BY DEF Limiter!Sliding, Limiter!FoldFunctionOnSet, Limiter!MapThenFoldSet, Sum, FoldFunctionOnSet, MapThenFoldSet
<1> QED BY <1>1, <1>2 DEF Got

LEMMA LimiterHolds ==
  LimiterInv => Limiter!TypeOK /\ Limiter!BurstsBounded /\ Limiter!RefusedOnlyWhileRecent
<1> SUFFICES ASSUME LimiterInv PROVE Limiter!TypeOK /\ Limiter!BurstsBounded /\ Limiter!RefusedOnlyWhileRecent
  OBVIOUS
<1>1. Limiter!TypeOK
  <2>1. \A key \in DOMAIN hits : hits[key] \in [start : Limiter!Times, count : 1 .. Limit]
    BY LimiterWindows DEF Windows
  <2> QED BY <2>1, LimiterCardinality DEF Limiter!TypeOK, LimiterInv, MapHolds, InstanceHolds, SweepHolds
<1>2. ASSUME NEW t \in Limiter!Times, NEW key \in Keys PROVE Limiter!Sliding({key}, t) < 2 * Limit
  <2>1. PICK n \in Nat : n = Limiter!Sliding({key}, t) /\ n = Got(granted, {key}, t, t + Window - 1)
    <3>1. {key} \in SUBSET Keys /\ granted \in Grants
      BY DEF LimiterInv
    <3> QED BY <3>1, LimiterSliding, GotNat
  <2>2. n <= Limit + (Limit - 1)
    BY <2>1 DEF LimiterInv, MapHolds, WindowHolds, RestHolds
  <2> QED BY <2>1, <2>2, LimiterBounds
<1>3. ASSUME NEW t \in Limiter!Times PROVE Limiter!Sliding(Keys, t) <= 2 * GlobalLimit
  <2>1. PICK n \in Nat : n = Limiter!Sliding(Keys, t) /\ n = Got(granted, Keys, t, t + Window - 1)
    <3>1. Keys \in SUBSET Keys /\ granted \in Grants
      BY DEF LimiterInv
    <3> QED BY <3>1, LimiterSliding, GotNat
  <2>2. n <= GlobalLimit + GlobalLimit
    BY <2>1 DEF LimiterInv, InstanceHolds, WindowHolds
  <2> QED BY <2>1, <2>2, LimiterBounds
<1>4. Limiter!RefusedOnlyWhileRecent
  BY DEF Limiter!RefusedOnlyWhileRecent, LimiterInv, SweepHolds
<1> QED BY <1>1, <1>2, <1>3, <1>4 DEF Limiter!BurstsBounded

-----------------------------------------------------------------------------
(***************************************************************************)
(* PriceCache: the refresh in flight began after the read that is cached,  *)
(* and what was served is not newer than that read.                        *)
(***************************************************************************)

PriceInv ==
    /\ Prices!TypeOK
    /\ cached.at <= now /\ \A t \in begun : cached.at <= t /\ t <= now
    /\ served.at <= cached.at
    /\ Prices!UnlabelledIsRecent

PriceReads == [at : 0 .. MaxTime, priced : BOOLEAN] \cup {Prices!None}

LEMMA PriceBounds == MaxTime \in Nat /\ StaleAfter \in Nat /\ Ttl \in Nat /\ Ttl <= StaleAfter
BY AppAssumption DEF AppAssumption

\* The fields of a read.
LEMMA ReadFields ==
  ASSUME NEW read \in PriceReads
  PROVE  read.at \in -1 .. MaxTime /\ read.priced \in BOOLEAN
<1>1. CASE read = Prices!None
  <2>1. read.at = -1 /\ -1 \in -1 .. MaxTime
    BY <1>1, PriceBounds DEF Prices!None
  <2>2. read.priced \in BOOLEAN
    BY <1>1 DEF Prices!None
  <2> QED BY <2>1, <2>2
<1>2. CASE read \in [at : 0 .. MaxTime, priced : BOOLEAN]
  <2>1. read.at \in 0 .. MaxTime /\ read.priced \in BOOLEAN
    BY <1>2
  <2> QED BY <2>1, PriceBounds
<1> QED BY <1>1, <1>2 DEF PriceReads

LEMMA PriceFacts ==
  ASSUME PriceInv
  PROVE  /\ now \in 0 .. MaxTime /\ cached \in PriceReads /\ cached.at \in -1 .. MaxTime /\ cached.priced \in BOOLEAN
         /\ \A t \in begun : begun = {t} /\ t \in 0 .. MaxTime /\ cached.at <= t /\ t <= now
         /\ served.at \in -1 .. MaxTime /\ served.began \in -1 .. MaxTime
<1>1. cached \in PriceReads /\ now \in 0 .. MaxTime
  BY DEF PriceInv, Prices!TypeOK, PriceReads
<1>2. cached.at \in -1 .. MaxTime /\ cached.priced \in BOOLEAN
  BY <1>1, ReadFields
<1>3. served.at \in -1 .. MaxTime /\ served.began \in -1 .. MaxTime
  BY PriceBounds DEF PriceInv, Prices!TypeOK, Prices!Unserved
<1>4. \A t \in begun : begun = {t} /\ t \in 0 .. MaxTime
  BY DEF PriceInv, Prices!TypeOK
<1> QED BY <1>1, <1>2, <1>3, <1>4 DEF PriceInv

LEMMA PriceStarts == Prices!Init => PriceInv
<1> SUFFICES ASSUME Prices!Init PROVE PriceInv
  OBVIOUS
<1> USE DEF Prices!Init
<1>1. Prices!TypeOK
  BY PriceBounds DEF Prices!TypeOK
<1>2. Prices!UnlabelledIsRecent
  BY DEF Prices!UnlabelledIsRecent, Prices!Unserved
<1> QED BY <1>1, <1>2 DEF PriceInv, Prices!None, Prices!Unserved

\* What Serve makes of a read.
LEMMA ServedAs ==
  ASSUME NEW read \in PriceReads, NEW label \in {"jupiter", "stale"}, NEW t \in 0 .. MaxTime,
         Prices!Serve(read, label, t), label = "jupiter" => t - read.at <= StaleAfter
  PROVE  /\ served' \in [source : {"jupiter", "stale", "reference"}, at : -1 .. MaxTime, began : 0 .. MaxTime]
         /\ served'.at = read.at /\ Prices!UnlabelledIsRecent'
         /\ served'.source = "reference" => ~read.priced
<1>1. read.at \in -1 .. MaxTime /\ read.priced \in BOOLEAN
  BY ReadFields
<1>2. Prices!Source(read, label) \in {"jupiter", "stale", "reference"}
  BY DEF Prices!Source
<1>3. served'.source = Prices!Source(read, label) /\ served'.at = read.at /\ served'.began = t
  BY DEF Prices!Serve
<1>4. served' \in [source : {"jupiter", "stale", "reference"}, at : -1 .. MaxTime, began : 0 .. MaxTime]
  BY <1>1, <1>2 DEF Prices!Serve
<1>5. /\ Prices!Source(read, label) = "jupiter" => label = "jupiter"
      /\ Prices!Source(read, label) = "reference" => ~read.priced
  BY DEF Prices!Source
<1>6. Prices!UnlabelledIsRecent'
  BY <1>3, <1>5 DEF Prices!UnlabelledIsRecent
<1> QED BY <1>3, <1>4, <1>5, <1>6

\* No older read is served, and the reference table only for want of a price.
Serves == served'.at >= served.at /\ (served'.source = "reference" => cached' = Prices!None \/ ~cached'.priced)

LEMMA PriceSteps == PriceInv /\ Prices!Next => PriceInv' /\ (Serves \/ UNCHANGED served)
<1> SUFFICES ASSUME PriceInv, Prices!Next PROVE PriceInv' /\ (Serves \/ UNCHANGED served)
  OBVIOUS
<1>1. /\ now \in 0 .. MaxTime /\ cached \in PriceReads /\ cached.at \in -1 .. MaxTime /\ cached.priced \in BOOLEAN
      /\ \A t \in begun : begun = {t} /\ t \in 0 .. MaxTime /\ cached.at <= t /\ t <= now
      /\ served.at \in -1 .. MaxTime /\ served.at <= cached.at /\ cached.at <= now
  BY PriceFacts DEF PriceInv
<1>2. CASE Prices!Open
  BY <1>2 DEF Prices!Open, PriceInv, Prices!TypeOK, Prices!UnlabelledIsRecent
<1>3. CASE Prices!Tick
  <2>1. now' = now + 1 /\ now < MaxTime /\ UNCHANGED <<cached, begun, served, polling>>
    BY <1>3 DEF Prices!Tick
  <2>2. now' \in 0 .. MaxTime /\ now <= now'
    BY <1>1, <2>1, PriceBounds
  <2>3. cached'.at <= now' /\ \A t \in begun' : cached'.at <= t /\ t <= now'
    BY <1>1, <2>1, <2>2
  <2> QED BY <1>1, <2>1, <2>2, <2>3 DEF PriceInv, Prices!TypeOK, Prices!UnlabelledIsRecent
<1>4. CASE Prices!Ask
  <2>1. UNCHANGED <<now, cached, polling>>
    BY <1>4 DEF Prices!Ask
  <2>2. CASE Prices!Fresh
    <3>1. Prices!Serve(cached, "jupiter", now) /\ UNCHANGED begun
      BY <1>4, <2>2 DEF Prices!Ask
    <3>2. now - cached.at <= StaleAfter
      BY <1>1, <2>2, PriceBounds DEF Prices!Fresh
    <3>3. /\ served' \in [source : {"jupiter", "stale", "reference"}, at : -1 .. MaxTime, began : 0 .. MaxTime]
          /\ served'.at = cached.at /\ Prices!UnlabelledIsRecent'
          /\ served'.source = "reference" => ~cached.priced
      BY <1>1, <3>1, <3>2, ServedAs
    <3>4. Prices!TypeOK'
      BY <2>1, <3>1, <3>3 DEF PriceInv, Prices!TypeOK
    <3> QED BY <1>1, <2>1, <3>1, <3>3, <3>4 DEF PriceInv, Serves
  <2>3. CASE ~Prices!Fresh
    <3>1. begun' = Prices!Join /\ UNCHANGED served
      BY <1>4, <2>3 DEF Prices!Ask
    <3>2. \E t \in 0 .. MaxTime : begun' = {t} /\ cached.at <= t /\ t <= now
      BY <1>1, <3>1 DEF Prices!Join
    <3>3. Prices!TypeOK'
      BY <2>1, <3>1, <3>2 DEF PriceInv, Prices!TypeOK
    <3>4. Prices!UnlabelledIsRecent'
      BY <3>1 DEF PriceInv, Prices!UnlabelledIsRecent
    <3> QED BY <1>1, <2>1, <3>1, <3>2, <3>3, <3>4 DEF PriceInv
  <2> QED BY <2>2, <2>3
<1>5. CASE Prices!Answer
  <2>1. PICK at \in begun, priced \in BOOLEAN :
          /\ cached' = [at |-> at, priced |-> priced] /\ Prices!Serve(cached', "jupiter", at)
          /\ begun' = begun \ {at}
    BY <1>5 DEF Prices!Answer
  <2>2. UNCHANGED <<now, polling>> /\ at \in 0 .. MaxTime /\ cached.at <= at /\ at <= now /\ begun' = {}
    BY <1>1, <1>5, <2>1 DEF Prices!Answer
  <2>3. PICK read : read = cached'
    OBVIOUS
  <2>4. read \in PriceReads /\ read.at = at
    BY <2>1, <2>2, <2>3 DEF PriceReads
  <2>5. Prices!Serve(read, "jupiter", at)
    BY <2>1, <2>3 DEF Prices!Serve
  <2>6. at - read.at <= StaleAfter
    BY <2>2, <2>4, PriceBounds
  <2>7. /\ served' \in [source : {"jupiter", "stale", "reference"}, at : -1 .. MaxTime, began : 0 .. MaxTime]
        /\ served'.at = read.at /\ Prices!UnlabelledIsRecent'
        /\ served'.source = "reference" => ~read.priced
    BY <2>2, <2>4, <2>5, <2>6, ServedAs
  <2>8. Prices!TypeOK'
    BY <1>1, <2>2, <2>3, <2>4, <2>7 DEF PriceInv, Prices!TypeOK, PriceReads
  <2> QED BY <1>1, <2>2, <2>3, <2>4, <2>7, <2>8 DEF PriceInv, Serves
<1>6. CASE Prices!Fail
  <2>1. PICK at \in begun : Prices!Fallback(at) /\ begun' = begun \ {at}
    BY <1>6 DEF Prices!Fail
  <2>2. UNCHANGED <<now, cached, polling>> /\ at \in 0 .. MaxTime /\ begun' = {}
    BY <1>1, <1>6, <2>1 DEF Prices!Fail
  <2>3. /\ Prices!Label(at) \in {"jupiter", "stale"}
        /\ Prices!Label(at) = "jupiter" => at - cached.at <= StaleAfter
    BY DEF Prices!Label
  <2>4. Prices!Serve(cached, Prices!Label(at), at)
    BY <2>1 DEF Prices!Fallback
  <2>5. /\ served' \in [source : {"jupiter", "stale", "reference"}, at : -1 .. MaxTime, began : 0 .. MaxTime]
        /\ served'.at = cached.at /\ Prices!UnlabelledIsRecent'
        /\ served'.source = "reference" => ~cached.priced
    BY <1>1, <2>2, <2>3, <2>4, ServedAs
  <2>6. Prices!TypeOK'
    BY <1>1, <2>2, <2>5 DEF PriceInv, Prices!TypeOK
  <2> QED BY <1>1, <2>2, <2>5, <2>6 DEF PriceInv, Serves
<1> QED BY <1>2, <1>3, <1>4, <1>5, <1>6 DEF Prices!Next

\* The clock of the limiter may run on.
LEMMA PriceRests == PriceInv /\ UNCHANGED <<now, priceVars>> => PriceInv'
BY DEF priceVars, PriceInv, Prices!TypeOK, Prices!UnlabelledIsRecent

LEMMA PriceTicks == PriceInv /\ now < MaxTime /\ now' = now + 1 /\ UNCHANGED priceVars => PriceInv'
<1> SUFFICES ASSUME PriceInv, now < MaxTime, now' = now + 1, UNCHANGED <<cached, begun, served, polling>>
             PROVE  PriceInv'
  BY DEF priceVars
<1>1. Prices!Tick
  BY DEF Prices!Tick
<1> QED BY <1>1, PriceSteps DEF Prices!Next

-----------------------------------------------------------------------------
(***************************************************************************)
(* ClusterCache: what the probe has read is true of the node while it is   *)
(* the one the probe began with, and an answer that allows sending without *)
(* both switches is cached, so that no probe begins after it.              *)
(***************************************************************************)

Both == site.flag /\ site.env
IsLocal == node \in {"validator", "surfnet"}

ClusterProbes ==
    [pc : {"off", "genesis", "version", "method", "read"}, genesis : {"none", "other", "mainnet"},
     version : BOOLEAN, method : BOOLEAN]
ClusterInfos ==
    [kind : {"none", "local-validator", "local-fork", "mainnet", "other"}, allowed : BOOLEAN, reached : BOOLEAN]

ClusterInv ==
    /\ site \in [loopback : BOOLEAN, flag : BOOLEAN, env : BOOLEAN] /\ node \in Cluster!Nodes
    /\ probe \in ClusterProbes /\ info \in ClusterInfos /\ shown \in ClusterInfos
    /\ info # Cluster!None => probe.pc = "off"
    /\ steady =>
          /\ probe.genesis = "other" => node = "validator"
          /\ probe.version => node = "surfnet"
    /\ ~Both =>
          /\ info.allowed /\ steady => IsLocal
          /\ shown.allowed => info # Cluster!None /\ (steady => IsLocal)

LEMMA ClusterStarts == Cluster!Init => ClusterInv
BY DEF Cluster!Init, ClusterInv, ClusterProbes, ClusterInfos, Cluster!NoProbe, Cluster!None

LEMMA Classified ==
  ASSUME ClusterInv
  PROVE  /\ Cluster!Classify(probe) \in ClusterInfos
         /\ Cluster!Classify(probe) # Cluster!None
         /\ Cluster!Classify(probe).allowed /\ ~Both => probe.genesis # "none" /\ (steady => IsLocal)
<1>1. Cluster!Kind(probe) \in {"local-validator", "local-fork", "mainnet", "other"}
  BY DEF Cluster!Kind
<1>2. Cluster!SendGuard(probe) \in BOOLEAN
  BY DEF Cluster!SendGuard
<1>3. Cluster!SendGuard(probe) /\ ~Both => probe.genesis # "none" /\ (steady => IsLocal)
  BY DEF Cluster!SendGuard, Both, ClusterInv, IsLocal, ClusterProbes
<1>4. /\ Cluster!Classify(probe).kind = Cluster!Kind(probe)
      /\ Cluster!Classify(probe).allowed = Cluster!SendGuard(probe)
  BY DEF Cluster!Classify
<1>5. Cluster!Classify(probe) \in ClusterInfos
  BY <1>1, <1>2 DEF Cluster!Classify, ClusterInfos
<1>6. Cluster!None.kind = "none"
  BY DEF Cluster!None
<1> QED BY <1>1, <1>3, <1>4, <1>5, <1>6

LEMMA ClusterSteps == ClusterInv /\ Cluster!Next => ClusterInv'
<1> SUFFICES ASSUME ClusterInv, Cluster!Next PROVE ClusterInv'
  OBVIOUS
<1>1. CASE Cluster!Open
  BY <1>1 DEF Cluster!Open, ClusterInv, Both, IsLocal
<1>2. CASE Cluster!Hit
  BY <1>2 DEF Cluster!Hit, ClusterInv, Both, IsLocal
<1>3. CASE Cluster!Begin
  <2>1. /\ probe' = [Cluster!NoProbe EXCEPT !.pc = "genesis"] /\ steady' = TRUE /\ info = Cluster!None
        /\ UNCHANGED <<site, node, info, shown>>
    BY <1>3 DEF Cluster!Begin
  <2>2. probe' \in ClusterProbes /\ probe'.genesis = "none" /\ ~probe'.version
    BY <2>1 DEF Cluster!NoProbe, ClusterProbes
  <2>3. ~info.allowed
    BY <2>1 DEF Cluster!None
  <2> QED BY <2>1, <2>2, <2>3 DEF ClusterInv, Both, IsLocal
<1>4. CASE Cluster!ReadGenesis
  <2>1. UNCHANGED <<site, node, info, shown, steady>> /\ probe.pc = "genesis"
    BY <1>4 DEF Cluster!ReadGenesis
  <2>2. /\ probe' \in ClusterProbes /\ probe'.version = probe.version
        /\ probe'.genesis = probe.genesis \/ (probe'.genesis = Cluster!Genesis /\ node # "down")
    BY <1>4 DEF Cluster!ReadGenesis, Cluster!Genesis, ClusterInv, ClusterProbes
  <2>3. info = Cluster!None
    BY <2>1 DEF ClusterInv
  <2>4. steady' => (probe'.genesis = "other" => node' = "validator") /\ (probe'.version => node' = "surfnet")
    BY <2>1, <2>2 DEF ClusterInv, Cluster!Genesis
  <2> QED BY <2>1, <2>2, <2>3, <2>4 DEF ClusterInv, Both, IsLocal
<1>5. CASE Cluster!ReadVersion
  <2>1. UNCHANGED <<site, node, info, shown, steady>> /\ probe.pc = "version"
    BY <1>5 DEF Cluster!ReadVersion
  <2>2. probe' \in ClusterProbes /\ probe'.genesis = probe.genesis /\ (probe'.version => node = "surfnet")
    BY <1>5 DEF Cluster!ReadVersion, ClusterInv, ClusterProbes
  <2>3. info = Cluster!None
    BY <2>1 DEF ClusterInv
  <2> QED BY <2>1, <2>2, <2>3 DEF ClusterInv, Both, IsLocal
<1>6. CASE Cluster!ReadMethod
  <2>1. UNCHANGED <<site, node, info, shown, steady>> /\ probe.pc = "method"
    BY <1>6 DEF Cluster!ReadMethod
  <2>2. probe' \in ClusterProbes /\ probe'.genesis = probe.genesis /\ probe'.version = probe.version
    BY <1>6 DEF Cluster!ReadMethod, ClusterInv, ClusterProbes
  <2>3. info = Cluster!None
    BY <2>1 DEF ClusterInv
  <2> QED BY <2>1, <2>2, <2>3 DEF ClusterInv, Both, IsLocal
<1>7. CASE Cluster!Answered
  <2>1. /\ UNCHANGED <<site, node, steady>> /\ probe.pc = "read" /\ shown' = Cluster!Classify(probe)
        /\ info' = Cluster!Cached(probe) /\ probe' = Cluster!NoProbe
    BY <1>7 DEF Cluster!Answered
  <2>2. probe' \in ClusterProbes /\ probe'.pc = "off" /\ probe'.genesis = "none" /\ ~probe'.version
    BY <2>1 DEF Cluster!NoProbe, ClusterProbes
  <2>3. info' = IF probe.genesis = "none" THEN Cluster!None ELSE shown'
    BY <2>1 DEF Cluster!Cached
  <2>4. Cluster!None \in ClusterInfos /\ ~Cluster!None.allowed
    BY DEF Cluster!None, ClusterInfos
  <2>5. /\ shown' \in ClusterInfos /\ shown' # Cluster!None
        /\ shown'.allowed /\ ~Both => probe.genesis # "none" /\ (steady => IsLocal)
    BY <2>1, Classified
  <2>6. info' \in ClusterInfos /\ (info'.allowed => shown'.allowed)
    BY <2>3, <2>4, <2>5
  <2> QED BY <2>1, <2>2, <2>3, <2>5, <2>6 DEF ClusterInv, Both, IsLocal
<1>8. CASE Cluster!Change
  BY <1>8 DEF Cluster!Change, ClusterInv, Both, IsLocal
<1> QED BY <1>1, <1>2, <1>3, <1>4, <1>5, <1>6, <1>7, <1>8 DEF Cluster!Next, Cluster!Probes

LEMMA ClusterRests == ClusterInv /\ UNCHANGED clusterVars => ClusterInv'
BY DEF ClusterInv, clusterVars, Both, IsLocal

LEMMA ClusterHolds == ClusterInv => Cluster!TypeOK /\ Cluster!MainnetNeedsBoth
<1> SUFFICES ASSUME ClusterInv PROVE Cluster!TypeOK /\ Cluster!MainnetNeedsBoth
  OBVIOUS
<1>1. Cluster!TypeOK
  BY DEF ClusterInv, Cluster!TypeOK, ClusterProbes, ClusterInfos
<1>2. Cluster!MainnetNeedsBoth
  BY DEF ClusterInv, Cluster!MainnetNeedsBoth, Both, IsLocal
<1> QED BY <1>1, <1>2

-----------------------------------------------------------------------------
(***************************************************************************)
(* Faucet: one run at a time is under way, and what it has read is still   *)
(* so when it patches it, unless a transfer came between.                  *)
(***************************************************************************)

FundRuns ==
    [pc : {"queued", "account", "patch", "supply", "check", "done", "failed"}, wallet : Wallets, raw : Nat, mint : Nat]
Held == Sum(balance, DOMAIN balance)

FundTyped ==
    /\ balance \in [DOMAIN balance -> Nat] /\ DOMAIN balance \subseteq Wallets /\ supply \in Nat
    /\ runs \in Seq(FundRuns) /\ disturbed \in BOOLEAN
\* A run begins when those before it are over.
FundQueued ==
    \A j, k \in 1 .. Len(runs) : j < k /\ runs[k].pc # "queued" => runs[j].pc \in Fund!Over
FundReads ==
    \A k \in 1 .. Len(runs) : runs[k].pc \in {"patch", "supply", "check"} => runs[k].wallet \in DOMAIN balance
\* What a run holds is what was read and patched since.
Told(job, s, b, held) ==
    /\ job.pc \in {"account", "patch", "supply"} => job.mint = s
    /\ job.pc = "patch" => job.raw = b[job.wallet]
    /\ job.pc = "supply" => held = s + 1
FundMatches ==
    ~disturbed =>
       /\ \A k \in 1 .. Len(runs) : Told(runs[k], supply, balance, Held)
       /\ (\A k \in 1 .. Len(runs) : runs[k].pc # "supply") => supply = Held

FundInv == FundTyped /\ FundQueued /\ FundReads /\ FundMatches

LEMMA FundHeld == ASSUME NEW f PROVE Fund!FoldFunction(+, 0, f) = Sum(f, DOMAIN f)
BY DEF Fund!FoldFunction, Fund!FoldFunctionOnSet, Fund!MapThenFoldSet, Sum, FoldFunctionOnSet, MapThenFoldSet

LEMMA FundFinite ==
  ASSUME NEW S \in SUBSET Wallets
  PROVE  IsFiniteSet(S)
<1>1. IsFiniteSet(Wallets)
  BY AppAssumption DEF AppAssumption
<1> QED BY <1>1, FS_Subset

LEMMA FundStarts == Fund!Init => FundInv
<1> SUFFICES ASSUME Fund!Init PROVE FundInv
  OBVIOUS
<1>1. runs = <<>> /\ disturbed = FALSE
  BY DEF Fund!Init
<1>2. balance \in [DOMAIN balance -> Nat] /\ DOMAIN balance \subseteq Wallets
  <2>1. CASE balance = <<>>
    <3>1. DOMAIN balance = {}
      BY <2>1
    <3>2. balance = [w \in {} |-> 0]
      BY <2>1
    <3> QED BY <3>1, <3>2
  <2>2. CASE balance \in [Wallets -> {1}]
    BY <2>2
  <2> QED BY <2>1, <2>2 DEF Fund!Init
<1>3. supply = Held
  <2>1. supply = Fund!FoldFunction(+, 0, balance)
    BY DEF Fund!Init
  <2> QED BY <2>1, FundHeld DEF Held
<1>4. Held \in Nat
  BY <1>2, FundFinite, SumNat DEF Held
<1>5. Len(runs) = 0 /\ runs \in Seq(FundRuns)
  BY <1>1
<1>6. 1 .. Len(runs) = {}
  BY <1>5
<1>7. FundTyped
  BY <1>1, <1>2, <1>3, <1>4, <1>5 DEF FundTyped
<1> QED BY <1>3, <1>6, <1>7 DEF FundInv, FundQueued, FundReads, FundMatches

LEMMA FundFields ==
  ASSUME FundTyped, NEW k \in 1 .. Len(runs)
  PROVE  runs[k] \in FundRuns
BY DEF FundTyped

\* A run goes on: the runs after a step.
LEMMA FundGoes ==
  ASSUME FundTyped, NEW k \in 1 .. Len(runs), NEW job \in FundRuns, Fund!Goes(k, job)
  PROVE  /\ runs' \in Seq(FundRuns) /\ Len(runs') = Len(runs)
         /\ runs'[k] = job /\ \A j \in 1 .. Len(runs) : j # k => runs'[j] = runs[j]
<1>1. runs' = [runs EXCEPT ![k] = job] /\ runs \in Seq(FundRuns)
  BY DEF Fund!Goes, FundTyped
<1> QED BY <1>1

\* What ends keeps nothing.
LEMMA FundEnds ==
  ASSUME FundTyped, NEW k \in 1 .. Len(runs), NEW pc \in {"done", "failed"}, Fund!Ends(k, pc)
  PROVE  \E job \in FundRuns : Fund!Goes(k, job) /\ job.pc = pc
<1> DEFINE job == [runs[k] EXCEPT !.pc = pc, !.raw = 0, !.mint = 0]
<1>1. runs[k] \in FundRuns
  BY FundFields
<1>2. job \in FundRuns /\ job.pc = pc
  BY <1>1 DEF FundRuns
<1>3. Fund!Goes(k, job)
  BY DEF Fund!Ends
<1> QED BY <1>2, <1>3

\* The run that steps is the only one under way.
LEMMA FundAlone ==
  ASSUME FundInv, NEW k \in 1 .. Len(runs),
         runs[k].pc \in {"account", "patch", "supply", "check"} \/ (runs[k].pc = "queued" /\ Fund!Turn(k))
  PROVE  /\ \A j \in 1 .. Len(runs) : j < k => runs[j].pc \in Fund!Over
         /\ \A j \in 1 .. Len(runs) : k < j => runs[j].pc = "queued"
         /\ \A j \in 1 .. Len(runs) : j # k => runs[j].pc \in {"queued", "done", "failed"}
<1>1. runs[k].pc \notin Fund!Over
  BY DEF Fund!Over
<1>2. \A j \in 1 .. Len(runs) : k < j => runs[j].pc = "queued"
  BY <1>1 DEF FundInv, FundQueued
<1>3. Len(runs) \in Nat
  BY DEF FundInv, FundTyped
<1>4. \A j \in 1 .. Len(runs) : j < k => runs[j].pc \in Fund!Over
  BY <1>3 DEF FundInv, FundQueued, Fund!Turn
<1>5. \A j \in 1 .. Len(runs) : j # k => j < k \/ k < j
  OBVIOUS
<1> QED BY <1>2, <1>4, <1>5 DEF Fund!Over

\* A step of the run under way, of what it is now.
LEMMA FundSteps ==
  ASSUME FundInv, NEW k \in 1 .. Len(runs), NEW job \in FundRuns, Fund!Goes(k, job), job.pc # "queued",
         runs[k].pc \in {"account", "patch", "supply", "check"} \/ (runs[k].pc = "queued" /\ Fund!Turn(k)),
         balance' \in [DOMAIN balance' -> Nat], DOMAIN balance \subseteq DOMAIN balance', DOMAIN balance' \subseteq Wallets,
         supply' \in Nat, disturbed' \in BOOLEAN,
         job.pc \in {"patch", "supply", "check"} => job.wallet \in DOMAIN balance',
         ~disturbed' => Told(job, supply', balance', Held') /\ (job.pc # "supply" => supply' = Held')
  PROVE  FundInv'
<1>1. /\ runs' \in Seq(FundRuns) /\ Len(runs') = Len(runs)
      /\ runs'[k] = job /\ \A j \in 1 .. Len(runs) : j # k => runs'[j] = runs[j]
  BY FundGoes DEF FundInv
<1>2. /\ \A j \in 1 .. Len(runs) : j < k => runs[j].pc \in Fund!Over
      /\ \A j \in 1 .. Len(runs) : k < j => runs[j].pc = "queued"
      /\ \A j \in 1 .. Len(runs) : j # k => runs[j].pc \in {"queued", "done", "failed"}
  BY FundAlone
<1>3. FundTyped'
  BY <1>1 DEF FundTyped
<1>4. FundQueued'
  <2>1. ASSUME NEW i \in 1 .. Len(runs), NEW j \in 1 .. Len(runs), i < j, runs'[j].pc # "queued"
        PROVE  runs'[i].pc \in Fund!Over
    <3>1. j <= k /\ i < k /\ i # k
      BY <1>1, <1>2, <2>1
    <3> QED BY <1>1, <1>2, <3>1
  <2> QED BY <1>1, <2>1 DEF FundQueued
<1>5. FundReads'
  BY <1>1, <1>2 DEF FundReads
<1>6. FundMatches'
  <2>1. \A j \in 1 .. Len(runs) : j # k => Told(runs'[j], supply', balance', Held')
    BY <1>1, <1>2 DEF Told
  <2>2. ~disturbed' => Told(runs'[k], supply', balance', Held')
    BY <1>1
  <2> QED BY <1>1, <2>1, <2>2 DEF FundMatches
<1> QED BY <1>3, <1>4, <1>5, <1>6 DEF FundInv

LEMMA FundRequests == FundInv /\ Fund!Request => FundInv'
<1> SUFFICES ASSUME FundInv, Fund!Request PROVE FundInv'
  OBVIOUS
<1>1. PICK w \in Wallets : runs' = Append(runs, [pc |-> "queued", wallet |-> w, raw |-> 0, mint |-> 0])
  BY DEF Fund!Request
<1>2. UNCHANGED <<balance, supply, disturbed>>
  BY DEF Fund!Request
<1> DEFINE job == [pc |-> "queued", wallet |-> w, raw |-> 0, mint |-> 0]
<1>3. job \in FundRuns /\ job.pc = "queued"
  BY DEF FundRuns
<1>4. runs' = Append(runs, job)
  BY <1>1
<1> HIDE DEF job
<1>5. runs \in Seq(FundRuns) /\ Len(runs) \in Nat
  BY DEF FundInv, FundTyped
<1>6. /\ runs' \in Seq(FundRuns) /\ Len(runs') = Len(runs) + 1 /\ runs'[Len(runs) + 1] = job
      /\ \A j \in 1 .. Len(runs) : runs'[j] = runs[j]
  BY <1>3, <1>4, <1>5
<1>7. \A j \in 1 .. Len(runs') : j \in 1 .. Len(runs) \/ j = Len(runs) + 1
  BY <1>5, <1>6
<1>8. \A j \in 1 .. Len(runs) : j \in 1 .. Len(runs') /\ j < Len(runs) + 1
  BY <1>5, <1>6
<1>9. FundTyped' /\ Held' = Held
  BY <1>2, <1>6 DEF FundInv, FundTyped, Held
<1>10. FundQueued'
  <2>1. ASSUME NEW i \in 1 .. Len(runs'), NEW j \in 1 .. Len(runs'), i < j, runs'[j].pc # "queued"
        PROVE  runs'[i].pc \in Fund!Over
    <3>1. j \in 1 .. Len(runs)
      BY <1>3, <1>6, <1>7, <2>1
    <3>2. i \in 1 .. Len(runs)
      BY <1>5, <2>1, <3>1
    <3> QED BY <1>6, <2>1, <3>1, <3>2 DEF FundInv, FundQueued
  <2> QED BY <2>1 DEF FundQueued
<1>11. FundReads'
  BY <1>2, <1>3, <1>6, <1>7 DEF FundInv, FundReads
<1>12. FundMatches'
  <2>1. ~disturbed => \A j \in 1 .. Len(runs') : Told(runs'[j], supply, balance, Held)
    BY <1>3, <1>6, <1>7 DEF FundInv, FundMatches, Told
  <2>2. (\A k \in 1 .. Len(runs') : runs'[k].pc # "supply") => \A k \in 1 .. Len(runs) : runs[k].pc # "supply"
    BY <1>6, <1>8
  <2> QED BY <1>2, <1>9, <2>1, <2>2 DEF FundInv, FundMatches
<1> QED BY <1>9, <1>10, <1>11, <1>12 DEF FundInv

\* What is known of the run that steps.
LEMMA FundAsked ==
  ASSUME FundInv, NEW k \in 1 .. Len(runs),
         runs[k].pc \in {"account", "patch", "supply", "check"} \/ (runs[k].pc = "queued" /\ Fund!Turn(k))
  PROVE  /\ runs[k] \in FundRuns /\ runs[k].wallet \in Wallets /\ runs[k].raw \in Nat /\ runs[k].mint \in Nat
         /\ runs[k].pc \in {"patch", "supply", "check"} => runs[k].wallet \in DOMAIN balance
         /\ ~disturbed => Told(runs[k], supply, balance, Held) /\ (runs[k].pc # "supply" => supply = Held)
         /\ balance \in [DOMAIN balance -> Nat] /\ DOMAIN balance \subseteq Wallets /\ supply \in Nat
         /\ disturbed \in BOOLEAN /\ IsFiniteSet(DOMAIN balance)
<1>1. runs[k] \in FundRuns
  BY FundFields DEF FundInv
<1>2. runs[k].wallet \in Wallets /\ runs[k].raw \in Nat /\ runs[k].mint \in Nat
  BY <1>1 DEF FundRuns
<1>3. \A j \in 1 .. Len(runs) : j # k => runs[j].pc # "supply"
  BY FundAlone
<1>4. ~disturbed => Told(runs[k], supply, balance, Held) /\ (runs[k].pc # "supply" => supply = Held)
  BY <1>3 DEF FundInv, FundMatches
<1>5. IsFiniteSet(DOMAIN balance)
  BY FundFinite DEF FundInv, FundTyped
<1> QED BY <1>1, <1>2, <1>4, <1>5 DEF FundInv, FundTyped, FundReads

\* A run that ends with everything as it is, or after a failure that disturbed.
LEMMA FundFails ==
  ASSUME FundInv, NEW k \in 1 .. Len(runs), NEW pc \in {"done", "failed"}, Fund!Ends(k, pc),
         runs[k].pc \in {"account", "patch", "supply", "check"} \/ (runs[k].pc = "queued" /\ Fund!Turn(k)),
         balance' \in [DOMAIN balance' -> Nat], DOMAIN balance \subseteq DOMAIN balance', DOMAIN balance' \subseteq Wallets,
         supply' \in Nat, disturbed' \in BOOLEAN, ~disturbed' => supply' = Held'
  PROVE  FundInv'
<1>1. PICK job \in FundRuns : Fund!Goes(k, job) /\ job.pc = pc
  BY FundEnds DEF FundInv
<1>2. Told(job, supply', balance', Held') /\ job.pc # "queued" /\ job.pc \notin {"patch", "supply", "check"}
  BY <1>1 DEF Told
<1> QED BY <1>1, <1>2, FundSteps

LEMMA FundReadsMint ==
  ASSUME FundInv, NEW k \in 1 .. Len(runs), Fund!ReadMint(k)
  PROVE  FundInv'
<1>1. runs[k].pc = "queued" /\ Fund!Turn(k) /\ UNCHANGED <<balance, supply, disturbed>> /\ Held' = Held
  BY DEF Fund!ReadMint, Held
<1>2. /\ runs[k] \in FundRuns
      /\ ~disturbed => supply = Held
      /\ balance \in [DOMAIN balance -> Nat] /\ DOMAIN balance \subseteq Wallets /\ supply \in Nat
      /\ disturbed \in BOOLEAN
  BY <1>1, FundAsked
<1>3. CASE Fund!Fails(k)
  <2>1. Fund!Ends(k, "failed")
    BY <1>3 DEF Fund!Fails
  <2> QED BY <1>1, <1>2, <2>1, FundFails
<1>4. CASE Fund!Goes(k, [runs[k] EXCEPT !.pc = "account", !.mint = supply])
  <2> DEFINE job == [runs[k] EXCEPT !.pc = "account", !.mint = supply]
  <2>1. job \in FundRuns /\ job.pc = "account" /\ job.mint = supply
    BY <1>2 DEF FundRuns
  <2>2. Fund!Goes(k, job)
    BY <1>4
  <2> HIDE DEF job
  <2>3. Told(job, supply', balance', Held')
    BY <1>1, <2>1 DEF Told
  <2> QED BY <1>1, <1>2, <2>1, <2>2, <2>3, FundSteps
<1> QED BY <1>3, <1>4 DEF Fund!ReadMint

LEMMA FundReadsAccount ==
  ASSUME FundInv, NEW k \in 1 .. Len(runs), Fund!ReadAccount(k)
  PROVE  FundInv'
<1>1. runs[k].pc = "account" /\ UNCHANGED <<supply, disturbed>>
  BY DEF Fund!ReadAccount
<1>2. /\ runs[k] \in FundRuns /\ runs[k].wallet \in Wallets /\ runs[k].raw \in Nat
      /\ ~disturbed => Told(runs[k], supply, balance, Held) /\ supply = Held
      /\ balance \in [DOMAIN balance -> Nat] /\ DOMAIN balance \subseteq Wallets /\ supply \in Nat
      /\ disturbed \in BOOLEAN /\ IsFiniteSet(DOMAIN balance)
  BY <1>1, FundAsked
<1>3. CASE Fund!Fails(k) /\ UNCHANGED balance
  <2>1. Fund!Ends(k, "failed") /\ Held' = Held
    BY <1>3 DEF Fund!Fails, Held
  <2> QED BY <1>1, <1>2, <1>3, <2>1, FundFails
<1>4. CASE /\ runs[k].wallet \in DOMAIN balance
           /\ Fund!Goes(k, [runs[k] EXCEPT !.pc = "patch", !.raw = balance[runs[k].wallet]])
           /\ UNCHANGED balance
  <2> DEFINE job == [runs[k] EXCEPT !.pc = "patch", !.raw = balance[runs[k].wallet]]
  <2>1. balance[runs[k].wallet] \in Nat
    BY <1>2, <1>4
  <2>2. /\ job \in FundRuns /\ job.pc = "patch" /\ job.mint = runs[k].mint /\ job.wallet = runs[k].wallet
        /\ job.raw = balance[runs[k].wallet]
    BY <1>2, <2>1 DEF FundRuns
  <2>3. Fund!Goes(k, job) /\ Held' = Held
    BY <1>4 DEF Held
  <2> HIDE DEF job
  <2>4. ~disturbed => Told(job, supply', balance', Held')
    BY <1>1, <1>2, <1>4, <2>2 DEF Told
  <2> QED BY <1>1, <1>2, <1>4, <2>2, <2>3, <2>4, FundSteps
<1>5. CASE /\ runs[k].wallet \notin DOMAIN balance
           /\ balance' = [w \in DOMAIN balance \cup {runs[k].wallet} |-> IF w \in DOMAIN balance THEN balance[w] ELSE 0]
           /\ UNCHANGED runs
  <2> DEFINE w == runs[k].wallet
             D == DOMAIN balance
  <2>1. /\ DOMAIN balance' = D \cup {w} /\ w \notin D /\ balance'[w] = 0
        /\ \A v \in D : balance'[v] = balance[v] /\ balance[v] \in Nat
        /\ balance' \in [D \cup {w} -> Nat] /\ D \cup {w} \subseteq Wallets
    BY <1>2, <1>5
  <2>2. Held' = Held
    <3>1. IsFiniteSet(D \cup {w}) /\ (D \cup {w}) \ {w} = D
      BY <1>2, <2>1, FundFinite
    <3>2. Sum(balance', D \cup {w}) = balance'[w] + Sum(balance', D) /\ Sum(balance', D) \in Int
      <4>1. \A y \in D \cup {w} : balance'[y] \in Int
        BY <2>1
      <4> HIDE DEF w, D
      <4> QED BY <3>1, <4>1, SumTakeOut
    <3>3. Sum(balance, D) = Sum(balance', D)
      <4>1. \A y \in D : balance[y] \in Int /\ balance'[y] = balance[y]
        BY <2>1
      <4> HIDE DEF w, D
      <4> QED BY <1>2, <4>1, SumAgree DEF D
    <3> HIDE DEF w
    <3> QED BY <2>1, <3>2, <3>3 DEF Held
  <2>3. FundTyped'
    BY <1>1, <1>5, <2>1 DEF FundInv, FundTyped
  <2>4. FundQueued' /\ FundReads'
    BY <1>5, <2>1 DEF FundInv, FundQueued, FundReads
  <2>5. FundMatches'
    <3>1. \A j \in 1 .. Len(runs) : runs[j].pc \notin {"patch", "supply"}
      BY <1>1, FundAlone
    <3>2. ~disturbed => \A j \in 1 .. Len(runs) : Told(runs[j], supply', balance', Held')
      BY <1>1, <2>2, <3>1 DEF FundInv, FundMatches, Told
    <3> QED BY <1>1, <1>2, <1>5, <2>2, <3>2 DEF FundMatches
  <2> QED BY <2>3, <2>4, <2>5 DEF FundInv
<1> QED BY <1>3, <1>4, <1>5 DEF Fund!ReadAccount

\* Accounts, and accounts of which one holds something else.
Accounts(b) == b \in [DOMAIN b -> Nat] /\ IsFiniteSet(DOMAIN b)
Replaced(b, c, w, n) ==
    /\ c \in [DOMAIN b -> Nat] /\ DOMAIN c = DOMAIN b
    /\ Sum(c, DOMAIN c) = Sum(b, DOMAIN b) - b[w] + n /\ Sum(b, DOMAIN b) \in Nat

LEMMA FundPatched ==
  ASSUME NEW b, Accounts(b), NEW w \in DOMAIN b, NEW n \in Nat, NEW c, c = [b EXCEPT ![w] = n]
  PROVE  Replaced(b, c, w, n)
<1>1. c \in [DOMAIN b -> Nat] /\ DOMAIN c = DOMAIN b /\ c[w] = n
  BY DEF Accounts
<1>2. SameBut(b, c, DOMAIN b, w)
  BY <1>1 DEF SameBut, Accounts
<1>3. IsFiniteSet(DOMAIN b) /\ w \in DOMAIN b
  BY DEF Accounts
<1>4. Sum(c, DOMAIN b) = Sum(b, DOMAIN b) - b[w] + c[w]
  BY ONLY <1>2, <1>3, SumChanged, ZenonT(30)
<1>5. Sum(b, DOMAIN b) \in Nat
  BY SumNat DEF Accounts
<1> QED BY <1>1, <1>4, <1>5 DEF Replaced

LEMMA FundPatches ==
  ASSUME FundInv, NEW k \in 1 .. Len(runs), Fund!PatchAccount(k)
  PROVE  FundInv'
<1> DEFINE w == runs[k].wallet
           patched == [balance EXCEPT ![w] = runs[k].raw + 1]
<1>1. runs[k].pc = "patch" /\ UNCHANGED supply
  BY DEF Fund!PatchAccount
<1>2. /\ runs[k] \in FundRuns /\ w \in DOMAIN balance /\ runs[k].raw \in Nat
      /\ ~disturbed => Told(runs[k], supply, balance, Held) /\ supply = Held
      /\ balance \in [DOMAIN balance -> Nat] /\ DOMAIN balance \subseteq Wallets /\ supply \in Nat
      /\ disturbed \in BOOLEAN /\ IsFiniteSet(DOMAIN balance)
  BY <1>1, FundAsked
<1>3. PICK b : b = patched
  OBVIOUS
<1>4. /\ b \in [DOMAIN balance -> Nat] /\ DOMAIN b = DOMAIN balance
      /\ Sum(b, DOMAIN b) = Held - balance[w] + (runs[k].raw + 1) /\ Held \in Nat
  <2>1. runs[k].raw + 1 \in Nat /\ Accounts(balance) /\ w \in DOMAIN balance
    BY <1>2 DEF Accounts
  <2> HIDE DEF w
  <2>2. Replaced(balance, b, w, runs[k].raw + 1)
    BY ONLY <1>3, <2>1, FundPatched, Zenon
  <2> QED BY <2>2 DEF Held, Replaced
<1>5. CASE /\ Fund!Goes(k, [runs[k] EXCEPT !.pc = "supply"]) /\ balance' = b /\ UNCHANGED disturbed
  <2> DEFINE job == [runs[k] EXCEPT !.pc = "supply"]
  <2>1. job \in FundRuns /\ job.pc = "supply" /\ job.wallet = w /\ job.mint = runs[k].mint
    BY <1>2 DEF FundRuns
  <2>2. Fund!Goes(k, job)
    BY <1>5
  <2> HIDE DEF job
  <2>3. Held' = Sum(b, DOMAIN b)
    BY <1>5 DEF Held
  <2>4. ~disturbed => Held' = supply + 1 /\ runs[k].mint = supply
    <3>1. ~disturbed => runs[k].raw = balance[w] /\ balance[w] \in Nat /\ runs[k].mint = supply
      BY <1>1, <1>2 DEF Told
    <3> HIDE DEF w
    <3> QED BY <1>2, <1>4, <2>3, <3>1
  <2>5. ~disturbed' => Told(job, supply', balance', Held')
    BY <1>1, <1>5, <2>1, <2>4 DEF Told
  <2> HIDE DEF w
  <2> QED BY <1>1, <1>2, <1>4, <1>5, <2>1, <2>2, <2>5, FundSteps
<1>6. CASE /\ Fund!Fails(k) /\ balance' \in {b, balance} /\ disturbed' = (disturbed \/ balance' # balance)
  <2>1. Fund!Ends(k, "failed")
    BY <1>6 DEF Fund!Fails
  <2>2. balance' \in [DOMAIN balance' -> Nat] /\ DOMAIN balance' = DOMAIN balance
    BY <1>2, <1>4, <1>6
  <2>3. ~disturbed' => supply' = Held'
    BY <1>1, <1>2, <1>6 DEF Held
  <2>4. disturbed' \in BOOLEAN
    BY <1>6
  <2> QED BY <1>1, <1>2, <2>1, <2>2, <2>3, <2>4, FundFails
<1> QED BY <1>3, <1>5, <1>6 DEF Fund!PatchAccount

LEMMA FundPatchesSupply ==
  ASSUME FundInv, NEW k \in 1 .. Len(runs), Fund!PatchSupply(k)
  PROVE  FundInv'
<1>1. runs[k].pc = "supply" /\ UNCHANGED balance /\ Held' = Held
  BY DEF Fund!PatchSupply, Held
<1>2. /\ runs[k] \in FundRuns /\ runs[k].wallet \in DOMAIN balance /\ runs[k].mint \in Nat
      /\ ~disturbed => Told(runs[k], supply, balance, Held)
      /\ balance \in [DOMAIN balance -> Nat] /\ DOMAIN balance \subseteq Wallets /\ supply \in Nat
      /\ disturbed \in BOOLEAN
  BY <1>1, FundAsked
<1>3. /\ Fund!PatchedSupply(k) \in Nat
      /\ ~disturbed => Fund!PatchedSupply(k) = Held
  BY <1>1, <1>2 DEF Fund!PatchedSupply, Told
<1>4. CASE /\ Fund!Goes(k, [runs[k] EXCEPT !.pc = "check"]) /\ supply' = Fund!PatchedSupply(k) /\ UNCHANGED disturbed
  <2> DEFINE job == [runs[k] EXCEPT !.pc = "check"]
  <2>1. job \in FundRuns /\ job.pc = "check" /\ job.wallet = runs[k].wallet
    BY <1>2 DEF FundRuns
  <2>2. Fund!Goes(k, job)
    BY <1>4
  <2> HIDE DEF job
  <2>3. Told(job, supply', balance', Held')
    BY <2>1 DEF Told
  <2> QED BY <1>1, <1>2, <1>3, <1>4, <2>1, <2>2, <2>3, FundSteps
<1>5. CASE /\ Fund!Fails(k) /\ supply' \in {Fund!PatchedSupply(k), supply} /\ disturbed' = (disturbed \/ supply' = supply)
  <2>1. Fund!Ends(k, "failed") /\ disturbed' \in BOOLEAN /\ supply' \in Nat
    BY <1>2, <1>3, <1>5 DEF Fund!Fails
  <2>2. ~disturbed' => supply' = Held'
    BY <1>1, <1>3, <1>5
  <2> QED BY <1>1, <1>2, <2>1, <2>2, FundFails
<1> QED BY <1>4, <1>5 DEF Fund!PatchSupply

LEMMA FundChecks ==
  ASSUME FundInv, NEW k \in 1 .. Len(runs), Fund!Check(k)
  PROVE  FundInv'
<1>1. runs[k].pc = "check" /\ UNCHANGED <<balance, supply, disturbed>> /\ Held' = Held
  BY DEF Fund!Check, Held
<1>2. /\ ~disturbed => supply = Held
      /\ balance \in [DOMAIN balance -> Nat] /\ DOMAIN balance \subseteq Wallets /\ supply \in Nat
      /\ disturbed \in BOOLEAN
  BY <1>1, FundAsked
<1>3. Fund!Ends(k, "done") \/ Fund!Ends(k, "failed")
  BY DEF Fund!Check, Fund!Fails
<1> QED BY <1>1, <1>2, <1>3, FundFails

LEMMA FundTransfers == FundInv /\ Fund!Transfer => FundInv'
<1> SUFFICES ASSUME FundInv, Fund!Transfer PROVE FundInv'
  OBVIOUS
<1>1. PICK v \in DOMAIN balance, w \in DOMAIN balance :
          /\ v # w /\ balance[v] > 0
          /\ balance' = [balance EXCEPT ![v] = @ - 1, ![w] = @ + 1]
          /\ disturbed' = (disturbed \/ \E k \in DOMAIN runs : runs[k].pc = "patch" /\ runs[k].wallet \in {v, w})
  BY DEF Fund!Transfer
<1>2. UNCHANGED <<supply, runs>>
  BY DEF Fund!Transfer
<1>3. /\ balance \in [DOMAIN balance -> Nat] /\ DOMAIN balance \subseteq Wallets
      /\ IsFiniteSet(DOMAIN balance) /\ runs \in Seq(FundRuns) /\ disturbed \in BOOLEAN
  BY FundFinite DEF FundInv, FundTyped
<1>4. PICK b : b = [balance EXCEPT ![v] = balance[v] - 1]
  OBVIOUS
<1>5. /\ b \in [DOMAIN balance -> Nat] /\ DOMAIN b = DOMAIN balance
      /\ Sum(b, DOMAIN b) = Held - balance[v] + (balance[v] - 1) /\ Held \in Nat /\ balance[v] \in Nat
  <2>1. balance[v] - 1 \in Nat /\ balance[v] \in Nat /\ Accounts(balance) /\ v \in DOMAIN balance
    BY <1>1, <1>3 DEF Accounts
  <2>2. Replaced(balance, b, v, balance[v] - 1)
    BY ONLY <1>4, <2>1, FundPatched, Zenon
  <2> QED BY <2>1, <2>2 DEF Held, Replaced
<1>6. balance' = [b EXCEPT ![w] = b[w] + 1] /\ b[w] \in Nat /\ b[w] = balance[w]
  BY <1>1, <1>3, <1>4, <1>5
<1>7. /\ balance' \in [DOMAIN balance -> Nat] /\ DOMAIN balance' = DOMAIN balance
      /\ Held' = Sum(b, DOMAIN b) - b[w] + (b[w] + 1)
  <2>1. b[w] + 1 \in Nat /\ Accounts(b) /\ w \in DOMAIN b
    BY <1>3, <1>5, <1>6 DEF Accounts
  <2>2. Replaced(b, balance', w, b[w] + 1)
    BY ONLY <1>6, <2>1, FundPatched, Zenon
  <2> QED BY <1>5, <2>2 DEF Held, Replaced
<1>8. Held' = Held
  BY <1>5, <1>6, <1>7
<1>9. \A u \in DOMAIN balance : u \notin {v, w} => balance'[u] = balance[u]
  BY <1>1
<1>10. FundTyped'
  BY <1>1, <1>2, <1>3, <1>7 DEF FundInv, FundTyped
<1>11. FundQueued' /\ FundReads'
  BY <1>2, <1>7 DEF FundInv, FundQueued, FundReads
<1>12. FundMatches'
  <2>1. SUFFICES ASSUME ~disturbed' PROVE (\A k \in 1 .. Len(runs) : Told(runs[k], supply, balance', Held))
                                          /\ ((\A k \in 1 .. Len(runs) : runs[k].pc # "supply") => supply = Held)
    BY <1>2, <1>8 DEF FundMatches
  <2>2. ~disturbed /\ DOMAIN runs = 1 .. Len(runs)
    BY <1>1, <1>3, <2>1
  <2>3. ASSUME NEW k \in 1 .. Len(runs) PROVE Told(runs[k], supply, balance', Held)
    <3>1. Told(runs[k], supply, balance, Held)
      BY <2>2 DEF FundInv, FundMatches
    <3>2. runs[k].pc = "patch" => runs[k].wallet \in DOMAIN balance /\ runs[k].wallet \notin {v, w}
      BY <1>1, <2>1, <2>2 DEF FundInv, FundReads
    <3> QED BY <1>9, <3>1, <3>2 DEF Told
  <2> QED BY <2>2, <2>3 DEF FundInv, FundMatches
<1> QED BY <1>10, <1>11, <1>12 DEF FundInv

LEMMA FundNext == FundInv /\ Fund!Next => FundInv'
<1> SUFFICES ASSUME FundInv, Fund!Next PROVE FundInv'
  OBVIOUS
<1>1. CASE \E k \in DOMAIN runs : Fund!Step(k)
  <2>1. PICK k \in 1 .. Len(runs) : Fund!Step(k)
    BY <1>1 DEF FundInv, FundTyped
  <2> QED BY <2>1, FundReadsMint, FundReadsAccount, FundPatches, FundPatchesSupply, FundChecks DEF Fund!Step
<1> QED BY <1>1, FundRequests, FundTransfers DEF Fund!Next

LEMMA FundRests == FundInv /\ UNCHANGED faucetVars => FundInv'
<1> SUFFICES ASSUME FundInv, UNCHANGED <<balance, supply, runs, disturbed>> PROVE FundInv'
  BY DEF faucetVars
<1>1. Held' = Held
  BY DEF Held
<1> QED BY <1>1 DEF FundInv, FundTyped, FundQueued, FundReads, FundMatches

LEMMA FundHolds == FundInv => Fund!TypeOK /\ Fund!SupplyMatches
<1> SUFFICES ASSUME FundInv PROVE Fund!TypeOK /\ Fund!SupplyMatches
  OBVIOUS
<1>1. DOMAIN runs = 1 .. Len(runs) /\ \A k \in 1 .. Len(runs) : runs[k] \in FundRuns
  BY FundFields DEF FundInv, FundTyped
<1>2. \A k \in 1 .. Len(runs) : runs[k].pc \in {"queued", "account", "patch", "supply", "check"} \cup Fund!Over
  BY <1>1 DEF FundRuns, Fund!Over
<1>3. \A j, k \in 1 .. Len(runs) :
         runs[j].pc \notin {"queued"} \cup Fund!Over /\ runs[k].pc \notin {"queued"} \cup Fund!Over => j = k
  <2>1. \A j, k \in 1 .. Len(runs) : j < k \/ k < j \/ j = k
    OBVIOUS
  <2> QED BY <2>1 DEF FundInv, FundQueued
<1>4. Fund!TypeOK
  BY <1>1, <1>2, <1>3 DEF Fund!TypeOK, FundInv, FundTyped
<1>5. Fund!SupplyMatches
  <2>1. Fund!FoldFunction(+, 0, balance) = Held
    BY FundHeld DEF Held
  <2>2. (\A k \in DOMAIN runs : runs[k].pc \in Fund!Over \cup {"queued"}) => \A k \in 1 .. Len(runs) : runs[k].pc # "supply"
    BY <1>1 DEF Fund!Over
  <2>3. ~disturbed /\ (\A k \in DOMAIN runs : runs[k].pc \in Fund!Over \cup {"queued"}) => supply = Held
    BY <2>2 DEF FundInv, FundMatches
  <2> QED BY <2>1, <2>3, Zenon DEF Fund!SupplyMatches
<1> QED BY <1>4, <1>5

-----------------------------------------------------------------------------
(***************************************************************************)
(* LaunchDirectory: only "real" comes to own the pool of "mint"; what is    *)
(* remembered of the mint, and what its page holds, is "real" once the pool *)
(* is asked for, and a request keeps the launches it found on the way to   *)
(* its answer.                                                             *)
(***************************************************************************)

Stages == {"none", "created", "pooled", "registered"}
DirTold == {"none", "shown", "not found", "ambiguous", "error", "none read"}
DirRequest ==
    [pc : {"idle", "find", "pools", "fetch", "retry", "metadata", "documents", "answered"},
     candidates : SUBSET Directory!Launches, mints : SUBSET Directory!Mints, docs : SUBSET Directory!Mints,
     answer : DirTold,
     present : SUBSET Directory!Launches, failed : SUBSET Directory!Launches]

\* The launches a list has to show, and the owner of "mint".
Listed == {l \in allowed : Directory!HasPool(l)}
Owned == Directory!HasPool("real")

\* The mints whose name is known, and the launches that imitate the brand.
Named == {mint \in Directory!Mints : metadata[mint] # "unread"}
Imitating == {l \in Directory!Launches : Directory!BaseMint[l] \in imitations}

\* What a request has found when it turns to the metadata.
Waiting == {"retry", "metadata", "documents"}
PageReady(q) ==
    /\ q.failed = {} /\ q.present \subseteq Listed
    /\ q.candidates \subseteq {"real"} /\ (q.candidates # {} => Owned)
    /\ "real" \in q.present => q.candidates = {"real"}
ListReady(q) ==
    /\ q.present \subseteq Listed /\ q.present \ q.failed \subseteq q.candidates
    /\ \A l \in q.candidates : Directory!HasPool(l) /\ Directory!BaseMint[l] \in q.mints

PageServes(q) ==
    /\ q.failed = {} /\ q.present \subseteq Listed
    /\ q.pc = "pools" => q.candidates \subseteq {"real", "shadow"}
    /\ q.pc = "fetch" => q.candidates \in {{"real"}, {"shadow"}}
    /\ q.pc \in Waiting => PageReady(q)
    /\ q.pc = "answered" /\ q.answer = "shown" => q.candidates = {"real"} /\ Owned
    /\ "real" \in q.present =>
         /\ q.pc = "pools" => "real" \in q.candidates
         /\ q.pc = "fetch" => q.candidates = {"real"}
         /\ q.pc = "answered" => q.answer \in {"shown", "error"}

ListHolds(q) ==
    /\ q.pc # "pools" /\ q.present \subseteq Listed
    /\ q.pc \in {"find", "fetch"} => q.failed = {}
    /\ q.pc = "fetch" => q.present \subseteq q.candidates
    /\ q.pc \in Waiting => ListReady(q)
    /\ q.pc = "documents" => \A l \in q.candidates : Directory!BaseMint[l] \in q.docs \cup Named
    /\ q.pc = "answered" /\ q.answer = "shown" =>
         (q.present \ q.failed) \ Imitating \subseteq q.candidates /\ q.candidates \cap Imitating = {}
    /\ q.pc = "answered" /\ q.answer = "none read" => q.present \subseteq q.failed

StagesHold ==
    /\ stage \in [Directory!Launches -> Stages]
    /\ stage["shadow"] \in {"none", "created"} /\ stage["other"] = "registered"
    /\ allowed \in {Directory!Launches, Directory!Launches \ {"real"}}
    /\ imitations \subseteq Directory!Mints
MemoryHolds ==
    /\ launchByMint \in [Directory!Mints -> Directory!Launches \cup {Directory!None}]
    /\ launchByMint["plain"] = "other" /\ launchByMint["mint"] \in {Directory!None, "real"}
    /\ launchByMint["mint"] = "real" => Owned
ImagesHold ==
    /\ metadata \in [Directory!Mints -> {"unread", "blank", "image"}]
    /\ imageRetryAt \in [Directory!Mints -> -1 .. ImageRetry]
RequestsHold ==
    /\ requests \in [Directory!Requests -> DirRequest]
    /\ PageServes(requests["page"]) /\ ListHolds(requests["list"])

DirectoryInv == StagesHold /\ MemoryHolds /\ ImagesHold /\ RequestsHold

LEMMA DirNames ==
    /\ Directory!Launches = {"real", "shadow", "other"} /\ Directory!Mints = {"mint", "plain"}
    /\ Directory!BaseMint["real"] = "mint" /\ Directory!BaseMint["shadow"] = "mint"
    /\ Directory!BaseMint["other"] = "plain" /\ Directory!None = "none"
    /\ Directory!Requests = {"page", "list"} /\ ImageRetry \in Nat
<1>1. Directory!Launches = {"real", "shadow", "other"} /\ Directory!None = "none"
  BY DEF Directory!Launches, Directory!None
<1>2. /\ Directory!BaseMint["real"] = "mint" /\ Directory!BaseMint["shadow"] = "mint"
      /\ Directory!BaseMint["other"] = "plain"
  BY <1>1 DEF Directory!BaseMint
<1>3. Directory!Mints = {"mint", "plain"}
  BY <1>1, <1>2 DEF Directory!Mints
<1> QED BY <1>1, <1>2, <1>3, AppAssumption DEF AppAssumption, Directory!Requests

\* Who has a pool.
LEMMA DirPools ==
  ASSUME StagesHold
  PROVE  /\ ~Directory!HasPool("shadow") /\ Directory!HasPool("other")
         /\ \A l \in Directory!Launches : Directory!HasPool(l) => l = "other" \/ (l = "real" /\ Owned)
         /\ "real" \in Listed => Owned
BY DirNames DEF StagesHold, Directory!HasPool, Owned, Listed

LEMMA DirStarts == Directory!Init => DirectoryInv
<1> SUFFICES ASSUME Directory!Init PROVE DirectoryInv
  OBVIOUS
<1> USE DirNames DEF Directory!Init
<1>1. StagesHold
  BY DEF StagesHold, Stages
<1>2. MemoryHolds
  BY DEF MemoryHolds
<1>3. ImagesHold
  BY DEF ImagesHold
<1>4. Directory!Idle \in DirRequest /\ PageServes(Directory!Idle) /\ ListHolds(Directory!Idle)
  BY DEF DirRequest, Directory!Idle, PageServes, ListHolds, Waiting, DirTold
<1>5. RequestsHold
  BY <1>4 DEF RequestsHold
<1> QED BY <1>1, <1>2, <1>3, <1>5 DEF DirectoryInv

\* Pools appear, names become known, and nothing of it is lost.
DirGrows ==
    /\ Listed \subseteq Listed' /\ Named \subseteq Named' /\ imitations' = imitations
    /\ \A l \in Directory!Launches : Directory!HasPool(l) => Directory!HasPool(l)'

LEMMA DirStands ==
  ASSUME DirGrows, NEW q \in DirRequest
  PROVE  (PageServes(q) => PageServes(q)') /\ (ListHolds(q) => ListHolds(q)')
<1>1. Imitating' = Imitating /\ (Owned => Owned')
  BY DirNames DEF DirGrows, Imitating, Owned
<1>2. \A l \in q.candidates : Directory!HasPool(l) => Directory!HasPool(l)'
  BY DEF DirGrows, DirRequest
<1>3. PageReady(q) => PageReady(q)'
  BY <1>1 DEF DirGrows, PageReady
<1>4. ListReady(q) => ListReady(q)'
  BY <1>2 DEF DirGrows, ListReady
<1>5. PageServes(q) => PageServes(q)'
  BY <1>1, <1>3 DEF DirGrows, PageServes
<1>6. ListHolds(q) => ListHolds(q)'
  BY <1>1, <1>4 DEF DirGrows, ListHolds
<1> QED BY <1>5, <1>6

\* A request that goes on.
LEMMA DirGoes ==
  ASSUME RequestsHold, NEW r \in Directory!Requests, NEW q \in DirRequest, Directory!Goes(r, q),
         DirGrows, r = "page" => PageServes(q)', r = "list" => ListHolds(q)'
  PROVE  RequestsHold'
<1>1. requests' = [requests EXCEPT ![r] = q]
  BY DEF Directory!Goes
<1>2. requests' \in [Directory!Requests -> DirRequest]
  BY <1>1 DEF RequestsHold
<1>3. \A k \in Directory!Requests : requests[k] \in DirRequest
  BY DEF RequestsHold
<1>4. ASSUME NEW p, p \in DirRequest, PageServes(p) PROVE PageServes(p)'
  BY <1>4, DirStands
<1>5. ASSUME NEW p, p \in DirRequest, ListHolds(p) PROVE ListHolds(p)'
  BY <1>5, DirStands
<1>6. \A p : p = requests'["page"] => PageServes(p)'
  <2>1. CASE r = "page"
    <3>1. requests'["page"] = q
      BY <1>1, <2>1, DirNames DEF RequestsHold
    <3> QED BY <2>1, <3>1
  <2>2. CASE r # "page"
    <3>1. requests'["page"] = requests["page"] /\ requests["page"] \in DirRequest /\ PageServes(requests["page"])
      BY <1>1, <1>3, <2>2, DirNames DEF RequestsHold
    <3> QED BY <1>4, <3>1
  <2> QED BY <2>1, <2>2
<1>7. \A p : p = requests'["list"] => ListHolds(p)'
  <2>1. CASE r = "list"
    <3>1. requests'["list"] = q
      BY <1>1, <2>1, DirNames DEF RequestsHold
    <3> QED BY <2>1, <3>1
  <2>2. CASE r # "list"
    <3>1. requests'["list"] = requests["list"] /\ requests["list"] \in DirRequest /\ ListHolds(requests["list"])
      BY <1>1, <1>3, <2>2, DirNames DEF RequestsHold
    <3> QED BY <1>5, <3>1
  <2> QED BY <2>1, <2>2
<1>8. PageServes(requests["page"])'
  BY <1>6 DEF PageServes, PageReady
<1>9. ListHolds(requests["list"])'
  BY <1>7 DEF ListHolds, ListReady
<1> QED BY <1>2, <1>8, <1>9 DEF RequestsHold

LEMMA DirStays ==
  ASSUME RequestsHold, UNCHANGED requests, DirGrows
  PROVE  RequestsHold'
<1>1. /\ requests["page"] \in DirRequest /\ PageServes(requests["page"])
      /\ requests["list"] \in DirRequest /\ ListHolds(requests["list"])
  BY DirNames DEF RequestsHold
<1>2. \A p \in DirRequest : PageServes(p) => PageServes(p)'
  BY DirStands
<1>3. \A p \in DirRequest : ListHolds(p) => ListHolds(p)'
  BY DirStands
<1>4. \A p : p = requests'["page"] => PageServes(p)'
  BY <1>1, <1>2
<1>5. \A p : p = requests'["list"] => ListHolds(p)'
  BY <1>1, <1>3
<1>6. PageServes(requests["page"])'
  BY <1>4 DEF PageServes, PageReady
<1>7. ListHolds(requests["list"])'
  BY <1>5 DEF ListHolds, ListReady
<1> QED BY <1>6, <1>7 DEF RequestsHold

\* What a request that is answered keeps.
Closed(request, answer, summaries) ==
    [request EXCEPT !.pc = "answered", !.mints = {}, !.docs = {}, !.answer = answer, !.candidates = summaries]

IsClosed(q, request, answer, summaries) ==
    /\ q \in DirRequest /\ q.pc = "answered" /\ q.answer = answer /\ q.candidates = summaries
    /\ q.present = request.present /\ q.failed = request.failed

LEMMA DirCloses ==
  ASSUME NEW request \in DirRequest, NEW answer \in DirTold, NEW summaries \in SUBSET Directory!Launches
  PROVE  IsClosed(Closed(request, answer, summaries), request, answer, summaries)
BY DEF DirRequest, Closed, IsClosed

LEMMA DirAnswers ==
  ASSUME RequestsHold, NEW r \in Directory!Requests,
         NEW answer \in {"not found", "ambiguous", "error"}, Directory!Answers(r, answer)
  PROVE  \E q \in DirRequest :
           /\ Directory!Goes(r, q) /\ q.pc = "answered" /\ q.answer = answer
           /\ q.candidates = {}
           /\ q.present = requests[r].present /\ q.failed = requests[r].failed
<1>1. requests[r] \in DirRequest /\ Directory!Goes(r, Closed(requests[r], answer, {}))
  BY DEF RequestsHold, Directory!Answers, Directory!Replies, Closed
<1>2. answer \in DirTold /\ {} \in SUBSET Directory!Launches
  BY DEF DirTold
<1>3. IsClosed(Closed(requests[r], answer, {}), requests[r], answer, {})
  BY <1>1, <1>2, DirCloses
<1> QED BY <1>1, <1>3 DEF IsClosed

-----------------------------------------------------------------------------
(* The chain, the gateway and the clock.                                   *)

LEMMA DirAdvances ==
  ASSUME DirectoryInv, NEW l \in Directory!Launches, Directory!Advance(l)
  PROVE  DirectoryInv'
<1>1. UNCHANGED <<allowed, imitations, launchByMint, metadata, imageRetryAt, requests>>
  BY DEF Directory!Advance
<1>2. StagesHold'
  BY <1>1, DirNames DEF Directory!Advance, DirectoryInv, StagesHold, Stages
<1>3. \A k \in Directory!Launches : Directory!HasPool(k) => Directory!HasPool(k)'
  BY DEF Directory!Advance, Directory!HasPool, DirectoryInv, StagesHold
<1>4. Listed \subseteq Listed' /\ (Owned => Owned')
  BY <1>1, <1>3, DirNames DEF Listed, Owned, DirectoryInv, StagesHold
<1>5. MemoryHolds' /\ ImagesHold'
  BY <1>1, <1>4 DEF DirectoryInv, MemoryHolds, ImagesHold
<1>6. RequestsHold'
  <2>1. DirGrows
    BY <1>1, <1>3, <1>4 DEF DirGrows, Named
  <2> QED BY <1>1, <2>1, DirStays DEF DirectoryInv
<1> QED BY <1>2, <1>5, <1>6 DEF DirectoryInv

LEMMA DirTicks ==
  ASSUME DirectoryInv, Directory!Serve \/ Directory!Tick
  PROVE  DirectoryInv'
<1>1. UNCHANGED <<stage, allowed, imitations, launchByMint, metadata, requests>>
  BY DEF Directory!Serve, Directory!Tick
<1>2. StagesHold' /\ MemoryHolds' /\ Listed' = Listed /\ Owned' = Owned
  BY <1>1 DEF DirectoryInv, StagesHold, MemoryHolds, Listed, Owned, Directory!HasPool
<1>3. RequestsHold'
  <2>1. DirGrows
    BY <1>1, <1>2 DEF DirGrows, Named, Directory!HasPool
  <2> QED BY <1>1, <2>1, DirStays DEF DirectoryInv
<1>4. imageRetryAt' \in [Directory!Mints -> -1 .. ImageRetry]
  <2>1. CASE Directory!Serve
    BY <2>1 DEF Directory!Serve, DirectoryInv, ImagesHold
  <2>2. CASE Directory!Tick
    <3>1. imageRetryAt' = [mint \in Directory!Mints |->
              IF imageRetryAt[mint] > 0 THEN imageRetryAt[mint] - 1 ELSE imageRetryAt[mint]]
      BY <2>2 DEF Directory!Tick
    <3>2. \A mint \in Directory!Mints : imageRetryAt[mint] \in -1 .. ImageRetry
      BY DEF DirectoryInv, ImagesHold
    <3>3. \A n \in -1 .. ImageRetry : n > 0 => n - 1 \in -1 .. ImageRetry
      BY DirNames
    <3> QED BY <3>1, <3>2, <3>3
  <2> QED BY <2>1, <2>2
<1> QED BY <1>1, <1>2, <1>3, <1>4 DEF DirectoryInv, ImagesHold

\* The chain, as every request leaves it.
LEMMA DirChain ==
  ASSUME DirectoryInv, UNCHANGED Directory!chainVars
  PROVE  /\ StagesHold' /\ Listed' = Listed /\ Owned' = Owned
         /\ Named \subseteq Named' => DirGrows
<1>1. UNCHANGED <<stage, allowed, imitations>>
  BY DEF Directory!chainVars
<1>2. StagesHold' /\ Listed' = Listed /\ Owned' = Owned
  BY <1>1 DEF DirectoryInv, StagesHold, Listed, Owned, Directory!HasPool
<1> QED BY <1>1, <1>2 DEF DirGrows, Directory!HasPool

-----------------------------------------------------------------------------
(* One request.                                                            *)

\* A request goes on as q, the chain as it was.
LEMMA DirWent ==
  ASSUME DirectoryInv, UNCHANGED Directory!chainVars, NEW r \in Directory!Requests, NEW q \in DirRequest,
         Directory!Goes(r, q), r = "page" => PageServes(q), r = "list" => ListHolds(q),
         MemoryHolds', ImagesHold', Named \subseteq Named'
  PROVE  DirectoryInv'
<1>1. StagesHold' /\ DirGrows
  BY DirChain
<1>2. (r = "page" => PageServes(q)') /\ (r = "list" => ListHolds(q)')
  BY <1>1, DirStands
<1>3. RequestsHold'
  BY <1>1, <1>2, DirGoes DEF DirectoryInv
<1> QED BY <1>1, <1>3 DEF DirectoryInv

LEMMA DirKept ==
  ASSUME DirectoryInv, UNCHANGED Directory!chainVars
  PROVE  /\ UNCHANGED launchByMint => MemoryHolds'
         /\ UNCHANGED <<metadata, imageRetryAt>> => ImagesHold'
         /\ UNCHANGED metadata => Named \subseteq Named'
<1>1. Owned' = Owned
  BY DirChain
<1> QED BY <1>1 DEF DirectoryInv, MemoryHolds, ImagesHold, Named

LEMMA DirBegins ==
  ASSUME DirectoryInv, NEW r \in Directory!Requests, Directory!Begin(r)
  PROVE  DirectoryInv'
<1> DEFINE q == [Directory!Idle EXCEPT !.pc = "find", !.present = {l \in allowed : Directory!HasPool(l)}]
<1>1. Directory!Goes(r, q) /\ UNCHANGED Directory!chainVars /\ UNCHANGED <<launchByMint, metadata, imageRetryAt>>
  BY DEF Directory!Begin
<1>2. /\ q.pc = "find" /\ q.present = Listed /\ q.failed = {} /\ q.candidates = {} /\ q.docs = {}
      /\ q.answer = "none" /\ DOMAIN q = {"pc", "candidates", "mints", "docs", "answer", "present", "failed"}
  BY DEF Directory!Idle, Listed
<1>3. Listed \subseteq Directory!Launches
  BY DEF DirectoryInv, StagesHold, Listed
<1>4. q \in DirRequest
  <2>1. Directory!Idle \in DirRequest
    BY DEF Directory!Idle, DirRequest, DirTold
  <2>2. q = [Directory!Idle EXCEPT !.pc = "find", !.present = Listed]
    BY DEF Listed
  <2> HIDE DEF q
  <2> QED BY <2>1, <2>2, <1>3 DEF DirRequest
<1>5. PageServes(q) /\ ListHolds(q)
  BY <1>2 DEF PageServes, ListHolds, Waiting
<1> HIDE DEF q
<1> QED BY <1>1, <1>4, <1>5, DirKept, DirWent

\* What is known of the request that steps.
LEMMA DirAsked ==
  ASSUME DirectoryInv, NEW r \in Directory!Requests
  PROVE  /\ requests[r] \in DirRequest
         /\ r = "page" => PageServes(requests[r])
         /\ r = "list" => ListHolds(requests[r])
BY DEF DirectoryInv, RequestsHold

LEMMA DirFails ==
  ASSUME DirectoryInv, NEW r \in Directory!Requests, Directory!ReadFails(r)
  PROVE  DirectoryInv'
<1>1. /\ Directory!Answers(r, "error") /\ UNCHANGED Directory!chainVars
      /\ UNCHANGED <<launchByMint, metadata, imageRetryAt>>
      /\ requests[r].pc \in {"find", "pools", "metadata"} \/ (requests[r].pc = "fetch" /\ r = "page")
  BY DEF Directory!ReadFails
<1>2. PICK q \in DirRequest :
         /\ Directory!Goes(r, q) /\ q.pc = "answered" /\ q.answer = "error"
         /\ q.candidates = {} /\ q.present = requests[r].present /\ q.failed = requests[r].failed
  BY <1>1, DirAnswers DEF DirectoryInv
<1>3. (r = "page" => PageServes(q)) /\ (r = "list" => ListHolds(q))
  BY <1>1, <1>2, DirAsked DEF PageServes, ListHolds, Waiting
<1> QED BY <1>1, <1>2, <1>3, DirKept, DirWent

LEMMA DirLists ==
  ASSUME DirectoryInv, NEW r \in Directory!Requests, Directory!ListLaunches(r)
  PROVE  DirectoryInv'
<1> DEFINE found == {l \in allowed : Directory!Exists(l)}
           q == [requests[r] EXCEPT !.pc = "fetch", !.candidates = found]
<1>1. /\ r = "list" /\ requests[r].pc = "find" /\ launchByMint' = Directory!Remember(found) /\ Directory!Goes(r, q)
      /\ UNCHANGED Directory!chainVars /\ UNCHANGED <<metadata, imageRetryAt>>
  BY DEF Directory!ListLaunches
<1>2. /\ requests[r] \in DirRequest /\ requests[r].failed = {} /\ requests[r].present \subseteq Listed
  BY <1>1, DirAsked DEF ListHolds
<1>3. found \subseteq Directory!Launches /\ Listed \subseteq found
  BY DEF DirectoryInv, StagesHold, Listed, Directory!HasPool, Directory!Exists
<1>4. found \subseteq allowed
  OBVIOUS
<1>5. q \in DirRequest /\ q.pc = "fetch" /\ q.candidates = found /\ q.present = requests[r].present /\ q.failed = {}
  BY <1>2, <1>3 DEF DirRequest
<1>6. ListHolds(q)
  BY <1>2, <1>3, <1>5 DEF ListHolds, Waiting
<1>7. MemoryHolds'
  <2> HIDE DEF found, q
  <2>1. \A l \in found : /\ Directory!BaseMint[l] = "plain" => l = "other"
                         /\ Directory!BaseMint[l] = "mint" /\ stage[l] = "registered" => l = "real"
    BY <1>3, DirNames DEF DirectoryInv, StagesHold
  <2>2. PICK kept : kept = Directory!Remember(found)
    OBVIOUS
  <2>3. kept = [mint \in Directory!Mints |->
           IF \E l \in found : Directory!BaseMint[l] = mint /\ stage[l] = "registered"
           THEN CHOOSE l \in found : Directory!BaseMint[l] = mint /\ stage[l] = "registered"
           ELSE launchByMint[mint]]
    BY <2>2 DEF Directory!Remember
  <2>4. kept["plain"] = "other"
    <3>1. CASE \E l \in found : Directory!BaseMint[l] = "plain" /\ stage[l] = "registered"
      <4>1. PICK l \in found : l = kept["plain"] /\ Directory!BaseMint[l] = "plain" /\ stage[l] = "registered"
        BY <2>3, <3>1, DirNames
      <4> QED BY <2>1, <4>1
    <3>2. CASE ~\E l \in found : Directory!BaseMint[l] = "plain" /\ stage[l] = "registered"
      BY <2>3, <3>2, DirNames DEF DirectoryInv, MemoryHolds
    <3> QED BY <3>1, <3>2
  <2>5. kept["mint"] \in {Directory!None, "real"} /\ (kept["mint"] = "real" => Owned)
    <3>1. CASE \E l \in found : Directory!BaseMint[l] = "mint" /\ stage[l] = "registered"
      <4>1. PICK l \in found : l = kept["mint"] /\ Directory!BaseMint[l] = "mint" /\ stage[l] = "registered"
        BY <2>3, <3>1, DirNames
      <4> QED BY <2>1, <4>1 DEF Owned, Directory!HasPool
    <3>2. CASE ~\E l \in found : Directory!BaseMint[l] = "mint" /\ stage[l] = "registered"
      BY <2>3, <3>2, DirNames DEF DirectoryInv, MemoryHolds
    <3> QED BY <3>1, <3>2
  <2>6. DOMAIN kept = Directory!Mints
    BY <2>3
  <2>7. kept \in [Directory!Mints -> Directory!Launches \cup {Directory!None}]
    <3>1. kept = [mint \in Directory!Mints |-> kept[mint]]
      BY <2>3
    <3> QED BY <3>1, <2>4, <2>5, DirNames
  <2>8. Owned' = Owned
    BY <1>1, DirChain
  <2> QED BY <1>1, <2>2, <2>4, <2>5, <2>7, <2>8 DEF MemoryHolds
<1> HIDE DEF q, found
<1> QED BY <1>1, <1>5, <1>6, <1>7, DirKept, DirWent

LEMMA DirCardinality ==
  ASSUME NEW S \in SUBSET {"real", "shadow"}
  PROVE  Directory!Cardinality(S) = 1 <=> S \in {{"real"}, {"shadow"}}
<1>1. Directory!Cardinality(S) = Cardinality(S)
  BY DEF Directory!Cardinality, Cardinality
<1>2. S \in {{}, {"real"}, {"shadow"}, {"real", "shadow"}}
  OBVIOUS
<1>3. Cardinality({}) = 0 /\ Cardinality({"real"}) = 1 /\ Cardinality({"shadow"}) = 1
  BY FS_EmptySet, FS_Singleton
<1>4. Cardinality({"real", "shadow"}) = 2
  <2>1. Cardinality({"real"} \cup {"shadow"}) = Cardinality({"real"}) + 1
    BY FS_AddElement, FS_Singleton
  <2> QED BY <1>3, <2>1
<1>5. CASE S \in {{}, {"real", "shadow"}}
  <2>1. Cardinality(S) = 0 \/ Cardinality(S) = 2
    BY <1>3, <1>4, <1>5, Zenon
  <2>2. S \notin {{"real"}, {"shadow"}}
    BY <1>5
  <2>3. Cardinality(S) # 1
    BY <2>1
  <2> QED BY <1>1, <2>2, <2>3
<1>6. CASE S \in {{"real"}, {"shadow"}}
  <2>1. Cardinality(S) = 1
    BY <1>3, <1>6
  <2> QED BY <1>1, <1>6, <2>1
<1> QED BY <1>2, <1>5, <1>6

LEMMA DirResolves ==
  ASSUME DirectoryInv, NEW r \in Directory!Requests, Directory!ResolveLaunch(r)
  PROVE  DirectoryInv'
<1> DEFINE candidates == {l \in Directory!Launches : Directory!BaseMint[l] = "mint" /\ Directory!Exists(l)}
           registered == {l \in candidates : stage[l] = "registered"}
           Found(l) == [requests[r] EXCEPT !.pc = "fetch", !.candidates = {l}]
           asks == [requests[r] EXCEPT !.pc = "pools", !.candidates = candidates]
<1>1. /\ r = "page" /\ requests[r].pc = "find"
      /\ UNCHANGED Directory!chainVars /\ UNCHANGED <<metadata, imageRetryAt>>
      /\ \/ launchByMint["mint"] # Directory!None /\ Directory!Goes(r, Found(launchByMint["mint"])) /\ UNCHANGED launchByMint
         \/ candidates = {} /\ Directory!Answers(r, "not found") /\ UNCHANGED launchByMint
         \/ candidates # {} /\ Directory!Goes(r, asks) /\ UNCHANGED launchByMint
         \/ \E l \in registered : Directory!Goes(r, Found(l)) /\ launchByMint' = [launchByMint EXCEPT !["mint"] = l]
  BY DEF Directory!ResolveLaunch
<1>2. requests[r] \in DirRequest /\ PageServes(requests[r]) /\ requests[r].failed = {}
  BY <1>1, DirAsked DEF PageServes
<1>3. /\ candidates \subseteq {"real", "shadow"} /\ registered \subseteq {"real"}
      /\ registered # {} => Owned
      /\ "real" \in requests[r].present => "real" \in candidates
  BY <1>2, DirNames DEF DirectoryInv, StagesHold, Directory!Exists, Owned, Directory!HasPool, PageServes, Listed
<1>4. \A l \in Directory!Launches :
         /\ Found(l) \in DirRequest /\ Found(l).pc = "fetch" /\ Found(l).candidates = {l}
         /\ Found(l).present = requests[r].present /\ Found(l).failed = {}
  BY <1>2 DEF DirRequest
<1>5. /\ asks \in DirRequest /\ asks.pc = "pools" /\ asks.candidates = candidates
      /\ asks.present = requests[r].present /\ asks.failed = {}
  <2>1. candidates \in SUBSET Directory!Launches
    OBVIOUS
  <2> HIDE DEF candidates
  <2> QED BY <1>2, <2>1 DEF DirRequest
<1> HIDE DEF candidates, registered, Found, asks
<1>6. PageServes(Found("real"))
  BY <1>2, <1>4, DirNames DEF PageServes, Waiting
<1>7. ImagesHold' /\ Owned' = Owned
  BY <1>1, DirKept, DirChain
<1>8. CASE launchByMint["mint"] # Directory!None /\ Directory!Goes(r, Found(launchByMint["mint"])) /\ UNCHANGED launchByMint
  <2>1. launchByMint["mint"] = "real"
    BY <1>8 DEF DirectoryInv, MemoryHolds
  <2> QED BY <1>1, <1>4, <1>6, <1>7, <1>8, <2>1, DirKept, DirWent, DirNames
<1>9. CASE candidates = {} /\ Directory!Answers(r, "not found") /\ UNCHANGED launchByMint
  <2>1. PICK q \in DirRequest :
           /\ Directory!Goes(r, q) /\ q.pc = "answered" /\ q.answer = "not found"
           /\ q.candidates = {} /\ q.present = requests[r].present /\ q.failed = requests[r].failed
    BY <1>9, DirAnswers DEF DirectoryInv
  <2>2. PageServes(q)
    BY <1>2, <1>3, <1>9, <2>1 DEF PageServes, Waiting
  <2> QED BY <1>1, <1>7, <1>9, <2>1, <2>2, DirKept, DirWent
<1>10. CASE candidates # {} /\ Directory!Goes(r, asks) /\ UNCHANGED launchByMint
  <2>1. PageServes(asks)
    BY <1>2, <1>3, <1>5 DEF PageServes, Waiting
  <2> QED BY <1>1, <1>5, <1>7, <1>10, <2>1, DirKept, DirWent
<1>11. CASE \E l \in registered : Directory!Goes(r, Found(l)) /\ launchByMint' = [launchByMint EXCEPT !["mint"] = l]
  <2>1. Owned /\ Directory!Goes(r, Found("real")) /\ launchByMint' = [launchByMint EXCEPT !["mint"] = "real"]
    BY <1>3, <1>11
  <2>2. MemoryHolds'
    BY <1>7, <2>1, DirNames DEF DirectoryInv, MemoryHolds
  <2> QED BY <1>1, <1>4, <1>6, <1>7, <2>1, <2>2, DirKept, DirWent, DirNames
<1> QED BY <1>1, <1>8, <1>9, <1>10, <1>11

LEMMA DirPooled ==
  ASSUME DirectoryInv, NEW r \in Directory!Requests, Directory!ResolveByPools(r)
  PROVE  DirectoryInv'
<1> DEFINE candidates == requests[r].candidates
           match == Directory!Match(candidates, {l \in candidates : Directory!HasPool(l)})
           q == [requests[r] EXCEPT !.pc = "fetch", !.candidates = match]
<1>1. /\ requests[r].pc = "pools"
      /\ UNCHANGED Directory!chainVars /\ UNCHANGED <<metadata, imageRetryAt>>
      /\ \/ Directory!Cardinality(match) # 1 /\ Directory!Answers(r, "ambiguous") /\ UNCHANGED launchByMint
         \/ /\ Directory!Cardinality(match) = 1
            /\ \E l \in match :
                 /\ Directory!Goes(r, q)
                 /\ launchByMint' = IF Directory!OwnsPool(l) THEN [launchByMint EXCEPT !["mint"] = l] ELSE launchByMint
  BY DEF Directory!ResolveByPools
<1>2. r = "page"
  BY <1>1, DirAsked, DirNames DEF ListHolds
<1>3. /\ requests[r] \in DirRequest /\ PageServes(requests[r]) /\ requests[r].failed = {}
      /\ candidates \subseteq {"real", "shadow"}
      /\ "real" \in requests[r].present => "real" \in candidates /\ Owned
  BY <1>1, <1>2, DirAsked, DirPools DEF PageServes, DirectoryInv
<1>4. /\ match \subseteq {"real", "shadow"}
      /\ "real" \in candidates /\ Owned => match = {"real"}
  <2>1. {l \in candidates : Directory!HasPool(l)} = IF "real" \in candidates /\ Owned THEN {"real"} ELSE {}
    BY <1>3, DirPools DEF DirectoryInv, Owned
  <2> HIDE DEF candidates
  <2> QED BY <1>3, <2>1 DEF Directory!Match
<1>5. Directory!Cardinality(match) = 1 <=> match \in {{"real"}, {"shadow"}}
  BY <1>4, DirCardinality
<1>6. /\ q \in DirRequest /\ q.pc = "fetch" /\ q.candidates = match
      /\ q.present = requests[r].present /\ q.failed = {}
  <2>1. match \in SUBSET Directory!Launches
    BY <1>4, DirNames
  <2> HIDE DEF match
  <2> QED BY <1>3, <2>1 DEF DirRequest
<1> HIDE DEF candidates, match, q
<1>7. ImagesHold' /\ Owned' = Owned
  BY <1>1, DirKept, DirChain
<1>8. CASE Directory!Cardinality(match) # 1 /\ Directory!Answers(r, "ambiguous") /\ UNCHANGED launchByMint
  <2>1. PICK p \in DirRequest :
           /\ Directory!Goes(r, p) /\ p.pc = "answered" /\ p.answer = "ambiguous"
           /\ p.candidates = {} /\ p.present = requests[r].present /\ p.failed = requests[r].failed
    BY <1>8, DirAnswers DEF DirectoryInv
  <2>2. "real" \notin requests[r].present
    BY <1>3, <1>4, <1>5, <1>8
  <2>3. PageServes(p)
    BY <1>3, <2>1, <2>2 DEF PageServes, Waiting
  <2> QED BY <1>1, <1>2, <1>7, <1>8, <2>1, <2>3, DirKept, DirWent
<1>9. CASE /\ Directory!Cardinality(match) = 1
           /\ \E l \in match :
                 /\ Directory!Goes(r, q)
                 /\ launchByMint' = IF Directory!OwnsPool(l) THEN [launchByMint EXCEPT !["mint"] = l] ELSE launchByMint
  <2>1. PICK l \in match :
           /\ Directory!Goes(r, q)
           /\ launchByMint' = IF Directory!OwnsPool(l) THEN [launchByMint EXCEPT !["mint"] = l] ELSE launchByMint
    BY <1>9
  <2>2. l \in {"real", "shadow"} /\ match \in {{"real"}, {"shadow"}} /\ (Directory!OwnsPool(l) => l = "real" /\ Owned)
    BY <1>4, <1>5, <1>9, DirPools DEF Directory!OwnsPool, DirectoryInv, Owned
  <2>3. PageServes(q)
    BY <1>3, <1>4, <1>6, <2>2 DEF PageServes, Waiting
  <2>4. MemoryHolds'
    BY <1>7, <2>1, <2>2, DirNames DEF DirectoryInv, MemoryHolds
  <2> QED BY <1>1, <1>2, <1>6, <1>7, <2>1, <2>3, <2>4, DirKept, DirWent
<1> QED BY <1>1, <1>8, <1>9

\* Summaries are shown; the imitations of the brand not in a list.
LEMMA DirSummarizes ==
  ASSUME DirectoryInv, NEW r \in Directory!Requests, NEW request \in DirRequest, NEW named,
         Directory!Summarize(r, request, named),
         r = "page" => PageReady(request),
         r = "list" => ListReady(request) /\ \A l \in request.candidates : Directory!BaseMint[l] \in named
  PROVE  \E q \in DirRequest :
           Directory!Goes(r, q) /\ (r = "page" => PageServes(q)) /\ (r = "list" => ListHolds(q))
<1>1. PICK summaries \in SUBSET Directory!Launches, answer \in {"shown", "not found"} :
        /\ summaries = IF r = "list" THEN {l \in request.candidates : ~Directory!IsImpersonation(l, named)}
                       ELSE request.candidates
        /\ answer = "shown" <=> r = "list" \/ summaries # {}
        /\ Directory!Replies(r, request, answer, summaries)
  <2> DEFINE found == IF r = "list" THEN {l \in request.candidates : ~Directory!IsImpersonation(l, named)}
                      ELSE request.candidates
             told == IF r = "list" \/ found # {} THEN "shown" ELSE "not found"
  <2>1. found \in SUBSET Directory!Launches /\ told \in {"shown", "not found"}
    BY DEF DirRequest
  <2>2. Directory!Replies(r, request, told, found)
    BY DEF Directory!Summarize
  <2>3. told = "shown" <=> r = "list" \/ found # {}
    OBVIOUS
  <2>4. \E summaries \in SUBSET Directory!Launches : summaries = found
    BY <2>1
  <2> HIDE DEF told
  <2> QED BY <2>1, <2>2, <2>3, <2>4
<1>2. PICK q \in DirRequest :
        /\ Directory!Goes(r, q) /\ q.pc = "answered" /\ q.answer = answer /\ q.candidates = summaries
        /\ q.present = request.present /\ q.failed = request.failed
  <2>1. answer \in DirTold /\ Directory!Goes(r, Closed(request, answer, summaries))
    BY <1>1 DEF DirTold, Directory!Replies, Closed
  <2>2. IsClosed(Closed(request, answer, summaries), request, answer, summaries)
    BY <2>1, DirCloses
  <2> QED BY <2>1, <2>2 DEF IsClosed
<1>3. ASSUME r = "page" PROVE PageServes(q)
  BY <1>1, <1>2, <1>3 DEF PageServes, PageReady, Waiting
<1>4. ASSUME r = "list" PROVE ListHolds(q)
  <2>1. summaries = request.candidates \ Imitating
    BY <1>1, <1>4 DEF Directory!IsImpersonation, Imitating, DirRequest
  <2>2. answer = "shown"
    BY <1>1, <1>4
  <2> QED BY <1>2, <1>4, <2>1, <2>2 DEF ListHolds, ListReady, Waiting
<1> QED BY <1>2, <1>3, <1>4

\* The metadata accounts are asked for, unless every name is known.
LEMMA DirAsksMetadata ==
  ASSUME DirectoryInv, NEW r \in Directory!Requests, NEW request \in DirRequest,
         Directory!AsksMetadata(r, request),
         r = "page" => PageReady(request), r = "list" => ListReady(request)
  PROVE  \E q \in DirRequest :
           Directory!Goes(r, q) /\ (r = "page" => PageServes(q)) /\ (r = "list" => ListHolds(q))
<1>1. CASE Directory!Unread(request.mints) # {}
  <2> DEFINE q == [request EXCEPT !.pc = "metadata", !.docs = {}]
  <2>1. Directory!Goes(r, q)
    BY <1>1 DEF Directory!AsksMetadata
  <2>2. /\ q \in DirRequest /\ q.pc = "metadata" /\ q.candidates = request.candidates /\ q.mints = request.mints
        /\ q.present = request.present /\ q.failed = request.failed
    BY DEF DirRequest
  <2>3. (r = "page" => PageServes(q)) /\ (r = "list" => ListHolds(q))
    <3> HIDE DEF q
    <3> QED BY <2>2 DEF PageServes, ListHolds, PageReady, ListReady, Waiting
  <2> HIDE DEF q
  <2> QED BY <2>1, <2>2, <2>3
<1>2. CASE Directory!Unread(request.mints) = {}
  <2>1. Directory!Summarize(r, request, Directory!Mints \ Directory!Unread(Directory!Mints))
    BY <1>2 DEF Directory!AsksMetadata
  <2>2. \A l \in request.candidates : Directory!BaseMint[l] \in request.mints =>
           Directory!BaseMint[l] \in Directory!Mints \ Directory!Unread(Directory!Mints)
    BY <1>2 DEF Directory!Unread, DirRequest
  <2>3. r = "list" => \A l \in request.candidates :
           Directory!BaseMint[l] \in Directory!Mints \ Directory!Unread(Directory!Mints)
    BY <2>2 DEF ListReady
  <2> QED BY <2>1, <2>3, DirSummarizes
<1> QED BY <1>1, <1>2

LEMMA DirFetches ==
  ASSUME DirectoryInv, NEW r \in Directory!Requests, Directory!FetchLaunchStates(r)
  PROVE  DirectoryInv'
<1>1. /\ requests[r].pc = "fetch" /\ UNCHANGED Directory!chainVars /\ UNCHANGED <<launchByMint, metadata>>
  BY DEF Directory!FetchLaunchStates
<1>2. PICK failed \in SUBSET requests[r].candidates :
         LET read == requests[r].candidates \ failed IN
          /\ failed # {} => r = "list" /\ misses < MaxFailures
          /\ misses' = IF failed = {} THEN misses ELSE misses + 1
          /\ IF Directory!Settled(read, failed)
             THEN Directory!RetryImages(r, [requests[r] EXCEPT !.failed = failed, !.candidates = Directory!Summarized(read),
                                                              !.mints = {Directory!BaseMint[l] : l \in read}])
             ELSE /\ Directory!Replies(r, [requests[r] EXCEPT !.failed = failed], "none read", {})
                  /\ UNCHANGED imageRetryAt
  BY DEF Directory!FetchLaunchStates
<1> DEFINE read == requests[r].candidates \ failed
           mints == {Directory!BaseMint[l] : l \in read}
           q == [requests[r] EXCEPT !.failed = failed, !.candidates = Directory!Summarized(read), !.mints = mints]
           gone == [requests[r] EXCEPT !.failed = failed]
<1>3. requests[r] \in DirRequest /\ requests[r].candidates \subseteq Directory!Launches
  BY DirAsked DEF DirRequest
<1>4. /\ read \subseteq Directory!Launches /\ failed \subseteq Directory!Launches
      /\ mints \subseteq Directory!Mints
      /\ Directory!Summarized(read) = read \cap Listed
  BY <1>3 DEF Directory!Mints, Directory!Summarized, Listed
<1>5. MemoryHolds' /\ Named \subseteq Named'
  BY <1>1, DirKept
<1>6. CASE Directory!Settled(read, failed)
  <2>1. Directory!RetryImages(r, q)
    BY <1>2, <1>6
  <2>2. /\ q \in DirRequest /\ q.candidates = read \cap Listed /\ q.failed = failed
        /\ q.present = requests[r].present /\ q.mints = mints
    <3>1. PICK kept \in SUBSET Directory!Launches : kept = Directory!Summarized(read) /\ kept = read \cap Listed
      BY <1>4
    <3>2. q = [requests[r] EXCEPT !.failed = failed, !.candidates = kept, !.mints = mints]
      BY <3>1
    <3>3. mints \in SUBSET Directory!Mints /\ failed \in SUBSET Directory!Launches
      BY <1>4
    <3> HIDE DEF read, mints, q
    <3> QED BY <1>3, <3>1, <3>2, <3>3 DEF DirRequest
  <2>3. r = "page" => PageReady(q)
    <3>1. SUFFICES ASSUME r = "page" PROVE PageReady(q)
      OBVIOUS
    <3>2. PageServes(requests[r]) /\ failed = {} /\ read = requests[r].candidates
      BY <1>2, <3>1, DirAsked
    <3>3. read \in {{"real"}, {"shadow"}} /\ requests[r].present \subseteq Listed
          /\ ("real" \in requests[r].present => read = {"real"})
      BY <1>1, <3>2 DEF PageServes
    <3>4. "shadow" \notin Listed /\ ("real" \in Listed => Owned)
      BY DirPools DEF DirectoryInv, Listed
    <3> HIDE DEF read, q
    <3> QED BY <2>2, <3>2, <3>3, <3>4 DEF PageReady
  <2>4. r = "list" => ListReady(q)
    <3>1. SUFFICES ASSUME r = "list" PROVE ListReady(q)
      OBVIOUS
    <3>2. requests[r].present \subseteq requests[r].candidates \cap Listed
      BY <1>1, <3>1, DirAsked DEF ListHolds
    <3>3. \A l \in read \cap Listed : Directory!HasPool(l) /\ Directory!BaseMint[l] \in mints
      BY DEF Listed
    <3> HIDE DEF q, mints
    <3> QED BY <2>2, <3>2, <3>3 DEF ListReady
  <2>5. ImagesHold'
    <3>1. imageRetryAt' = [mint \in Directory!Mints |->
             IF mint \in Directory!Due(q.mints) THEN ImageRetry ELSE imageRetryAt[mint]]
      BY <2>1 DEF Directory!RetryImages
    <3>2. ImageRetry \in -1 .. ImageRetry
      BY DirNames
    <3> HIDE DEF q
    <3> QED BY <1>1, <3>1, <3>2 DEF DirectoryInv, ImagesHold
  <2> HIDE DEF q
  <2>6. \E p \in DirRequest :
           Directory!Goes(r, p) /\ (r = "page" => PageServes(p)) /\ (r = "list" => ListHolds(p))
    <3>1. CASE Directory!Due(q.mints) # {}
      <4> DEFINE p == [q EXCEPT !.pc = "retry", !.docs = Directory!Due(q.mints)]
      <4>1. Directory!Goes(r, p)
        BY <2>1, <3>1 DEF Directory!RetryImages
      <4>2. Directory!Due(q.mints) \subseteq Directory!Mints
        BY <2>2 DEF Directory!Due, DirRequest
      <4>3. /\ p \in DirRequest /\ p.pc = "retry" /\ p.candidates = q.candidates /\ p.mints = q.mints
            /\ p.present = q.present /\ p.failed = q.failed
        BY <2>2, <4>2 DEF DirRequest
      <4>4. (r = "page" => PageServes(p)) /\ (r = "list" => ListHolds(p))
        <5> HIDE DEF p
        <5> QED BY <2>3, <2>4, <4>3 DEF PageServes, ListHolds, PageReady, ListReady, Waiting
      <4> HIDE DEF p
      <4> QED BY <4>1, <4>3, <4>4
    <3>2. CASE Directory!Due(q.mints) = {}
      <4>1. Directory!AsksMetadata(r, q)
        BY <2>1, <3>2 DEF Directory!RetryImages
      <4> QED BY <2>2, <2>3, <2>4, <4>1, DirAsksMetadata
    <3> QED BY <3>1, <3>2
  <2> QED BY <1>1, <1>5, <2>5, <2>6, DirWent
<1>7. CASE ~Directory!Settled(read, failed)
  <2>1. Directory!Replies(r, gone, "none read", {}) /\ UNCHANGED imageRetryAt
    BY <1>2, <1>7
  <2>2. failed # {} /\ read = {} /\ r = "list"
    BY <1>2, <1>7, DirNames DEF Directory!Settled
  <2>3. gone \in DirRequest /\ gone.failed = failed /\ gone.present = requests[r].present
    <3>1. failed \in SUBSET Directory!Launches
      BY <1>4
    <3> QED BY <1>3, <3>1 DEF DirRequest
  <2>4. ListHolds(requests[r]) /\ requests[r].present \subseteq requests[r].candidates
    BY <1>1, <2>2, DirAsked DEF ListHolds
  <2> HIDE DEF gone
  <2>5. PICK p \in DirRequest :
           /\ Directory!Goes(r, p) /\ p.pc = "answered" /\ p.answer = "none read" /\ p.candidates = {}
           /\ p.present = gone.present /\ p.failed = gone.failed
    <3>1. "none read" \in DirTold /\ {} \in SUBSET Directory!Launches
      BY DEF DirTold
    <3>2. Directory!Goes(r, Closed(gone, "none read", {}))
      BY <2>1 DEF Directory!Replies, Closed
    <3>3. IsClosed(Closed(gone, "none read", {}), gone, "none read", {})
      BY <2>3, <3>1, DirCloses
    <3> QED BY <3>2, <3>3 DEF IsClosed
  <2>6. ListHolds(p)
    BY <2>2, <2>3, <2>4, <2>5 DEF ListHolds, Waiting
  <2> QED BY <1>1, <1>5, <2>1, <2>2, <2>5, <2>6, DirKept, DirWent, DirNames
<1> QED BY <1>6, <1>7

LEMMA DirLoads ==
  ASSUME DirectoryInv, NEW r \in Directory!Requests, Directory!LoadMetadata(r)
  PROVE  DirectoryInv'
<1> DEFINE found == {mint \in Directory!Unread(requests[r].mints) : Directory!Owners(mint) # {}}
           q == [requests[r] EXCEPT !.pc = "documents", !.docs = found]
           named == Directory!Mints \ Directory!Unread(Directory!Mints)
<1>1. /\ requests[r].pc = "metadata" /\ UNCHANGED Directory!chainVars
      /\ UNCHANGED <<launchByMint, metadata, imageRetryAt>>
      /\ \/ found # {} /\ Directory!Goes(r, q)
         \/ found = {} /\ Directory!Summarize(r, requests[r], named)
  BY DEF Directory!LoadMetadata
<1>2. /\ requests[r] \in DirRequest /\ found \subseteq Directory!Mints
      /\ r = "page" => PageReady(requests[r])
      /\ r = "list" => ListReady(requests[r])
  BY <1>1, DirAsked DEF DirRequest, PageServes, ListHolds, Waiting, Directory!Unread
<1>3. ASSUME r = "list", NEW l \in requests[r].candidates PROVE Directory!BaseMint[l] \in found \cup named
  <2>1. /\ l \in Directory!Launches /\ Directory!HasPool(l) /\ Directory!BaseMint[l] \in requests[r].mints
        /\ Directory!BaseMint[l] \in Directory!Mints
    BY <1>2, <1>3 DEF DirRequest, ListReady, Directory!Mints
  <2>2. l \in Directory!Owners(Directory!BaseMint[l])
    BY <2>1 DEF Directory!Owners
  <2> QED BY <2>1, <2>2 DEF Directory!Unread
<1>4. named = Named
  BY DEF Directory!Unread, Named
<1>5. \E p \in DirRequest :
         Directory!Goes(r, p) /\ (r = "page" => PageServes(p)) /\ (r = "list" => ListHolds(p))
  <2>1. CASE found # {} /\ Directory!Goes(r, q)
    <3> HIDE DEF found, named
    <3>1. /\ q \in DirRequest /\ q.pc = "documents" /\ q.docs = found /\ q.candidates = requests[r].candidates
          /\ q.mints = requests[r].mints /\ q.present = requests[r].present /\ q.failed = requests[r].failed
      BY <1>2 DEF DirRequest
    <3> HIDE DEF q
    <3>2. r = "page" => PageServes(q)
      BY <1>2, <3>1 DEF PageServes, PageReady, Waiting
    <3>3. r = "list" => ListHolds(q)
      BY <1>2, <1>3, <1>4, <3>1 DEF ListHolds, ListReady, Waiting
    <3> QED BY <2>1, <3>1, <3>2, <3>3
  <2>2. CASE found = {} /\ Directory!Summarize(r, requests[r], named)
    <3>1. r = "list" => \A l \in requests[r].candidates : Directory!BaseMint[l] \in named
      BY <1>3, <2>2
    <3> HIDE DEF named
    <3> QED BY <1>2, <2>2, <3>1, DirSummarizes
  <2> QED BY <1>1, <2>1, <2>2
<1> QED BY <1>1, <1>5, DirKept, DirWent

LEMMA DirReads ==
  ASSUME DirectoryInv, NEW r \in Directory!Requests, Directory!ReadDocuments(r)
  PROVE  DirectoryInv'
<1> DEFINE named == (Directory!Mints \ Directory!Unread(Directory!Mints)) \cup requests[r].docs
<1>1. /\ requests[r].pc \in {"retry", "documents"}
      /\ IF requests[r].pc = "retry" THEN Directory!AsksMetadata(r, requests[r])
         ELSE Directory!Summarize(r, requests[r], named)
      /\ UNCHANGED Directory!chainVars /\ UNCHANGED launchByMint
  BY DEF Directory!ReadDocuments
<1>2. PICK read \in [Directory!Mints -> {"image", "blank"}] :
        /\ metadata' = [mint \in Directory!Mints |->
              IF mint \in requests[r].docs THEN read[mint] ELSE metadata[mint]]
        /\ imageRetryAt' = [mint \in Directory!Mints |->
              IF mint \in requests[r].docs THEN Directory!RetryAt(mint, read[mint]) ELSE imageRetryAt[mint]]
  BY DEF Directory!ReadDocuments
<1>3. metadata' \in [Directory!Mints -> {"unread", "blank", "image"}] /\ Named \subseteq Named'
  BY <1>2 DEF DirectoryInv, ImagesHold, Named
<1>4. imageRetryAt' \in [Directory!Mints -> -1 .. ImageRetry]
  <2>1. \A mint, image : Directory!RetryAt(mint, image) \in -1 .. ImageRetry
    BY DirNames DEF Directory!RetryAt
  <2> QED BY <1>2, <2>1 DEF DirectoryInv, ImagesHold
<1>5. ImagesHold' /\ MemoryHolds'
  BY <1>1, <1>3, <1>4, DirKept DEF ImagesHold
<1>6. /\ requests[r] \in DirRequest
      /\ r = "page" => PageReady(requests[r])
      /\ r = "list" => ListReady(requests[r])
  BY <1>1, DirAsked DEF PageServes, ListHolds, Waiting
<1>7. \E q \in DirRequest :
         Directory!Goes(r, q) /\ (r = "page" => PageServes(q)) /\ (r = "list" => ListHolds(q))
  <2>1. CASE requests[r].pc = "retry"
    BY <1>1, <1>6, <2>1, DirAsksMetadata
  <2>2. CASE requests[r].pc = "documents"
    <3>1. Named \subseteq Directory!Mints \ Directory!Unread(Directory!Mints)
      BY DEF Named, Directory!Unread
    <3>2. r = "list" => \A l \in requests[r].candidates : Directory!BaseMint[l] \in named
      BY <2>2, <3>1, DirAsked DEF ListHolds
    <3>3. Directory!Summarize(r, requests[r], named)
      BY <1>1, <2>2
    <3> HIDE DEF named
    <3> QED BY <1>6, <3>2, <3>3, DirSummarizes
  <2> QED BY <1>1, <2>1, <2>2
<1> QED BY <1>1, <1>3, <1>5, <1>7, DirWent

LEMMA DirSteps == DirectoryInv /\ Directory!Next => DirectoryInv'
<1> SUFFICES ASSUME DirectoryInv, Directory!Next PROVE DirectoryInv'
  OBVIOUS
<1>1. CASE \E l \in Directory!Launches : Directory!Advance(l)
  BY <1>1, DirAdvances
<1>2. CASE Directory!Serve \/ Directory!Tick
  BY <1>2, DirTicks
<1>3. CASE \E r \in Directory!Requests : Directory!Begin(r) \/ Directory!Step(r)
  <2>1. PICK r \in Directory!Requests : Directory!Begin(r) \/ Directory!Step(r)
    BY <1>3
  <2>2. \/ Directory!Begin(r) \/ Directory!ReadFails(r) \/ Directory!ListLaunches(r) \/ Directory!ResolveLaunch(r)
        \/ Directory!ResolveByPools(r) \/ Directory!FetchLaunchStates(r) \/ Directory!LoadMetadata(r)
        \/ Directory!ReadDocuments(r)
    BY <2>1 DEF Directory!Step
  <2> QED BY <2>2, DirBegins, DirFails, DirLists, DirResolves, DirPooled, DirFetches, DirLoads, DirReads
<1> QED BY <1>1, <1>2, <1>3 DEF Directory!Next

LEMMA DirRests == DirectoryInv /\ UNCHANGED directoryVars => DirectoryInv'
<1> SUFFICES ASSUME DirectoryInv, UNCHANGED directoryVars PROVE DirectoryInv'
  OBVIOUS
<1>1. UNCHANGED Directory!chainVars /\ UNCHANGED <<launchByMint, metadata, imageRetryAt, requests>>
  BY DEF directoryVars, Directory!chainVars
<1>2. StagesHold' /\ MemoryHolds' /\ ImagesHold' /\ DirGrows
  BY <1>1, DirChain, DirKept
<1>3. RequestsHold'
  BY <1>1, <1>2, DirStays DEF DirectoryInv
<1> QED BY <1>2, <1>3 DEF DirectoryInv

\* What the properties ask.
LEMMA DirHolds ==
    DirectoryInv => /\ Directory!TypeOK /\ Directory!OnlyOwnersShown
                    /\ Directory!OwnerFound /\ Directory!ImitationsUnlisted
<1> SUFFICES ASSUME DirectoryInv
             PROVE  /\ Directory!TypeOK /\ Directory!OnlyOwnersShown
                    /\ Directory!OwnerFound /\ Directory!ImitationsUnlisted
  OBVIOUS
<1>1. PageServes(requests["page"]) /\ ListHolds(requests["list"])
  BY DEF DirectoryInv, RequestsHold
<1>2. Directory!TypeOK
  <2>1. \A r \in Directory!Requests : requests[r] \in DirRequest
    BY DEF DirectoryInv, RequestsHold
  <2> QED BY <2>1 DEF DirectoryInv, MemoryHolds, ImagesHold, DirRequest, Directory!TypeOK
<1>3. /\ Directory!Owners("plain") = {"other"} /\ (Owned => Directory!Owners("mint") = {"real"})
  BY DirNames, DirPools DEF Directory!Owners, DirectoryInv, Owned
<1>4. Directory!OnlyOwnersShown
  BY <1>1, <1>3, DirNames DEF Directory!OnlyOwnersShown, Directory!Answered, PageServes, DirectoryInv, MemoryHolds
<1>5. requests["list"] \in DirRequest
  BY DirNames DEF DirectoryInv, RequestsHold
<1>6. Directory!OwnerFound
  BY <1>1, <1>5 DEF Directory!OwnerFound, Directory!Answered, PageServes, ListHolds, DirRequest, Imitating
<1>7. Directory!ImitationsUnlisted
  BY <1>1, <1>5 DEF Directory!ImitationsUnlisted, Directory!Answered, ListHolds, DirRequest, Imitating
<1> QED BY <1>2, <1>4, <1>6, <1>7

-----------------------------------------------------------------------------
(***************************************************************************)
(* ImageFiles: a file was well-formed first at its end, or at its declared *)
(* size.                                                                   *)
(***************************************************************************)

ImageInv ==
    /\ file.format \in Images!Formats /\ file.blocks \in Seq(Images!Blocks)
    /\ DOMAIN file = {"format", "declared", "blocks"}
    /\ taken \in 0 .. Len(file.blocks)
    /\ taken # 0 => IF file.format = "webp" THEN file.declared = taken ELSE file.blocks[taken] = "end"

LEMMA ImageStarts == Images!Init => ImageInv
<1> SUFFICES ASSUME Images!Init PROVE ImageInv
  OBVIOUS
<1>1. /\ file.format \in Images!Formats /\ file.blocks = <<>> /\ DOMAIN file = {"format", "declared", "blocks"}
      /\ taken = 0
  BY DEF Images!Init
<1>2. <<>> \in Seq(Images!Blocks) /\ 0 \in 0 .. Len(<<>>)
  OBVIOUS
<1> QED BY <1>1, <1>2 DEF ImageInv

\* What InspectImage asks of the last block, and of the size.
LEMMA InspectedEnds ==
  ASSUME NEW f, f.format \in Images!Formats, f.blocks \in Seq(Images!Blocks), Images!InspectImage(f)
  PROVE  IF f.format = "webp" THEN f.declared = Len(f.blocks)
         ELSE /\ Len(f.blocks) \in Nat \ {0} /\ f.blocks[Len(f.blocks)] = "end"
              /\ \A i \in 1 .. Len(f.blocks) - 1 : f.blocks[i] # "end"
<1>1. CASE f.format = "webp"
  BY <1>1 DEF Images!InspectImage, Images!WebpSize
<1>2. CASE f.format # "webp"
  <2>1. Images!EndsOnce(f.blocks)
    BY <1>2 DEF Images!InspectImage, Images!PngSize, Images!JpegSize, Images!GifSize, Images!Formats
  <2> QED BY <1>2, <2>1, EmptySeq DEF Images!EndsOnce, Images!Last
<1> QED BY <1>1, <1>2

LEMMA ImageSteps == ImageInv /\ Images!Next => ImageInv'
<1> SUFFICES ASSUME ImageInv, Images!Next PROVE ImageInv'
  OBVIOUS
<1>1. PICK block \in Images!Blocks : Images!Grow(block)
  BY DEF Images!Next
<1>2. /\ file' = [file EXCEPT !.blocks = Append(@, block)]
      /\ taken' = IF taken = 0 /\ Images!InspectImage(file') THEN Len(file'.blocks) ELSE taken
  BY <1>1 DEF Images!Grow
<1>3. /\ file'.format = file.format /\ file'.declared = file.declared
      /\ file'.blocks = Append(file.blocks, block) /\ DOMAIN file' = {"format", "declared", "blocks"}
  BY <1>2 DEF ImageInv
<1>4. /\ Append(file.blocks, block) \in Seq(Images!Blocks) /\ Len(file.blocks) \in Nat
      /\ Len(Append(file.blocks, block)) = Len(file.blocks) + 1
      /\ \A i \in 1 .. Len(file.blocks) : Append(file.blocks, block)[i] = file.blocks[i]
  BY DEF ImageInv
<1>5. CASE taken = 0 /\ Images!InspectImage(file')
  <2>1. taken' = Len(file'.blocks) /\ file'.blocks \in Seq(Images!Blocks) /\ file'.format \in Images!Formats
    BY <1>2, <1>3, <1>4, <1>5 DEF ImageInv
  <2>2. IF file'.format = "webp" THEN file'.declared = Len(file'.blocks)
        ELSE file'.blocks[Len(file'.blocks)] = "end"
    BY <1>5, <2>1, InspectedEnds
  <2> QED BY <1>3, <1>4, <2>1, <2>2 DEF ImageInv
<1>6. CASE ~(taken = 0 /\ Images!InspectImage(file'))
  <2>1. taken' = taken /\ taken \in 0 .. Len(file.blocks)
    BY <1>2, <1>6 DEF ImageInv
  <2>2. taken \in 0 .. Len(file.blocks) + 1 /\ (taken # 0 => taken \in 1 .. Len(file.blocks))
    BY <1>4, <2>1
  <2> QED BY <1>3, <1>4, <2>1, <2>2 DEF ImageInv
<1> QED BY <1>5, <1>6

LEMMA ImageRests == ImageInv /\ UNCHANGED imageVars => ImageInv'
BY DEF ImageInv, imageVars

LEMMA ImageHolds == ImageInv => Images!NothingAppended
<1> SUFFICES ASSUME ImageInv, taken # 0, Images!InspectImage(file) PROVE Len(file.blocks) = taken
  BY DEF Images!NothingAppended
<1>1. IF file.format = "webp" THEN file.declared = Len(file.blocks)
      ELSE \A i \in 1 .. Len(file.blocks) - 1 : file.blocks[i] # "end"
  BY InspectedEnds DEF ImageInv
<1>2. Len(file.blocks) \in Nat /\ taken \in 1 .. Len(file.blocks)
  BY DEF ImageInv
<1>3. CASE file.format = "webp"
  BY <1>1, <1>3 DEF ImageInv
<1>4. CASE file.format # "webp"
  <2>1. taken \notin 1 .. Len(file.blocks) - 1
    BY <1>1, <1>4 DEF ImageInv
  <2> QED BY <1>2, <2>1
<1> QED BY <1>3, <1>4

-----------------------------------------------------------------------------
(***************************************************************************)
(* The launch programs: the proofs of LaunchFlow_proofs, of the command    *)
(* (Flow) and of the application (Page).                                   *)
(***************************************************************************)
Flow == INSTANCE LaunchFlow_proofs WITH
           chain <- cliChain, plans <- cliPlans, transit <- cliTransit, late <- cliLate, faults <- cliFaults,
           MaxFaults <- MaxCliFaults
Page == INSTANCE LaunchFlow_proofs

LEMMA CliBounds == AppAssumption => MaxLaunches \in Nat /\ MaxCliFaults \in Nat
BY LaunchTxsAssumption DEF AppAssumption

LEMMA CliStarts == AppAssumption /\ Cli!CliInit => Flow!CliIInv
<1>1. Cli!CliInit => Flow!CliInit
  BY DEF Cli!CliInit, Flow!CliInit, Cli!LaunchTxsInit, Flow!LaunchTxsInit, Cli!Launches, Flow!Launches,
         Cli!NoTx, Flow!NoTx, Cli!CliOff, Flow!CliOff
<1> QED BY <1>1, CliBounds, Flow!CliInitInv

LEMMA CliSteps ==
  /\ Cli!Create <=> Flow!Create
  /\ Cli!Resume <=> Flow!Resume
  /\ Cli!CliSend <=> Flow!CliSend
  /\ Cli!Exit <=> Flow!Exit
  /\ Cli!Crash <=> Flow!Crash
  /\ Cli!Sell <=> Flow!Sell
  /\ Cli!Lands <=> Flow!Lands
  /\ Cli!Expires <=> Flow!Expires
<1>1. Cli!Create <=> Flow!Create
  BY DEF Cli!Create, Cli!Launches, Cli!Fresh, Cli!Plans, Cli!WriteSession, Flow!Create, Flow!Launches,
         Flow!Fresh, Flow!Plans, Flow!WriteSession
<1>2. Cli!Resume <=> Flow!Resume
  BY DEF Cli!Resume, Cli!Launches, Cli!Plans, Cli!Pending, Cli!Fault, Flow!Resume, Flow!Launches, Flow!Plans,
         Flow!Pending, Flow!Fault
<1>3. Cli!CliSend <=> Flow!CliSend
  BY DEF Cli!CliSend, Cli!FirstOf, Cli!Confirmed, Cli!Refused, Cli!Unheard, Cli!Valid, Cli!After,
         Cli!Bought, Cli!Fault, Cli!CliOff, Cli!NoTx, Flow!CliSend, Flow!FirstOf, Flow!Confirmed,
         Flow!Refused, Flow!Unheard, Flow!Valid, Flow!After, Flow!Bought, Flow!Fault, Flow!CliOff,
         Flow!NoTx
<1>4. Cli!Exit <=> Flow!Exit
  BY DEF Cli!Exit, Flow!Exit
<1>5. Cli!Crash <=> Flow!Crash
  BY DEF Cli!Crash, Cli!Fault, Cli!CliOff, Flow!Crash, Flow!Fault, Flow!CliOff
<1>6. Cli!Sell <=> Flow!Sell
  BY DEF Cli!Sell, Cli!Launches, Cli!Fault, Cli!cliVars, Flow!Sell, Flow!Launches, Flow!Fault,
         Flow!cliVars
<1>7. Cli!Lands <=> Flow!Lands
  BY DEF Cli!Lands, Cli!NoTx, Cli!Valid, Cli!After, Cli!Bought, Flow!Lands, Flow!NoTx, Flow!Valid,
         Flow!After, Flow!Bought
<1>8. Cli!Expires <=> Flow!Expires
  BY DEF Cli!Expires, Cli!NoTx, Flow!Expires, Flow!NoTx
<1> QED BY <1>1, <1>2, <1>3, <1>4, <1>5, <1>6, <1>7, <1>8

LEMMA PageSteps ==
  /\ Submit <=> Page!Submit
  /\ Retry <=> Page!Retry
  /\ StartOver <=> Page!StartOver
  /\ PrepareFails <=> Page!PrepareFails
  /\ Prepare <=> Page!Prepare
  /\ PrepareRetry <=> Page!PrepareRetry
  /\ Check <=> Page!Check
  /\ Send <=> Page!Send
  /\ Created <=> Page!Created
  /\ Reload <=> Page!Reload
  /\ Lands <=> Page!Lands
  /\ Expires <=> Page!Expires
<1>1. Submit <=> Page!Submit
  BY DEF Submit, Launches, Fresh, Page!Submit, Page!Launches, Page!Fresh, F!Idle, Page!F!Idle
<1>2. Retry <=> Page!Retry
  BY DEF Retry, Page!Retry
<1>3. StartOver <=> Page!StartOver
  BY DEF StartOver, Page!StartOver, F!Idle, Page!F!Idle
<1>4. PrepareFails <=> Page!PrepareFails
  BY DEF PrepareFails, Fault, Ends, Off, Page!PrepareFails, Page!Fault, Page!Ends, Page!Off, F!Fail,
         Page!F!Fail
<1>5. Prepare <=> Page!Prepare
  BY DEF Prepare, Launches, Fresh, Plans, Page!Prepare, Page!Launches, Page!Fresh, Page!Plans, F!Start,
         F!Running, Page!F!Start, Page!F!Running
<1>6. PrepareRetry <=> Page!PrepareRetry
  BY DEF PrepareRetry, Page!PrepareRetry, F!Start, F!Running, Page!F!Start, Page!F!Running
<1>7. Check <=> Page!Check
  BY DEF Check, Todo, FirstOf, AlreadyDone, Remembers, Fault, Ends, Off, Page!Check, Page!Todo,
         Page!FirstOf, Page!AlreadyDone, Page!Remembers, Page!Fault, Page!Ends, Page!Off, F!Open,
         F!Running, F!Move, F!StepStarted, F!StepSucceeded, F!StepFailed, F!Fail, Page!F!Open,
         Page!F!Running, Page!F!Move, Page!F!StepStarted, Page!F!StepSucceeded, Page!F!StepFailed,
         Page!F!Fail
<1>8. Send <=> Page!Send
  BY DEF Send, Todo, FirstOf, Confirmed, Refused, Unheard, Valid, After, Bought, Fault, NoTx, Remembers,
         Ends, Off, Page!Send, Page!Todo, Page!FirstOf, Page!Confirmed, Page!Refused, Page!Unheard,
         Page!Valid, Page!After, Page!Bought, Page!Fault, Page!NoTx, Page!Remembers, Page!Ends,
         Page!Off, F!Open, F!Running, F!Move, F!StepSucceeded, F!StepFailed, F!Fail, Page!F!Open,
         Page!F!Running, Page!F!Move, Page!F!StepSucceeded, Page!F!StepFailed, Page!F!Fail
<1>9. Created <=> Page!Created
  BY DEF Restrict, Page!Restrict, Created, Todo, Page!Created, Page!Todo, F!Finish, F!Running, Page!F!Finish, Page!F!Running
<1>10. Reload <=> Page!Reload
  BY DEF Reload, Fault, Off, Page!Reload, Page!Fault, Page!Off, F!Idle, Page!F!Idle
<1>11. Lands <=> Page!Lands
  BY DEF Lands, NoTx, Valid, After, Bought, Page!Lands, Page!NoTx, Page!Valid, Page!After, Page!Bought
<1>12. Expires <=> Page!Expires
  BY DEF Expires, NoTx, Page!Expires, Page!NoTx
<1> QED BY <1>1, <1>2, <1>3, <1>4, <1>5, <1>6, <1>7, <1>8, <1>9, <1>10, <1>11, <1>12

LEMMA CliKeeps == AppAssumption /\ Flow!CliIInv /\ (Cli!CliNext \/ UNCHANGED cliVars) => Flow!CliIInv'
<1>1. Cli!CliNext => Flow!CliNext
  <2>1. UNCHANGED Cli!cliVars <=> UNCHANGED Flow!cliVars
    BY DEF Cli!cliVars, Flow!cliVars
  <2> QED BY <2>1, CliSteps DEF Cli!CliNext, Flow!CliNext
<1>2. UNCHANGED cliVars => UNCHANGED Flow!cliLaunchVars
  BY DEF cliVars, Flow!cliLaunchVars, Flow!cliVars
<1> QED BY <1>1, <1>2, CliBounds, Flow!CliNextInv

LEMMA CliHolds == AppAssumption /\ Flow!CliIInv => Cli!CliTypeOK /\ Cli!NothingOrphaned /\ Cli!ExitMeansComplete
<1>1. Flow!CliTypeOK => Cli!CliTypeOK
  BY DEF Flow!CliTypeOK, Cli!CliTypeOK, Flow!LaunchTxsTypeOK, Cli!LaunchTxsTypeOK, Flow!Launches,
         Cli!Launches, Flow!Labels, Cli!Labels, Flow!AllPlans, Cli!AllPlans, Flow!Plans, Cli!Plans,
         Flow!NoTx, Cli!NoTx
<1>2. Flow!NothingOrphaned => Cli!NothingOrphaned
  BY DEF Flow!NothingOrphaned, Cli!NothingOrphaned, Flow!Launches, Cli!Launches
<1>3. Flow!ExitMeansComplete => Cli!ExitMeansComplete
  BY DEF Flow!ExitMeansComplete, Cli!ExitMeansComplete, Flow!Complete, Cli!Complete, Flow!OnChain, Cli!OnChain
<1> QED BY <1>1, <1>2, <1>3, CliBounds, Flow!CliHolds

LEMMA PageStarts == AppAssumption /\ Init => Page!AppIInv
<1>1. Init => Page!Init
  BY DEF Init, Page!Init, AppInit, Page!AppInit, LaunchTxsInit, Page!LaunchTxsInit, Launches,
         Page!Launches, NoTx, Page!NoTx, Off, Page!Off, F!Idle, Page!F!Idle
<1> QED BY <1>1, LaunchTxsAssumption, Page!AppInitInv

LEMMA PageKeeps == AppAssumption /\ Page!AppIInv /\ (Next \/ UNCHANGED vars) => Page!AppIInv'
<1>1. Next => Page!Next
  <2>1. UNCHANGED appVars <=> UNCHANGED Page!appVars
    BY DEF appVars, Page!appVars
  <2> QED BY <2>1, PageSteps DEF Next, Works, Page!Next, Page!Works
<1>2. UNCHANGED vars => UNCHANGED Page!vars
  BY DEF vars, appVars, Page!vars, Page!appVars
<1> QED BY <1>1, <1>2, LaunchTxsAssumption, Page!AppNextInv

LEMMA PageHolds == AppAssumption /\ Page!AppIInv => TypeOK /\ ShownIsTrue /\ BuysOnceUnlessLate
<1>1. Page!TypeOK => TypeOK
  <2>1. Page!F!IsFlow(flow, Page!Labels) <=> F!IsFlow(flow, Labels)
    BY DEF Page!F!IsFlow, F!IsFlow, Page!F!Statuses, F!Statuses, Page!F!StepStatuses, F!StepStatuses, Page!F!Open, F!Open, Page!Labels, Labels
  <2> QED BY <2>1 DEF Page!TypeOK, TypeOK, Page!LaunchTxsTypeOK, LaunchTxsTypeOK, Page!Launches,
         Launches, Page!Labels, Labels, Page!AllPlans, AllPlans, Page!Plans, Plans, Page!NoTx, NoTx
<1>2. Page!ShownIsTrue => ShownIsTrue
  BY DEF Page!ShownIsTrue, ShownIsTrue, Page!Complete, Complete, Page!OnChain, OnChain
<1>3. Page!BuysOnceUnlessLate => BuysOnceUnlessLate
  BY DEF Page!BuysOnceUnlessLate, BuysOnceUnlessLate, Page!Launches, Launches
<1> QED BY <1>1, <1>2, <1>3, LaunchTxsAssumption, Page!AppHolds

-----------------------------------------------------------------------------
(***************************************************************************)
(* The whole: the invariants of the parts hold together, of the one that   *)
(* moves and of those that rest.  Two parts read the clock, so a tick of   *)
(* one is a tick of the other, which has stayed as it began.               *)
(***************************************************************************)

AppInv ==
    /\ Page!AppIInv /\ Flow!CliIInv
    /\ PanelInv /\ LimiterInv /\ PriceInv /\ ClusterInv /\ FundInv /\ DirectoryInv /\ ImageInv
    /\ part # "limiter" => crowdedOut = FALSE

LEMMA AppStarts == MCInit => AppInv
<1> SUFFICES ASSUME MCInit PROVE AppInv
  OBVIOUS
<1>1. Page!AppIInv /\ Flow!CliIInv
  BY AppAssumption, PageStarts, CliStarts DEF MCInit
<1>2. crowdedOut = FALSE
  BY DEF MCInit, Limiter!Init
<1> QED BY <1>1, <1>2, PanelStarts, LimiterStarts, PriceStarts, ClusterStarts, FundStarts, DirStarts,
           ImageStarts DEF MCInit, AppInv

\* The clock stands still, or ticks.
LEMMA PriceClock == Prices!Next => UNCHANGED now \/ (now < MaxTime /\ now' = now + 1)
BY DEF Prices!Next, Prices!Open, Prices!Ask, Prices!Answer, Prices!Fail, Prices!Tick

LEMMA LimiterClock == Limiter!Next => UNCHANGED now \/ (now < MaxTime /\ now' = now + 1)
BY DEF Limiter!Next, Limiter!InstanceBusy, Limiter!TakeLive, Limiter!TakeNew, Limiter!TakeCrowded, Limiter!Tick

LEMMA AppKeeps == AppInv /\ [MCNext]_MCvars => AppInv'
<1> SUFFICES ASSUME AppInv, [MCNext]_MCvars PROVE AppInv'
  OBVIOUS
<1> USE DEF AppInv
<1>1. Page!AppIInv'
  <2>1. Next \/ UNCHANGED vars
    BY DEF MCNext, MCvars
  <2> QED BY <2>1, AppAssumption, PageKeeps
<1>2. Flow!CliIInv'
  <2>1. Cli!CliNext \/ UNCHANGED cliVars
    BY DEF MCNext, MCvars
  <2> QED BY <2>1, AppAssumption, CliKeeps
<1>3. PanelInv'
  <2>1. Panel!Next \/ UNCHANGED panelVars
    BY DEF MCNext, MCvars
  <2> QED BY <2>1, PanelSteps, PanelRests
<1>4. LimiterInv' /\ (part' # "limiter" => crowdedOut' = FALSE)
  <2>1. CASE part = "limiter" /\ Limiter!Next /\ UNCHANGED part
    BY <2>1, LimiterSteps
  <2>2. CASE UNCHANGED <<now, limiterVars, part>>
    <3>1. LimiterInv'
      BY <2>2, LimiterRests
    <3>2. UNCHANGED crowdedOut
      BY <2>2 DEF limiterVars
    <3> QED BY <2>2, <3>1, <3>2
  <2>3. CASE part = "prices" /\ Prices!Next /\ UNCHANGED <<limiterVars, part>>
    <3>1. UNCHANGED <<hits, global, lastSweep, granted>> /\ crowdedOut' = FALSE
      BY <2>3 DEF limiterVars
    <3>2. CASE UNCHANGED now
      BY <2>3, <3>1, <3>2, LimiterRests
    <3>3. CASE now < MaxTime /\ now' = now + 1
      BY <3>1, <3>3, LimiterTicks
    <3> QED BY <2>3, <3>1, <3>2, <3>3, PriceClock
  <2>4. \/ part = "limiter" /\ Limiter!Next
        \/ part = "prices" /\ Prices!Next /\ UNCHANGED limiterVars
        \/ UNCHANGED <<now, limiterVars>>
    BY DEF MCNext, MCvars
  <2>5. UNCHANGED part
    BY DEF MCNext, MCvars
  <2> QED BY <2>1, <2>2, <2>3, <2>4, <2>5
<1>5. PriceInv'
  <2>1. CASE Prices!Next
    BY <2>1, PriceSteps
  <2>2. CASE UNCHANGED <<now, priceVars>>
    BY <2>2, PriceRests
  <2>3. CASE Limiter!Next /\ UNCHANGED priceVars
    BY <2>3, LimiterClock, PriceRests, PriceTicks
  <2> QED BY <2>1, <2>2, <2>3 DEF MCNext, MCvars
<1>6. ClusterInv'
  <2>1. Cluster!Next \/ UNCHANGED clusterVars
    BY DEF MCNext, MCvars
  <2> QED BY <2>1, ClusterSteps, ClusterRests
<1>7. FundInv'
  <2>1. Fund!Next \/ UNCHANGED faucetVars
    BY DEF MCNext, MCvars
  <2> QED BY <2>1, FundNext, FundRests
<1>8. DirectoryInv'
  <2>1. Directory!Next \/ UNCHANGED directoryVars
    BY DEF MCNext, MCvars
  <2> QED BY <2>1, DirSteps, DirRests
<1>9. ImageInv'
  <2>1. Images!Next \/ UNCHANGED imageVars
    BY DEF MCNext, MCvars
  <2> QED BY <2>1, ImageSteps, ImageRests
<1> QED BY <1>1, <1>2, <1>3, <1>4, <1>5, <1>6, <1>7, <1>8, <1>9

THEOREM AppAlways == MCSpec => []AppInv
<1>1. MCInit => AppInv
  BY AppStarts
<1>2. AppInv /\ [MCNext]_MCvars => AppInv'
  BY AppKeeps
<1> QED BY <1>1, <1>2, PTL DEF MCSpec

-----------------------------------------------------------------------------

\* The types of all parts, whatever the bounds: a session's transactions are planned
\* ones, no key has more hits than the limit, no cached read is later than the clock.
THEOREM TypesTheorem == MCSpec => []MCTypeOK
<1>1. AppInv => MCTypeOK
  BY AppAssumption, PageHolds, CliHolds, PanelHolds, LimiterHolds, ClusterHolds, FundHolds, DirHolds
     DEF AppInv, PriceInv, MCTypeOK
<1> QED BY <1>1, AppAlways, PTL

\* What createLaunch and create-launch.ts show as done is on chain, and its keypairs are
\* in a session file; the token page shows the launch that owns the mint's pool, and no
\* other, and the list shows it too, but for an imitation of the brand, which no list shows.
THEOREM ShownTheorem == MCSpec => []ShownHolds
<1>1. AppInv => ShownHolds
  BY AppAssumption, PageHolds, CliHolds, DirHolds DEF AppInv, ShownHolds
<1> QED BY <1>1, AppAlways, PTL

\* The rate limiter grants no more than two limits in an interval as long as its window,
\* to a key or to the instance, and refuses a new key for want of room only while the
\* windows of those it knows are recent; an image that was well-formed is no longer so
\* with anything behind it.
THEOREM UploadsTheorem == MCSpec => []UploadsGuarded
<1>1. AppInv => UploadsGuarded
  BY LimiterHolds, ImageHolds DEF AppInv, UploadsGuarded
<1> QED BY <1>1, AppAlways, PTL

\* What a panel shows: no spinner without a call, success only of transactions that
\* landed, and no step that is over changes under a late callback.
THEOREM FlowsTheorem == MCSpec => FlowsTold
<1>1. AppInv => Panel!NoOrphanSpinner /\ Panel!SuccessIsTrue
  BY PanelHolds DEF AppInv
<1>2. AppInv /\ [MCNext]_MCvars => [FlowStep]_shownFlow
  <2> SUFFICES ASSUME AppInv, [MCNext]_MCvars PROVE FlowStep \/ UNCHANGED shownFlow
    OBVIOUS
  <2>1. Panel!Next \/ UNCHANGED panelVars
    BY DEF MCNext, MCvars
  <2> QED BY <2>1, PanelOnward DEF AppInv, panelVars
<1>3. MCSpec => [][FlowStep]_shownFlow
  BY <1>2, AppAlways, PTL DEF MCSpec
<1>4. MCSpec => [](Panel!NoOrphanSpinner /\ Panel!SuccessIsTrue)
  BY <1>1, AppAlways, PTL
<1> QED BY <1>3, <1>4 DEF FlowsTold, Panel!NeverBackwards, FlowStep

\* However often the user retries, a launch buys more than once only if a buy landed
\* after its sender gave it up.
THEOREM OneBuyTheorem == MCSpec => []BuysOnceUnlessLate
<1>1. AppInv => BuysOnceUnlessLate
  BY AppAssumption, PageHolds DEF AppInv
<1> QED BY <1>1, AppAlways, PTL

\* A price served without the label "stale" was read less than STALE_AFTER_MS ago; nobody
\* is served an older read after a newer one; the reference table stands in only where
\* nothing that has a price was read.
THEOREM PricesTheorem == MCSpec => []Prices!UnlabelledIsRecent /\ Prices!NeverOlder /\ Prices!ReferenceIsLast
<1>1. AppInv => Prices!UnlabelledIsRecent
  BY DEF AppInv, PriceInv
<1>2. AppInv /\ [MCNext]_MCvars => [Serves]_served
  <2> SUFFICES ASSUME AppInv, [MCNext]_MCvars PROVE Serves \/ UNCHANGED served
    OBVIOUS
  <2>1. Prices!Next \/ UNCHANGED priceVars
    BY DEF MCNext, MCvars
  <2> QED BY <2>1, PriceSteps DEF AppInv, priceVars
<1>3. MCSpec => [][Serves]_served
  BY <1>2, AppAlways, PTL DEF MCSpec
<1>4. [][Serves]_served => Prices!NeverOlder /\ Prices!ReferenceIsLast
  BY PTL DEF Serves, Prices!NeverOlder, Prices!ReferenceIsLast
<1>5. MCSpec => []Prices!UnlabelledIsRecent
  BY <1>1, AppAlways, PTL
<1> QED BY <1>3, <1>4, <1>5

\* Without both switches nothing is sent to a node that is not a local one, however the
\* node is changed while it is probed.
THEOREM ClusterTheorem == MCSpec => []Cluster!MainnetNeedsBoth
<1>1. AppInv => Cluster!MainnetNeedsBoth
  BY ClusterHolds DEF AppInv
<1> QED BY <1>1, AppAlways, PTL

\* Between runs, and with no transfer from outside, the balances that the faucet has
\* patched add up to the supply it has patched.
THEOREM SupplyTheorem == MCSpec => []Fund!SupplyMatches
<1>1. AppInv => Fund!SupplyMatches
  BY FundHolds DEF AppInv
<1> QED BY <1>1, AppAlways, PTL

=============================================================================
