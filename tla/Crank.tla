------------------------------- MODULE Crank -------------------------------
(***************************************************************************)
(* The off-chain crank (packages/sdk/src/crank.ts) on top of one launch:   *)
(* any number of operators, each in its own loop of runs.  A run reads the *)
(* chain in several requests, plans, sends the first action that is due,   *)
(* reads everything again and plans anew.  Between any two of these steps  *)
(* other crankers, Meteora keepers, traders and the issuer may act, and a  *)
(* transaction that landed may be reported as failed.                      *)
(***************************************************************************)
EXTENDS StockfloorLaunch, Sequences

CONSTANTS
    Crankers,     \* operators
    MinCurveFee,  \* smallest partner fee worth a harvest
    MinLpFee,     \* smallest pending LP fee worth a harvest
    MinBurn,      \* smallest claimer balance worth a burn of its own
    MaxActions,   \* transactions per run
    ReadsMayFail, \* whether a read may throw, which aborts the run
    DirectCalls   \* whether others send the maintenance instructions too

ASSUME CrankAssumption ==
    /\ MinCurveFee \in Nat \ {0} /\ MinLpFee \in Nat \ {0} /\ MinBurn \in Nat \ {0}
    /\ MaxActions \in Nat \ {0}
    /\ ReadsMayFail \in BOOLEAN /\ DirectCalls \in BOOLEAN

VARIABLE crank   \* [Crankers -> the local state of runCrank]

crankVars == <<vars, crank>>

PlanOrder == <<"registerPool", "harvestCurveFees", "harvestMigrationFee", "harvestSurplus",
               "migrate", "syncMigration", "harvestLpFees", "burnClaimerBase">>
Kinds == {PlanOrder[i] : i \in DOMAIN PlanOrder}

\* What a run knows after the first read: nothing but the Launch account.
Unread == [launch |-> launch, exists |-> FALSE, reserved |-> FALSE, curveFee |-> FALSE,
           complete |-> FALSE, feeWithdrawn |-> FALSE, surplusWithdrawn |-> FALSE,
           progress |-> "bonding", burnDue |-> FALSE, lpDue |-> FALSE]
NothingRead == [Unread EXCEPT !.launch = NoLaunch]

\* pc: what the run awaits; view: the state it plans from; failed: failedKeys;
\* action: the action to send, kept while it is not known why sending it threw;
\* threw: whether sending it threw; sent: loop count.
Idle == [pc |-> "idle", view |-> NothingRead, failed |-> {},
         action |-> "none", threw |-> FALSE, sent |-> 0]

CrankTypeOK ==
    \A c \in Crankers :
        /\ crank[c].pc \in {"idle", "launch", "snapshot", "positions", "decide", "send"}
        /\ crank[c].failed \subseteq Kinds
        /\ crank[c].action \in Kinds \cup {"none"}
        /\ crank[c].sent \in 0..MaxActions

-----------------------------------------------------------------------------
(* Reading: fetchLaunchState.                                              *)

\* First request: the Launch account.
StartRun(c) ==
    /\ crank[c].pc = "idle"
    /\ launch.version # 0
    /\ crank' = [crank EXCEPT ![c].pc = "snapshot", ![c].view = Unread]
    /\ UNCHANGED vars

ReadLaunch(c) ==
    /\ crank[c].pc = "launch"
    /\ crank' = [crank EXCEPT ![c].pc = "snapshot", ![c].view = Unread]
    /\ UNCHANGED vars

\* Second request, one slot: config, pool, base mint, claimer account, metadata.
SnapshotOf(v) ==
    [v EXCEPT !.exists = dbc.exists,
              !.reserved = ~v.launch.registered /\ dbc.reservedName,
              !.curveFee = dbc.partnerFee >= MinCurveFee,
              !.complete = dbc.exists /\ IsCurveComplete,
              !.feeWithdrawn = dbc.feeWithdrawn,
              !.surplusWithdrawn = dbc.surplusWithdrawn,
              !.progress = dbc.progress,
              !.burnDue = base.claimer >= MinBurn]

Migrated(v) == v.launch.migrated \/ v.progress = "createdPool"

ReadSnapshot(c) ==
    LET v == SnapshotOf(crank[c].view)
    IN  /\ crank[c].pc = "snapshot"
        /\ crank' = [crank EXCEPT ![c].view = v,
                                  ![c].pc = IF Migrated(v) THEN "positions" ELSE "decide"]
        /\ UNCHANGED vars

\* More requests, only after migration: the DAMM v2 positions of the claimer.
\* Only those on the launch's own pool count.
ReadPositions(c) ==
    /\ crank[c].pc = "positions"
    /\ crank' = [crank EXCEPT ![c].view.lpDue = lp["own"].quote >= MinLpFee,
                              ![c].pc = "decide"]
    /\ UNCHANGED vars

-----------------------------------------------------------------------------
(* Planning: planCrank, as the set of kinds due; PlanOrder orders it.      *)

OneShotsDue(v) ==
    {k \in {"registerPool"} : ~v.launch.registered}
    \cup {k \in {"harvestMigrationFee"} :
            v.complete /\ ~v.launch.migrationFeeHarvested /\ ~v.feeWithdrawn}
    \cup {k \in {"harvestSurplus"} :
            v.complete /\ ~v.launch.surplusHarvested /\ ~v.surplusWithdrawn}
    \cup {k \in {"migrate"} : v.complete /\ v.progress = "lockedVesting"}
    \cup {k \in {"syncMigration"} :
            v.progress = "createdPool" /\ ~v.launch.migrated /\ v.launch.registered}

HarvestsDue(v) ==
    {k \in {"harvestCurveFees"} : v.curveFee}
    \cup {k \in {"harvestLpFees"} : Migrated(v) /\ v.lpDue}

BurnDue(v) == {k \in {"burnClaimerBase"} : v.burnDue}

DueWithoutPoolNothing(v) == {}   \* Mutant: an early return that plans nothing.

\* While there is no pool, or one that can never be registered.
DueWithoutPool(v) == BurnDue(v)

\* The harvests burn the whole claimer balance themselves.
DueWithPool(v) ==
    OneShotsDue(v) \cup HarvestsDue(v)
        \cup IF HarvestsDue(v) = {} THEN BurnDue(v) ELSE {}

Due(v) == IF v.exists /\ (v.launch.registered \/ ~v.reserved)
          THEN DueWithPool(v)
          ELSE DueWithoutPool(v)

First(kinds) ==
    PlanOrder[CHOOSE i \in DOMAIN PlanOrder :
                /\ PlanOrder[i] \in kinds
                /\ \A j \in 1..(i - 1) : PlanOrder[j] \notin kinds]

-----------------------------------------------------------------------------
(* The loop of runCrank.                                                   *)

\* After a throw, the fresh plan tells a lost race (skipped) from an error
\* (failed, and not tried again in this run).
StillDueNever(r) == FALSE   \* Mutant: every error is taken for a lost race.

StillDue(r) == r.action \in Due(r.view)

FailedKeys(r) == r.failed \cup {k \in {r.action} : r.threw /\ StillDue(r)}

CandidatesFailedToo(r) == Due(r.view)   \* Mutant: failed actions stay in the plan.

Candidates(r) == Due(r.view) \ FailedKeys(r)

RunOverWhenIdle(r) == Candidates(r) = {}   \* Mutant: no limit per run.

RunOver(r) == r.sent = MaxActions \/ Candidates(r) = {}

Decide(c) ==
    LET r == crank[c]
    IN  /\ crank[c].pc = "decide"
        /\ crank' = [crank EXCEPT ![c] =
              IF RunOver(r)
              THEN Idle
              ELSE [r EXCEPT !.pc = "send", !.sent = @ + 1, !.threw = FALSE,
                             !.failed = FailedKeys(r),
                             !.action = First(Candidates(r)), !.view = NothingRead]]
        /\ UNCHANGED vars

CurveFeesTxPlain == HarvestCurveFees   \* Mutant: the harvest alone.

\* For v3 the transaction opens a closed platform account before it harvests.
CurveFeesTx ==
    IF FeeSplitEnabled
    THEN /\ ClaimCurveFees("platformDown" \notin faults)
         /\ faults' = faults \ {"platformClosed"}
    ELSE HarvestCurveFees

\* buildCrankAction: what the transaction does on chain.
Instruction(kind) ==
    CASE kind = "registerPool" -> RegisterPool
      [] kind = "harvestCurveFees" -> CurveFeesTx
      [] kind = "harvestMigrationFee" -> HarvestMigrationFee
      [] kind = "harvestSurplus" -> HarvestSurplus
      [] kind = "migrate" -> MigrateToDamm
      [] kind = "syncMigration" -> SyncMigration
      [] kind = "harvestLpFees" -> ClaimPositionFee("own")
      [] kind = "burnClaimerBase" -> BurnClaimerBase

Sent(c, threw) ==
    crank' = [crank EXCEPT ![c].pc = "launch", ![c].threw = threw,
                           ![c].action = IF threw THEN @ ELSE "none"]

\* The transaction lands and is confirmed.
SendConfirmed(c) ==
    /\ crank[c].pc = "send"
    /\ Instruction(crank[c].action)
    /\ Sent(c, FALSE)

\* It lands, but the confirmation is lost and send throws.
SendUnconfirmed(c) ==
    /\ crank[c].pc = "send"
    /\ Instruction(crank[c].action)
    /\ Sent(c, TRUE)

\* It is rejected or never lands.
SendFails(c) ==
    /\ crank[c].pc = "send"
    /\ Sent(c, TRUE)
    /\ UNCHANGED vars

\* A read throws: the run is over, and with it what it knew.
AbortRun(c) ==
    /\ ReadsMayFail
    /\ crank[c].pc \in {"launch", "snapshot", "positions"}
    /\ crank' = [crank EXCEPT ![c] = Idle]
    /\ UNCHANGED vars

-----------------------------------------------------------------------------
CrankInit == Init /\ crank = [c \in Crankers |-> Idle]

Cranking(c) ==
    \/ StartRun(c)
    \/ ReadLaunch(c)
    \/ ReadSnapshot(c)
    \/ ReadPositions(c)
    \/ Decide(c)
    \/ SendConfirmed(c)
    \/ SendUnconfirmed(c)
    \/ SendFails(c)
    \/ AbortRun(c)

\* Everybody else: creator, holders, the issuer, keepers, direct callers.
Others ==
    /\ \/ CreateLaunch
       \/ Redeem
       \/ Environment
       \/ DirectCalls /\ Program
    /\ UNCHANGED crank

CrankNext == Others \/ \E c \in Crankers : Cranking(c)

CrankSpec == CrankInit /\ [][CrankNext]_crankVars

\* Operators run the crank in a loop, and a transaction that the chain would
\* accept is accepted when it is sent again and again.  Nobody else, no keeper
\* and no other caller, is relied on.
FairCrankSpec ==
    /\ CrankSpec
    /\ \A c \in Crankers :
        /\ WF_crankVars(Cranking(c))
        /\ \A k \in Kinds : SF_crankVars(crank[c].action = k /\ SendConfirmed(c))

-----------------------------------------------------------------------------
(* Properties.                                                             *)

DueOnChain == IF launch.version = 0 THEN {}
              ELSE Due([SnapshotOf(Unread) EXCEPT !.lpDue = lp["own"].quote >= MinLpFee])

(***************************************************************************)
(* Crankers finish.  Once faults stop, cranking alone brings the launch to *)
(* a state in which nothing is due, and every run from then on sends       *)
(* nothing: no action is planned for ever, none keeps another from being   *)
(* planned, and lost confirmations and races do not change that.           *)
(***************************************************************************)
CrankConverges == <>[](faults = {}) => <>[](DueOnChain = {})

(***************************************************************************)
(* A one-shot action that a run records as skipped has been done, by       *)
(* itself with a lost confirmation or by somebody else: the operator may   *)
(* forget it (crank.ts, module comment).  A reserved name is the one other *)
(* reason: then registration can never happen.                             *)
(***************************************************************************)
DoneOnChain(kind) ==
    CASE kind = "registerPool" -> launch.registered \/ dbc.reservedName
      [] kind = "harvestMigrationFee" -> launch.migrationFeeHarvested
      [] kind = "harvestSurplus" -> launch.surplusHarvested
      [] kind = "migrate" -> IsMigrationComplete
      [] kind = "syncMigration" -> launch.migrated
      [] OTHER -> TRUE

Skips(c) == crank[c].pc = "decide" /\ crank[c].threw /\ ~StillDue(crank[c])

SkippedWasDone == \A c \in Crankers : Skips(c) => DoneOnChain(crank[c].action)

(***************************************************************************)
(* crank.ts reports a skipped action as "done concurrently".  For the burn *)
(* of the claimer's base: a run that skips it has read a balance that is   *)
(* no longer worth burning.                                                *)
(***************************************************************************)
SkippedBurnWasBurned ==
    \A c \in Crankers :
        Skips(c) /\ crank[c].action = "burnClaimerBase" => ~crank[c].view.burnDue

(***************************************************************************)
(* Fees worth a harvest are harvested sooner or later, by a single crank   *)
(* and whatever accrues meanwhile; a treasury that closes its account over *)
(* and over cannot prevent it, one whose account is frozen for good can.   *)
(***************************************************************************)
FeesWaiting == dbc.partnerFee >= MinCurveFee \/ lp["own"].quote >= MinLpFee

FeesCollected ==
    <>[](~IssuerBlocks /\ "platformDown" \notin faults) =>
        (launch.registered /\ FeesWaiting) ~> ~FeesWaiting

(***************************************************************************)
(* crank.ts (defaultMinClaimerBaseBurn) says nothing is stranded in the    *)
(* claimer's base account.  A balance worth a burn is burned sooner or     *)
(* later, as long as the issuer does not block quote transfers for ever.   *)
(***************************************************************************)
ClaimerBaseBurned ==
    <>[]~IssuerBlocks => (launch.version # 0 /\ base.claimer >= MinBurn) ~> base.claimer < MinBurn

(***************************************************************************)
(* The same while the platform account can be paid.                        *)
(***************************************************************************)
ClaimerBaseBurnedIfPaid ==
    <>[](~IssuerBlocks /\ "platformDown" \notin faults) =>
        (launch.version # 0 /\ base.claimer >= MinBurn) ~> base.claimer < MinBurn

\* While the issuer does not block and the platform's account can be opened, neither fees
\* nor the claimer's base wait for ever.
NothingStranded == FeesCollected /\ ClaimerBaseBurnedIfPaid

=============================================================================
