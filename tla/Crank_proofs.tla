---------------------------- MODULE Crank_proofs ----------------------------
(***************************************************************************)
(* Proofs about the crank: what a run keeps of the chain stays true of it  *)
(* while others act, so an action that is skipped after it threw has been  *)
(* done, for any number of crankers and any order of reads and sends.      *)
(***************************************************************************)
EXTENDS Crank, StockfloorLaunch_proofs

-----------------------------------------------------------------------------
(* The plan.                                                               *)

LEMMA KindsAre ==
  Kinds = {"registerPool", "harvestCurveFees", "harvestMigrationFee", "harvestSurplus",
           "migrate", "syncMigration", "harvestLpFees", "burnClaimerBase"}
<1>1. DOMAIN PlanOrder = 1..8
  BY DEF PlanOrder
<1> QED BY <1>1 DEF Kinds, PlanOrder

LEMMA DueKinds == ASSUME NEW v PROVE Due(v) \subseteq Kinds
<1>1. OneShotsDue(v) \subseteq Kinds
  BY KindsAre DEF OneShotsDue
<1>2. HarvestsDue(v) \subseteq Kinds
  BY KindsAre DEF HarvestsDue
<1>3. BurnDue(v) \subseteq Kinds
  BY KindsAre DEF BurnDue
<1> QED BY <1>1, <1>2, <1>3 DEF Due, DueWithPool, DueWithoutPool

\* The first action of a plan is one of it.
LEMMA FirstIsDue ==
  ASSUME NEW kinds \in SUBSET Kinds, kinds # {}
  PROVE  First(kinds) \in kinds
<1> DEFINE first(i) == PlanOrder[i] \in kinds /\ \A j \in 1..(i - 1) : PlanOrder[j] \notin kinds
<1>1. DOMAIN PlanOrder = 1..8
  BY DEF PlanOrder
<1>2. \E i \in 1..8 : PlanOrder[i] \in kinds
  BY <1>1 DEF Kinds
<1>3. \E i \in 1..8 : first(i)
  <2>1. CASE PlanOrder[1] \in kinds
    <3>1. first(1)
      BY <2>1
    <3> QED BY <3>1
  <2>2. CASE PlanOrder[1] \notin kinds /\ PlanOrder[2] \in kinds
    <3>1. first(2)
      BY <2>2
    <3> QED BY <3>1
  <2>3. CASE PlanOrder[1] \notin kinds /\ PlanOrder[2] \notin kinds /\ PlanOrder[3] \in kinds
    <3>1. first(3)
      BY <2>3
    <3> QED BY <3>1
  <2>4. CASE (\A j \in 1..3 : PlanOrder[j] \notin kinds) /\ PlanOrder[4] \in kinds
    <3>1. first(4)
      BY <2>4
    <3> QED BY <3>1
  <2>5. CASE (\A j \in 1..4 : PlanOrder[j] \notin kinds) /\ PlanOrder[5] \in kinds
    <3>1. first(5)
      BY <2>5
    <3> QED BY <3>1
  <2>6. CASE (\A j \in 1..5 : PlanOrder[j] \notin kinds) /\ PlanOrder[6] \in kinds
    <3>1. first(6)
      BY <2>6
    <3> QED BY <3>1
  <2>7. CASE (\A j \in 1..6 : PlanOrder[j] \notin kinds) /\ PlanOrder[7] \in kinds
    <3>1. first(7)
      BY <2>7
    <3> QED BY <3>1
  <2>8. CASE (\A j \in 1..7 : PlanOrder[j] \notin kinds) /\ PlanOrder[8] \in kinds
    <3>1. first(8)
      BY <2>8
    <3> QED BY <3>1
  <2> HIDE DEF first
  <2> QED BY <1>2, <2>1, <2>2, <2>3, <2>4, <2>5, <2>6, <2>7, <2>8
<1>4. First(kinds) = PlanOrder[CHOOSE i \in 1..8 : first(i)]
  BY <1>1 DEF First
<1>5. first(CHOOSE i \in 1..8 : first(i))
  <2> HIDE DEF first
  <2> QED BY <1>3
<1> QED BY <1>4, <1>5

-----------------------------------------------------------------------------
(* Types of the runs.                                                      *)

Views == [launch : Launches, exists : BOOLEAN, reserved : BOOLEAN, curveFee : BOOLEAN,
          complete : BOOLEAN, feeWithdrawn : BOOLEAN, surplusWithdrawn : BOOLEAN,
          progress : Progress, burnDue : BOOLEAN, lpDue : BOOLEAN]
Runs == [pc : {"idle", "launch", "snapshot", "positions", "decide", "send"}, view : Views,
         failed : SUBSET Kinds, action : Kinds \cup {"none"}, threw : BOOLEAN,
         sent : 0..MaxActions]

LEMMA ViewsTyped ==
  ASSUME TypeOK
  PROVE  /\ Unread \in Views /\ NothingRead \in Views
         /\ \A v \in Views : SnapshotOf(v) \in Views
         /\ \A v \in Views, due \in BOOLEAN : [v EXCEPT !.lpDue = due] \in Views
<1>1. NoLaunch \in Launches
  BY DEF NoLaunch, Launches, Versions
<1>2. launch \in Launches /\ dbc \in Pools
  BY DEF TypeOK
<1>3. Unread \in Views
  BY <1>2 DEF Unread, Views, Progress
<1>4. NothingRead \in Views
  BY <1>1, <1>3 DEF NothingRead, Views
<1>5. ASSUME NEW v \in Views PROVE SnapshotOf(v) \in Views
  <2>1. /\ dbc.exists \in BOOLEAN /\ dbc.feeWithdrawn \in BOOLEAN
        /\ dbc.surplusWithdrawn \in BOOLEAN /\ dbc.progress \in Progress
    BY <1>2 DEF Pools
  <2> DEFINE reserved == ~v.launch.registered /\ dbc.reservedName
             curveFee == dbc.partnerFee >= MinCurveFee
             complete == dbc.exists /\ IsCurveComplete
             burnDue == base.claimer >= MinBurn
  <2>2. /\ reserved \in BOOLEAN /\ curveFee \in BOOLEAN
        /\ complete \in BOOLEAN /\ burnDue \in BOOLEAN
    OBVIOUS
  <2>3. SnapshotOf(v) =
          [v EXCEPT !.exists = dbc.exists, !.reserved = reserved, !.curveFee = curveFee,
                    !.complete = complete, !.feeWithdrawn = dbc.feeWithdrawn,
                    !.surplusWithdrawn = dbc.surplusWithdrawn, !.progress = dbc.progress,
                    !.burnDue = burnDue]
    BY DEF SnapshotOf
  <2> HIDE DEF reserved, curveFee, complete, burnDue
  <2> QED BY <2>1, <2>2, <2>3 DEF Views
<1>6. ASSUME NEW v \in Views, NEW due \in BOOLEAN PROVE [v EXCEPT !.lpDue = due] \in Views
  BY DEF Views
<1> QED BY <1>3, <1>4, <1>5, <1>6

LEMMA IdleTyped == TypeOK => Idle \in Runs
BY ViewsTyped, CrankAssumption DEF Idle, Runs

-----------------------------------------------------------------------------
(* The chain moves on: what a run has read and relies on is never undone.  *)

Onward ==
    /\ launch.registered => launch'.registered
    /\ launch.migrationFeeHarvested => launch'.migrationFeeHarvested
    /\ launch.surplusHarvested => launch'.surplusHarvested
    /\ launch.migrated => launch'.migrated
    /\ dbc.exists => dbc'.exists /\ dbc'.reservedName = dbc.reservedName
    /\ dbc.feeWithdrawn => dbc'.feeWithdrawn
    /\ dbc.surplusWithdrawn => dbc'.surplusWithdrawn
    /\ dbc.reserve >= Threshold => dbc'.reserve >= Threshold
    /\ dbc.progress # "bonding" => dbc'.progress # "bonding"
    /\ dbc.progress = "createdPool" => dbc'.progress = "createdPool"

\* The fields of DBC's pool a step may not undo.
PoolOnward ==
    /\ dbc.exists => dbc'.exists /\ dbc'.reservedName = dbc.reservedName
    /\ dbc.feeWithdrawn => dbc'.feeWithdrawn
    /\ dbc.surplusWithdrawn => dbc'.surplusWithdrawn
    /\ dbc.reserve >= Threshold => dbc'.reserve >= Threshold
    /\ dbc.progress # "bonding" => dbc'.progress # "bonding"
    /\ dbc.progress = "createdPool" => dbc'.progress = "createdPool"

LEMMA ProgramPoolOnward ==
  ASSUME TypeOK, Program
  PROVE  PoolOnward
<1>0. dbc \in Pools
  BY DEF TypeOK
<1>1. CASE UNCHANGED dbc
  BY <1>1 DEF PoolOnward
<1>2. CASE HarvestCurveFees
  <2>1. dbc' = [dbc EXCEPT !.partnerFee = 0]
    BY <1>2 DEF HarvestCurveFees, ClaimCurveFees
  <2> QED BY <1>0, <2>1 DEF Pools, PoolOnward
<1>3. CASE HarvestMigrationFee
  <2>1. dbc' = [dbc EXCEPT !.feeWithdrawn = TRUE]
    BY <1>3 DEF HarvestMigrationFee, WithdrawMigrationFee
  <2> QED BY <1>0, <2>1 DEF Pools, PoolOnward
<1>4. CASE HarvestSurplus
  <2>1. dbc' = [dbc EXCEPT !.surplusWithdrawn = TRUE]
    BY <1>4 DEF HarvestSurplus, PartnerWithdrawSurplus
  <2> QED BY <1>0, <2>1 DEF Pools, PoolOnward
<1>5. CreateLaunch \/ RegisterPool \/ SyncMigration \/ BurnClaimerBase => UNCHANGED dbc
  BY DEF CreateLaunch, RegisterPool, SyncMigration, BurnClaimerBase
<1>6. HarvestLpFees \/ Redeem => UNCHANGED dbc
  BY DEF HarvestLpFees, ClaimPositionFee, Redeem, RedeemTo
<1> QED BY <1>1, <1>2, <1>3, <1>4, <1>5, <1>6 DEF Program

LEMMA EnvironmentPoolOnward ==
  ASSUME IInv, Environment
  PROVE  PoolOnward
<1>0. /\ dbc \in Pools /\ Threshold \in Nat
      /\ dbc.progress # "bonding" => dbc.reserve >= Threshold
  BY ConstantsTyped DEF IInv, TypeOK, Latches, IsCurveComplete
<1>1. CASE UNCHANGED dbc
  BY <1>1 DEF PoolOnward
<1>2. CASE CreatePool
  <2>1. PICK reserved \in BOOLEAN :
          ~dbc.exists /\ dbc' = [dbc EXCEPT !.exists = TRUE, !.reservedName = reserved]
    BY <1>2 DEF CreatePool
  <2> QED BY <1>0, <2>1 DEF Pools, PoolOnward
<1>3. CASE BuyOnCurve
  <2>1. PICK amount \in CurveAmounts :
          /\ ~IsCurveComplete
          /\ dbc' = [dbc EXCEPT !.reserve = @ + amount, !.trades = @ + 1,
                                !.partnerFee = @ + CurveFee,
                                !.progress = IF dbc.reserve + amount >= Threshold
                                             THEN "lockedVesting" ELSE @]
    BY <1>3 DEF BuyOnCurve
  <2> QED BY <1>0, <2>1 DEF Pools, PoolOnward, IsCurveComplete
<1>4. CASE SellOnCurve
  <2>1. PICK amount \in CurveAmounts :
          /\ ~IsCurveComplete
          /\ dbc' = [dbc EXCEPT !.reserve = @ - amount, !.trades = @ + 1,
                                !.partnerFee = @ + CurveFee]
    BY <1>4 DEF SellOnCurve
  <2> QED BY <1>0, <2>1 DEF Pools, PoolOnward, IsCurveComplete
<1>5. CASE MigrateToDamm
  <2>1. dbc.progress = "lockedVesting" /\ dbc' = [dbc EXCEPT !.progress = "createdPool"]
    BY <1>5 DEF MigrateToDamm
  <2> QED BY <1>0, <2>1 DEF Pools, PoolOnward
<1>6. TradeOnDamm \/ TradeOnForeignPool => UNCHANGED dbc
  BY DEF TradeOnDamm, TradeOnForeignPool
<1>7. GiveToVault \/ GiveToTransit \/ GiveBase \/ IssuerSeizes => UNCHANGED dbc
  BY DEF GiveToVault, GiveToTransit, GiveBase, IssuerSeizes
<1>8. FaultAppears \/ FaultClears => UNCHANGED dbc
  BY DEF FaultAppears, FaultClears, state
<1> QED BY <1>1, <1>2, <1>3, <1>4, <1>5, <1>6, <1>7, <1>8 DEF Environment

\* The crank's harvest of the curve fees is the instruction's but for the account it opens.
LEMMA CurveFeesTxStep ==
  ASSUME IInv, CurveFeesTx
  PROVE  IInv' /\ Onward
<1>0. TypeOK /\ Latches /\ launch \in Launches /\ dbc \in Pools
  BY DEF IInv, TypeOK
<1>1. PICK ready \in BOOLEAN : ClaimCurveFees(ready)
  BY DEF CurveFeesTx, HarvestCurveFees, PlatformPayable
<1>2. faults' \subseteq Faults
  BY <1>0 DEF CurveFeesTx, HarvestCurveFees, TypeOK
<1>3. TypeOK'
  <2> DEFINE d == CurveDistribution
  <2>1. d \in Distributions
    BY <1>0, CurveDistributionExact
  <2> HIDE DEF d
  <2>2. quote' \in QuoteAccounts
    BY <1>0, <1>1, <2>1, DepositTyped DEF ClaimCurveFees, d
  <2>3. base' \in BaseAccounts /\ supply' \in Nat
    BY <1>0, <1>1, BurnTyped DEF ClaimCurveFees
  <2>4. totals' \in Counters
    BY <1>0, <1>1, <2>1, FieldsTyped, CountersAfterTyped DEF ClaimCurveFees, d
  <2>5. dbc' \in Pools
    BY <1>0, <1>1 DEF Pools, ClaimCurveFees
  <2>6. past' \in Histories
    <3>1. past \in Histories /\ past.curveFees + dbc.partnerFee \in Nat
          /\ past.taken + dbc.partnerFee \in Nat
      BY <1>0, FieldsTyped DEF TypeOK, Histories
    <3> QED BY <1>1, <3>1 DEF Histories, ClaimCurveFees
  <2>7. UNCHANGED <<launch, lp, bal>>
    BY <1>1 DEF ClaimCurveFees
  <2> QED BY <1>0, <1>2, <2>2, <2>3, <2>4, <2>5, <2>6, <2>7, TypeFrame DEF TypeOK
<1>4. launch.registered /\ UNCHANGED launch /\ dbc' = [dbc EXCEPT !.partnerFee = 0]
  BY <1>1 DEF ClaimCurveFees
<1>5. Latches'
  BY <1>0, <1>4 DEF Latches, LatchesAgree, IsMigrationComplete, IsCurveComplete, Launches, Pools
<1>6. Onward
  BY <1>0, <1>4 DEF Onward, Pools
<1> QED BY <1>3, <1>5, <1>6 DEF IInv

ChainStep == [Next]_vars \/ CurveFeesTx

LEMMA ChainStepOnward ==
  ASSUME IInv, ChainStep
  PROVE  IInv' /\ Onward
<1>1. CASE CurveFeesTx
  BY <1>1, CurveFeesTxStep
<1>2. CASE [Next]_vars
  <2>1. TypeOK
    BY DEF IInv
  <2>2. IInv'
    BY <1>2, NextIInv
  <2>3. PoolOnward
    BY <1>2, <2>1, ProgramPoolOnward, EnvironmentPoolOnward DEF Next, vars, PoolOnward
  <2>4. /\ launch.registered => launch'.registered
        /\ launch.migrationFeeHarvested => launch'.migrationFeeHarvested
        /\ launch.surplusHarvested => launch'.surplusHarvested
        /\ launch.migrated => launch'.migrated
    BY <1>2, <2>1, LaunchFields
  <2> QED BY <2>2, <2>3, <2>4 DEF Onward, PoolOnward
<1> QED BY <1>1, <1>2 DEF ChainStep

\* Whatever a crank sends is an instruction of the launch, or a migration.
LEMMA InstructionOnChain ==
  ASSUME NEW kind \in Kinds, Instruction(kind)
  PROVE  ChainStep
<1>1. CASE kind = "registerPool"
  BY <1>1 DEF Instruction, ChainStep, Next, Program
<1>2. CASE kind = "harvestCurveFees"
  BY <1>2 DEF Instruction, ChainStep
<1>3. CASE kind = "harvestMigrationFee"
  BY <1>3 DEF Instruction, ChainStep, Next, Program
<1>4. CASE kind = "harvestSurplus"
  BY <1>4 DEF Instruction, ChainStep, Next, Program
<1>5. CASE kind = "migrate"
  BY <1>5 DEF Instruction, ChainStep, Next, Environment
<1>6. CASE kind = "syncMigration"
  BY <1>6 DEF Instruction, ChainStep, Next, Program
<1>7. CASE kind = "harvestLpFees"
  <2>1. ClaimPositionFee("own") /\ "own" \in Positions
    BY <1>7 DEF Instruction, Positions
  <2> QED BY <2>1 DEF HarvestLpFees, ChainStep, Next, Program
<1>8. CASE kind = "burnClaimerBase"
  BY <1>8 DEF Instruction, ChainStep, Next, Program
<1> QED BY <1>1, <1>2, <1>3, <1>4, <1>5, <1>6, <1>7, <1>8, KindsAre

-----------------------------------------------------------------------------
(* The invariant of a run.                                                 *)

OneShots == {"registerPool", "harvestMigrationFee", "harvestSurplus", "migrate", "syncMigration"}

\* What made an action due, once true of the chain and true ever after.
WasDue(kind) ==
    /\ kind \in OneShots => dbc.exists /\ ~dbc.reservedName
    /\ kind \in {"harvestMigrationFee", "harvestSurplus", "migrate"} => dbc.reserve >= Threshold
    /\ kind = "migrate" => dbc.progress # "bonding"
    /\ kind = "syncMigration" => dbc.progress = "createdPool" /\ launch.registered

\* What a view says has happened has.
Sound(v) ==
    /\ v.launch.registered => launch.registered
    /\ v.launch.migrationFeeHarvested => launch.migrationFeeHarvested
    /\ v.launch.surplusHarvested => launch.surplusHarvested
    /\ v.launch.migrated => launch.migrated
    /\ v.exists => dbc.exists
    /\ v.exists /\ ~v.reserved /\ ~v.launch.registered => ~dbc.reservedName
    /\ v.complete => dbc.reserve >= Threshold
    /\ v.feeWithdrawn => dbc.feeWithdrawn
    /\ v.surplusWithdrawn => dbc.surplusWithdrawn
    /\ v.progress # "bonding" => dbc.progress # "bonding"
    /\ v.progress = "createdPool" => dbc.progress = "createdPool"

\* A view read after the action threw still shows what made it due.
Reread(kind, v) ==
    /\ kind \in OneShots => v.exists /\ ~v.reserved
    /\ kind \in {"harvestMigrationFee", "harvestSurplus", "migrate"} => v.complete
    /\ kind = "migrate" => v.progress # "bonding"
    /\ kind = "syncMigration" => v.progress = "createdPool"

RunInv(r) ==
    /\ r.pc = "idle" => ~r.threw
    /\ r.pc = "send" \/ r.threw => r.action \in Kinds /\ WasDue(r.action)
    /\ Sound(r.view)
    /\ r.threw /\ r.pc \in {"snapshot", "positions", "decide"} =>
          (r.action = "syncMigration" => r.view.launch.registered)
    /\ r.threw /\ r.pc \in {"positions", "decide"} => Reread(r.action, r.view)

CrankIInv ==
    /\ IInv
    /\ crank \in [Crankers -> Runs]
    /\ \A c \in Crankers : RunInv(crank[c])

\* The invariant of a run survives whatever the chain does.
LEMMA RunCarriesOver ==
  ASSUME IInv, ChainStep, NEW r \in Runs, RunInv(r)
  PROVE  RunInv(r)'
<1>1. Onward
  BY ChainStepOnward
<1>2. \A kind : WasDue(kind) => WasDue(kind)'
  BY <1>1 DEF WasDue, Onward, OneShots
<1>3. Sound(r.view)'
  BY <1>1 DEF Sound, Onward, RunInv
<1> QED BY <1>2, <1>3 DEF RunInv, WasDue, Sound, Reread, OneShots

LEMMA IdleInv == RunInv(Idle)
BY DEF RunInv, Idle, NothingRead, Unread, NoLaunch, Sound

LEMMA DueWasDue ==
  ASSUME IInv, NEW v \in Views, Sound(v), NEW kind \in Due(v)
  PROVE  WasDue(kind)
<1>1. launch.registered => dbc.exists /\ ~dbc.reservedName
  BY DEF IInv, Latches, LatchesAgree
<1>2. CASE ~(v.exists /\ (v.launch.registered \/ ~v.reserved))
  <2>1. kind = "burnClaimerBase"
    BY <1>2 DEF Due, DueWithoutPool, BurnDue
  <2> QED BY <2>1 DEF WasDue, OneShots
<1>3. CASE v.exists /\ (v.launch.registered \/ ~v.reserved)
  <2>1. dbc.exists /\ ~dbc.reservedName
    BY <1>1, <1>3 DEF Sound
  <2>2. CASE kind \in OneShotsDue(v)
    BY <2>1, <2>2 DEF OneShotsDue, Sound, WasDue, OneShots, Progress, Views
  <2>3. CASE kind \in HarvestsDue(v) \/ kind \in BurnDue(v)
    <3>1. kind \in {"harvestCurveFees", "harvestLpFees", "burnClaimerBase"}
      BY <2>3 DEF HarvestsDue, BurnDue
    <3> QED BY <3>1 DEF WasDue, OneShots
  <2> QED BY <1>3, <2>2, <2>3 DEF Due, DueWithPool
<1> QED BY <1>2, <1>3

\* A step of a run leaves it with the invariant, before the chain has moved.
LEMMA CrankingRun ==
  ASSUME CrankIInv, NEW c \in Crankers, Cranking(c)
  PROVE  \E s \in Runs : crank' = [crank EXCEPT ![c] = s] /\ RunInv(s)
<1> DEFINE r == crank[c]
<1>0. /\ TypeOK /\ IInv /\ RunInv(r)
      /\ r \in Runs /\ r.view \in Views /\ r.failed \subseteq Kinds
      /\ r.action \in Kinds \cup {"none"} /\ r.sent \in 0..MaxActions /\ r.threw \in BOOLEAN
  BY DEF CrankIInv, IInv, Runs
<1>1. CASE StartRun(c) \/ ReadLaunch(c)
  <2> DEFINE s == [r EXCEPT !.pc = "snapshot", !.view = Unread]
  <2>1. crank' = [crank EXCEPT ![c] = s]
    BY <1>1 DEF StartRun, ReadLaunch, CrankIInv
  <2>2. s \in Runs
    BY <1>0, ViewsTyped DEF Runs
  <2>3. /\ s.pc = "snapshot" /\ s.view = Unread /\ s.threw = r.threw /\ s.action = r.action
    BY <1>0 DEF Runs
  <2>4. Sound(Unread)
    BY DEF Sound, Unread
  <2>5. Unread.launch = launch
    BY DEF Unread
  <2> HIDE DEF s
  <2>6. RunInv(s)
    BY <1>0, <2>3, <2>4, <2>5 DEF RunInv, WasDue
  <2> QED BY <2>1, <2>2, <2>6
<1>2. CASE ReadSnapshot(c)
  <2> DEFINE v == SnapshotOf(r.view)
             s == [r EXCEPT !.view = v, !.pc = IF Migrated(v) THEN "positions" ELSE "decide"]
  <2>1. crank' = [crank EXCEPT ![c] = s]
    BY <1>2 DEF ReadSnapshot, CrankIInv
  <2>2. s \in Runs
    BY <1>0, ViewsTyped DEF Runs
  <2>3. /\ s.pc \in {"positions", "decide"} /\ s.view = v
        /\ s.threw = r.threw /\ s.action = r.action
    BY <1>0 DEF Runs
  <2>4. /\ v.launch = r.view.launch /\ v.exists = dbc.exists
        /\ v.reserved = (~r.view.launch.registered /\ dbc.reservedName)
        /\ v.complete = (dbc.exists /\ dbc.reserve >= Threshold)
        /\ v.feeWithdrawn = dbc.feeWithdrawn /\ v.surplusWithdrawn = dbc.surplusWithdrawn
        /\ v.progress = dbc.progress
    BY <1>0 DEF SnapshotOf, Views, IsCurveComplete
  <2> HIDE DEF v, s
  <2>5. r.pc = "snapshot"
    BY <1>2 DEF ReadSnapshot
  <2>6. Sound(v)
    BY <1>0, <2>4 DEF RunInv, Sound
  <2>7. r.threw => Reread(r.action, v)
    BY <1>0, <2>4 DEF RunInv, WasDue, Reread, OneShots
  <2>8. RunInv(s)
    BY <1>0, <2>3, <2>4, <2>5, <2>6, <2>7 DEF RunInv
  <2> QED BY <2>1, <2>2, <2>8
<1>3. CASE ReadPositions(c)
  <2> DEFINE v == [r.view EXCEPT !.lpDue = lp["own"].quote >= MinLpFee]
             s == [r EXCEPT !.view = v, !.pc = "decide"]
  <2>1. crank' = [crank EXCEPT ![c] = s]
    BY <1>3 DEF ReadPositions, CrankIInv
  <2>2. v \in Views
    <3>1. (lp["own"].quote >= MinLpFee) \in BOOLEAN
      OBVIOUS
    <3> QED BY <1>0, <3>1, ViewsTyped
  <2>3. s \in Runs
    BY <1>0, <2>2 DEF Runs
  <2>4. /\ s.pc = "decide" /\ s.view = v /\ s.threw = r.threw /\ s.action = r.action
    BY <1>0 DEF Runs
  <2>5. /\ v.launch = r.view.launch /\ v.exists = r.view.exists
        /\ v.reserved = r.view.reserved /\ v.complete = r.view.complete
        /\ v.feeWithdrawn = r.view.feeWithdrawn
        /\ v.surplusWithdrawn = r.view.surplusWithdrawn /\ v.progress = r.view.progress
    BY <1>0 DEF Views
  <2> HIDE DEF v, s
  <2>6. r.pc = "positions"
    BY <1>3 DEF ReadPositions
  <2>7. Sound(v) /\ (r.threw => Reread(r.action, v))
    BY <1>0, <2>5, <2>6 DEF RunInv, Sound, Reread
  <2>8. RunInv(s)
    BY <1>0, <2>4, <2>5, <2>6, <2>7 DEF RunInv
  <2> QED BY <2>1, <2>3, <2>8
<1>4. CASE Decide(c)
  <2>1. CASE RunOver(r)
    <3>1. crank' = [crank EXCEPT ![c] = Idle]
      BY <1>4, <2>1 DEF Decide
    <3> QED BY <1>0, <3>1, IdleTyped, IdleInv
  <2>2. CASE ~RunOver(r)
    <3> DEFINE kind == First(Candidates(r))
               s == [r EXCEPT !.pc = "send", !.sent = @ + 1, !.threw = FALSE,
                              !.failed = FailedKeys(r), !.action = kind, !.view = NothingRead]
    <3>1. crank' = [crank EXCEPT ![c] = s]
      BY <1>4, <2>2 DEF Decide
    <3>2. kind \in Kinds /\ kind \in Due(r.view)
      <4>1. Candidates(r) \in SUBSET Kinds /\ Candidates(r) # {}
        BY <2>2, DueKinds DEF RunOver, Candidates
      <4>2. kind \in Candidates(r)
        BY <4>1, FirstIsDue
      <4> QED BY <4>1, <4>2 DEF Candidates
    <3>3. FailedKeys(r) \subseteq Kinds
      BY <1>0, DueKinds DEF FailedKeys, StillDue
    <3>4. r.sent + 1 \in 0..MaxActions
      BY <1>0, <2>2, CrankAssumption DEF RunOver
    <3> HIDE DEF kind
    <3>5. s \in Runs
      BY <1>0, <3>2, <3>3, <3>4, ViewsTyped DEF Runs
    <3>6. s.pc = "send" /\ s.threw = FALSE /\ s.action = kind /\ s.view = NothingRead
      BY <1>0 DEF Runs
    <3> HIDE DEF s
    <3>7. WasDue(kind)
      BY <1>0, <3>2, DueWasDue DEF RunInv
    <3>8. Sound(NothingRead)
      BY IdleInv DEF RunInv, Idle
    <3>9. RunInv(s)
      BY <3>2, <3>6, <3>7, <3>8 DEF RunInv
    <3> QED BY <3>1, <3>5, <3>9
  <2> QED BY <2>1, <2>2
<1>5. CASE SendConfirmed(c) \/ SendUnconfirmed(c) \/ SendFails(c)
  <2>1. PICK threw \in BOOLEAN : Sent(c, threw)
    BY <1>5 DEF SendConfirmed, SendUnconfirmed, SendFails
  <2> DEFINE s == [r EXCEPT !.pc = "launch", !.threw = threw,
                            !.action = IF threw THEN @ ELSE "none"]
  <2>2. crank' = [crank EXCEPT ![c] = s]
    BY <2>1 DEF Sent, CrankIInv
  <2>3. s \in Runs
    BY <1>0 DEF Runs
  <2>4. /\ s.pc = "launch" /\ s.threw = threw /\ s.view = r.view
        /\ threw => s.action = r.action
    BY <1>0 DEF Runs
  <2>5. r.pc = "send"
    BY <1>5 DEF SendConfirmed, SendUnconfirmed, SendFails
  <2> HIDE DEF s
  <2>6. RunInv(s)
    BY <1>0, <2>4, <2>5 DEF RunInv
  <2> QED BY <2>2, <2>3, <2>6
<1>6. CASE AbortRun(c)
  BY <1>0, <1>6, IdleTyped, IdleInv DEF AbortRun
<1> QED BY <1>1, <1>2, <1>3, <1>4, <1>5, <1>6 DEF Cranking

\* What a run does to the chain.
LEMMA CrankingOnChain ==
  ASSUME CrankIInv, NEW c \in Crankers, Cranking(c)
  PROVE  ChainStep
<1>1. CASE SendConfirmed(c) \/ SendUnconfirmed(c)
  <2>1. crank[c].action \in Kinds /\ Instruction(crank[c].action)
    BY <1>1 DEF SendConfirmed, SendUnconfirmed, CrankIInv, RunInv
  <2> QED BY <2>1, InstructionOnChain
<1>2. CASE UNCHANGED vars
  BY <1>2 DEF ChainStep
<1>3. StartRun(c) \/ ReadLaunch(c) \/ ReadSnapshot(c) \/ ReadPositions(c) => UNCHANGED vars
  BY DEF StartRun, ReadLaunch, ReadSnapshot, ReadPositions
<1>4. Decide(c) \/ SendFails(c) \/ AbortRun(c) => UNCHANGED vars
  BY DEF Decide, SendFails, AbortRun
<1> QED BY <1>1, <1>2, <1>3, <1>4 DEF Cranking

LEMMA CrankNextInv ==
  ASSUME CrankIInv, [CrankNext]_crankVars
  PROVE  CrankIInv'
<1>1. CASE UNCHANGED crank /\ ChainStep
  <2>1. IInv'
    BY <1>1, ChainStepOnward DEF CrankIInv
  <2>2. ASSUME NEW d \in Crankers PROVE RunInv(crank[d])'
    <3>1. PICK r \in Runs : r = crank[d]
      BY DEF CrankIInv
    <3>2. RunInv(r)'
      BY <1>1, <3>1, RunCarriesOver DEF CrankIInv
    <3>3. crank'[d] = r
      BY <1>1, <3>1
    <3> QED BY <3>2, <3>3 DEF RunInv, Sound, WasDue, Reread
  <2> QED BY <1>1, <2>1, <2>2 DEF CrankIInv
<1>2. ASSUME NEW c \in Crankers, Cranking(c) PROVE CrankIInv'
  <2>1. ChainStep
    BY <1>2, CrankingOnChain
  <2>2. PICK s \in Runs : crank' = [crank EXCEPT ![c] = s] /\ RunInv(s)
    BY <1>2, CrankingRun
  <2>3. IInv'
    BY <2>1, ChainStepOnward DEF CrankIInv
  <2>4. crank' \in [Crankers -> Runs]
    BY <2>2 DEF CrankIInv
  <2>5. ASSUME NEW d \in Crankers PROVE RunInv(crank[d])'
    <3>1. PICK r \in Runs : r = (IF d = c THEN s ELSE crank[d]) /\ RunInv(r)
      BY <2>2 DEF CrankIInv
    <3>2. RunInv(r)'
      BY <2>1, <3>1, RunCarriesOver DEF CrankIInv
    <3>3. crank'[d] = r
      BY <2>2, <3>1 DEF CrankIInv
    <3> QED BY <3>2, <3>3 DEF RunInv, Sound, WasDue, Reread
  <2> QED BY <2>3, <2>4, <2>5 DEF CrankIInv
<1>3. Others => UNCHANGED crank /\ ChainStep
  BY DEF Others, ChainStep, Next, Program
<1>4. UNCHANGED crankVars => UNCHANGED crank /\ ChainStep
  BY DEF crankVars, ChainStep
<1> QED BY <1>1, <1>2, <1>3, <1>4 DEF CrankNext

LEMMA CrankInvariant == CrankSpec => []CrankIInv
<1>1. CrankInit => CrankIInv
  <2> SUFFICES ASSUME CrankInit PROVE CrankIInv
    OBVIOUS
  <2>1. IInv
    BY InitIInv DEF CrankInit
  <2>2. Idle \in Runs
    BY <2>1, IdleTyped DEF IInv
  <2> QED BY <2>1, <2>2, IdleInv DEF CrankInit, CrankIInv
<1>2. CrankIInv /\ [CrankNext]_crankVars => CrankIInv'
  BY CrankNextInv
<1> QED BY <1>1, <1>2, PTL DEF CrankSpec

(***************************************************************************)
(* A run stays within what runCrank may hold: its awaits, the kinds of     *)
(* actions, and at most MaxActions transactions.                           *)
(***************************************************************************)
THEOREM CrankTypesTheorem == CrankSpec => []CrankTypeOK
<1>1. CrankIInv => CrankTypeOK
  BY DEF CrankIInv, CrankTypeOK, Runs
<1> QED BY <1>1, CrankInvariant, PTL

(***************************************************************************)
(* A one-shot action that a run takes for done by somebody else, because   *)
(* sending it threw and it is no longer due, has been done: for any number *)
(* of crankers and whoever else sends the same instructions.               *)
(***************************************************************************)
THEOREM SkippedTheorem == CrankSpec => []SkippedWasDone
<1>1. ASSUME CrankIInv PROVE SkippedWasDone
  <2> SUFFICES ASSUME NEW c \in Crankers, Skips(c) PROVE DoneOnChain(crank[c].action)
    BY DEF SkippedWasDone
  <2> DEFINE r == crank[c]
             v == r.view
  <2>1. /\ r.pc = "decide" /\ r.threw /\ r.action \notin Due(v)
        /\ r.action \in Kinds /\ Sound(v) /\ Reread(r.action, v)
        /\ r.action = "syncMigration" => v.launch.registered
        /\ v \in Views
    BY <1>1 DEF Skips, StillDue, CrankIInv, RunInv, Runs
  <2>2. LatchesAgree
    BY <1>1 DEF CrankIInv, IInv, Latches
  <2> HIDE DEF v
  <2>3. CASE r.action \in OneShots
    <3>1. r.action \notin OneShotsDue(v)
      BY <2>1, <2>3 DEF Due, DueWithPool, Reread
    <3> QED BY <2>1, <2>2, <2>3, <3>1 DEF OneShotsDue, OneShots, Reread, Sound, LatchesAgree,
              DoneOnChain, IsMigrationComplete, Views, Progress
  <2>4. CASE r.action \notin OneShots
    BY <2>4 DEF DoneOnChain, OneShots
  <2> QED BY <2>3, <2>4
<1> QED BY <1>1, CrankInvariant, PTL
=============================================================================
