------------------------------ MODULE Preflight ------------------------------
(***************************************************************************)
(* The go / no-go table in front of a mainnet run (scripts/c2/preflight.ts,*)
(* checks.ts program-state, lib.ts) and the deploy it is for: a program is *)
(* written into a buffer chunk by chunk, interrupted, gone on with, and    *)
(* meanwhile the binary may be rebuilt.  A binary is a sequence of bytes,  *)
(* its hash the sequence itself; a chunk is a byte; a rent is the rent's   *)
(* lamports for a byte, a fee one lamport.                                 *)
(***************************************************************************)
EXTENDS Integers, Sequences

CONSTANTS
    Binaries,  \* what stockfloor.so may be
    Block,     \* --max-len is a multiple of so many bytes
    Deposits,  \* what the deployer may begin with
    MaxChanges \* bound: rebuilds, interruptions

VARIABLES
    local,     \* target/deploy/stockfloor.so
    rehearsed, \* the binary of the newest rehearsal report
    buffer,    \* the account of the deploy buffer's keypair
    program,   \* the programdata of the program id
    sol,       \* of the deployer
    wallets,   \* the demo wallets
    done,      \* whose spending step is recorded
    unrecorded,\* whose spending step landed in a pass that died before it was recorded
    stage,     \* how far the run is
    image,     \* the binary the deploy command has read
    changed,   \* history: rebuilt since the last preflight, or its hash given to it
    refused,   \* the last deploy was refused by the command itself
    changes

vars == <<local, rehearsed, buffer, program, sol, wallets, done, unrecorded, stage, image, changed, refused, changes>>

Roles == {"creator", "buyer1"}
Nothing == [tag |-> 0, authority |-> "none", payload |-> <<>>]
Quiet == [endpoint |-> [surfnet |-> FALSE, genesis |-> "mainnet", loopback |-> FALSE, answers |-> TRUE],
          keypair |-> TRUE, mint |-> "ok", price |-> "near", meteora |-> "same", fees |-> "low",
          pauseWindow |-> FALSE, approved |-> TRUE, uri |-> TRUE]
Endpoints == [surfnet : BOOLEAN, genesis : {"mainnet", "other"}, loopback : BOOLEAN, answers : BOOLEAN]
\* What else the table looks at, as it should be or with one thing not.
Worlds ==
    {Quiet} \union {[Quiet EXCEPT !.endpoint = e] : e \in Endpoints} \union {[Quiet EXCEPT !.mint = m] : m \in {"paused", "hook", "missing"}}
    \union {[Quiet EXCEPT !.price = p, !.fees = f] : p \in {"far", "none"}, f \in {"low", "high", "none"}}
    \union {[Quiet EXCEPT !.meteora = m] : m \in {"other", "unreadable"}}
    \union {[Quiet EXCEPT !.keypair = FALSE], [Quiet EXCEPT !.pauseWindow = TRUE], [Quiet EXCEPT !.approved = FALSE, !.uri = FALSE]}
\* What a run.sh pass may hand on: the cluster it is for, a hash that replaces the
\* rehearsed one, the headroom dropped, another DBC or DAMM v2 accepted or not looked at.
Quietly == [expect |-> "mainnet", sha |-> <<>>, headroom |-> TRUE, meteora |-> "check"]
Flags == {Quietly, [Quietly EXCEPT !.expect = "surfnet"], [Quietly EXCEPT !.sha = local],
          [Quietly EXCEPT !.headroom = FALSE], [Quietly EXCEPT !.meteora = "accept"],
          [Quietly EXCEPT !.meteora = "skip"]}

-----------------------------------------------------------------------------
(* lib.ts.                                                                 *)

\* A surfnet says so whatever its host; a loopback host is never mainnet.
ClassifyCluster(e) ==
    CASE ~e.answers -> "unknown"
      [] e.answers /\ e.surfnet -> "surfnet"
      [] e.answers /\ ~e.surfnet /\ e.genesis = "mainnet" /\ ~e.loopback -> "mainnet"
      [] e.answers /\ ~e.surfnet /\ e.loopback -> "local"
      [] OTHER -> "unknown"

RentExempt(space) == 128 + space
MaxLen(elf) == (Len(elf) \div Block + 1) * Block

\* The payload against the local ELF: beyond it nothing but zeros is expected, and a zero
\* says nothing anywhere.
ExpectedByte(elf, i) == IF i <= Len(elf) THEN elf[i] ELSE 0
\* Mutant: only as far as the local ELF goes.
InspectPrefix(b, elf) ==
    [tag |-> b.tag, authority |-> b.authority, capacity |-> Len(b.payload),
     resumable |-> b.tag = 1 /\ \A i \in DOMAIN b.payload \intersect DOMAIN elf :
                                    b.payload[i] \in {ExpectedByte(elf, i), 0}]
InspectDeployBuffer(b, elf) ==
    [tag |-> b.tag, authority |-> b.authority, capacity |-> Len(b.payload),
     resumable |-> b.tag = 1 /\ \A i \in DOMAIN b.payload : b.payload[i] \in {ExpectedByte(elf, i), 0}]

\* The whole payload, its first bytes, and whether only padding follows.
ProgramElfSha256(payload, bytes) ==
    [sha256 |-> payload, size |-> Len(payload),
     prefixSha256 |-> IF Len(payload) >= bytes THEN SubSeq(payload, 1, bytes) ELSE <<-1>>,
     paddingZero |-> \A i \in bytes + 1 .. Len(payload) : payload[i] = 0]
ElfMatches(deployed, sha, bytes) ==
    IF deployed.size = bytes THEN deployed.sha256 = sha
    ELSE deployed.prefixSha256 = sha /\ deployed.paddingZero

\* checks.ts program-state.
ProgramState ==
    CASE program = <<>> -> "absent"
      [] program # <<>> /\ ElfMatches(ProgramElfSha256(program, Len(local)), local, Len(local)) -> "match"
      [] OTHER -> "mismatch"

-----------------------------------------------------------------------------
(* The table.                                                              *)

RowStatus(ok, warn) == IF ok THEN IF warn THEN "WARN" ELSE "GO" ELSE "NO-GO"
Warn(fine) == RowStatus(TRUE, ~fine)

\* A hash of the command line is never more than a warning.
BinaryRow(flags) ==
    RowStatus(local = IF flags.sha # <<>> THEN flags.sha ELSE rehearsed, flags.sha # <<>>)

DeployBufferRow ==
    LET state == InspectDeployBuffer(buffer, local)
    IN  RowStatus(buffer = Nothing \/ (state.resumable /\ state.authority = "deployer"), FALSE)

ProgramIdRow ==
    CASE ProgramState = "absent" -> "GO" [] ProgramState = "match" -> "WARN" [] OTHER -> "NO-GO"

\* Two accounts and a fee for each transaction.
DeployCost(elf) == RentExempt(MaxLen(elf) + 45) + RentExempt(36) + 2 + Len(elf)

\* Recommended: enough for one upgrade on top, which needs the programdata's rent once more.
FundDeployerRow(flags) ==
    LET upgradeNeed == IF flags.headroom THEN RentExempt(Len(rehearsed) + 45) ELSE 0
    IN  RowStatus(sol >= DeployCost(local), sol < (DeployCost(local) * 102) \div 100 + 5 + upgradeNeed)

\* A wallet whose step is recorded needs its tokens no more; the creator, who has no other
\* step, nothing at all.
SolSpent == [creator |-> 32, buyer1 |-> 2]
SolRecommended == [creator |-> 60, buyer1 |-> 20]
SpyxPlan == [creator |-> 10, buyer1 |-> 50]
Supplied(role) == [sol |-> SolRecommended[role], spyx |-> (SpyxPlan[role] * 11) \div 10]
WalletRow(role) ==
    LET finished == role = "creator" /\ role \in done
        solNeeded == IF finished THEN 0 ELSE SolSpent[role]
        spyxNeeded == IF role \in done THEN 0 ELSE SpyxPlan[role]
        w == wallets[role]
    IN  RowStatus(w.sol >= solNeeded /\ w.spyx >= spyxNeeded,
                  (~finished /\ w.sol < SolRecommended[role]) \/ w.spyx * 100 < spyxNeeded * 110)

MeteoraRow(flags, world) ==
    CASE flags.meteora = "skip" \/ world.meteora = "unreadable" -> "WARN"
      [] world.meteora = "same" /\ flags.meteora # "skip" -> "GO"
      [] OTHER -> IF flags.meteora = "accept" THEN "WARN" ELSE "NO-GO"

RpcRow(flags, world) == RowStatus(ClassifyCluster(world.endpoint) = flags.expect, FALSE)
KeypairRow(world) == RowStatus(world.keypair, FALSE)
RentRow == Warn(DeployCost(local) <= DeployCost(rehearsed))
QuoteMintRow(world) == RowStatus(world.mint = "ok", FALSE)
PriceRow(world) == Warn(world.price = "near")
PriorityFeeRow(world) == Warn(world.fees = "low")
LastRows(world) == [timing |-> Warn(~world.pauseWindow), approval |-> Warn(world.approved), tokenUri |-> Warn(world.uri)]

\* Without an endpoint nothing else can be looked at.
Rows(flags, world) ==
    IF ClassifyCluster(world.endpoint) = "unknown" THEN [rpc |-> RpcRow(flags, world)]
    ELSE [rpc |-> RpcRow(flags, world), binary |-> BinaryRow(flags), keypair |-> KeypairRow(world),
          deployBuffer |-> DeployBufferRow, programId |-> ProgramIdRow, rent |-> RentRow,
          quoteMint |-> QuoteMintRow(world), price |-> PriceRow(world), deployer |-> FundDeployerRow(flags),
          creator |-> WalletRow("creator"), buyer1 |-> WalletRow("buyer1"),
          meteora |-> MeteoraRow(flags, world), priorityFee |-> PriorityFeeRow(world),
          timing |-> LastRows(world).timing, approval |-> LastRows(world).approval,
          tokenUri |-> LastRows(world).tokenUri]

Verdict(flags, world) ==
    LET rows == Rows(flags, world) IN IF \E id \in DOMAIN rows : rows[id] = "NO-GO" THEN "NO-GO" ELSE "GO"

-----------------------------------------------------------------------------
Init ==
    /\ local \in Binaries /\ rehearsed = local /\ program = <<>> /\ image = <<>>
    /\ buffer \in {Nothing, [tag |-> 1, authority |-> "other", payload |-> local]}
    /\ sol \in Deposits
    /\ wallets = [r \in Roles |-> Supplied(r)]
    /\ done = {} /\ unrecorded = {} /\ stage = "idle" /\ changed = FALSE /\ refused = FALSE /\ changes = 0

Change == changes < MaxChanges /\ changes' = changes + 1
binaries == <<local, rehearsed>>
runVars == <<stage, image, changed, refused>>
purse == <<sol, wallets, done, unrecorded>>

\* A build, whatever the run is doing.
Rebuild ==
    /\ Change /\ \E elf \in Binaries \ {local} : local' = elf
    /\ changed' = TRUE
    /\ UNCHANGED <<rehearsed, buffer, program, purse, stage, image, refused>>

Rehearse ==
    /\ stage = "idle" /\ rehearsed # local /\ rehearsed' = local
    /\ UNCHANGED <<local, buffer, program, purse, runVars, changes>>

\* The run goes on after GO, a mainnet run on mainnet.
RunPreflight(flags, world) ==
    /\ stage = "idle"
    /\ stage' = IF Verdict(flags, world) = "GO" /\ flags.expect = "mainnet" THEN "go" ELSE "idle"
    /\ changed' = (flags.sha # <<>>)
    /\ UNCHANGED <<binaries, buffer, program, purse, image, refused, changes>>

\* What the operator does about a blocker: returns the rent of a buffer that holds another
\* binary or that the command does not take, tops up the deployer or a wallet.
CloseBuffers ==
    /\ stage = "idle" /\ buffer.tag = 1 /\ buffer.authority = "deployer"
    /\ DeployBufferRow = "NO-GO" \/ refused
    /\ sol' = sol + RentExempt(Len(buffer.payload) + 37)
    /\ buffer' = Nothing /\ refused' = FALSE
    /\ UNCHANGED <<binaries, program, wallets, done, unrecorded, stage, image, changed, changes>>
TopUp ==
    /\ stage = "idle" /\ sol < DeployCost(local) /\ sol' = DeployCost(local)
    /\ UNCHANGED <<binaries, buffer, program, wallets, done, unrecorded, runVars, changes>>

TopUpWallet(role) ==
    /\ stage = "idle" /\ WalletRow(role) = "NO-GO" /\ wallets' = [wallets EXCEPT ![role] = Supplied(role)]
    /\ UNCHANGED <<binaries, buffer, program, sol, done, unrecorded, runVars, changes>>

-----------------------------------------------------------------------------
(* The deploy step.                                                        *)

\* What is still to be paid of a deploy.
Remaining ==
    RentExempt(MaxLen(local) + 45) + RentExempt(36) + 1 + Len(local)
    + IF buffer = Nothing THEN 1 ELSE -RentExempt(Len(buffer.payload) + 37)

\* A program that is there already is taken for deployed, or ends the run.  The command
\* looks at the deployer's balance, reads the binary, makes the buffer unless there is one.
DeployBegins ==
    /\ stage = "go"
    /\ stage' = CASE ProgramState = "match" -> "deployed"
                  [] ProgramState = "absent" /\ sol >= Remaining -> "writing"
                  [] OTHER -> "idle"
    /\ image' = IF stage' = "writing" THEN local ELSE image
    /\ refused' = FALSE
    /\ IF stage' = "writing" /\ buffer = Nothing
       THEN /\ buffer' = [tag |-> 1, authority |-> "deployer", payload |-> [i \in 1 .. MaxLen(local) |-> 0]]
            /\ sol' = sol - RentExempt(MaxLen(local) + 37) - 1
       ELSE UNCHANGED <<buffer, sol>>
    /\ UNCHANGED <<binaries, program, wallets, done, unrecorded, changed, changes>>

\* Chunks land in any order; one that holds something may be taken for written.
Unwritten == {i \in DOMAIN image \intersect DOMAIN buffer.payload : buffer.payload[i] # image[i]}
WriteChunk ==
    /\ stage = "writing"
    /\ \E i \in Unwritten : buffer' = [buffer EXCEPT !.payload[i] = image[i]]
    /\ sol' = sol - 1
    /\ UNCHANGED <<binaries, program, wallets, done, unrecorded, runVars, changes>>

\* A buffer too small for the binary or too large for --max-len is refused.
DeployFinishes ==
    /\ stage = "writing" /\ \A i \in Unwritten : buffer.payload[i] # 0
    /\ IF Len(buffer.payload) \in Len(image) .. MaxLen(image)
       THEN /\ program' = buffer.payload \o [i \in 1 .. MaxLen(image) - Len(buffer.payload) |-> 0]
            /\ buffer' = Nothing /\ stage' = "verify" /\ UNCHANGED refused
            /\ sol' = sol + RentExempt(Len(buffer.payload) + 37) - RentExempt(MaxLen(image) + 45) - RentExempt(36) - 1
       ELSE stage' = "idle" /\ refused' = TRUE /\ UNCHANGED <<program, buffer, sol>>
    /\ UNCHANGED <<binaries, wallets, done, unrecorded, image, changed, changes>>

Verify ==
    /\ stage = "verify" /\ stage' = IF ProgramState = "match" THEN "deployed" ELSE "idle"
    /\ UNCHANGED <<binaries, buffer, program, purse, image, changed, refused, changes>>

\* The later steps, in any order: each takes the tokens of its wallet and some of its SOL,
\* and is recorded after that.  stage is the role whose record is due.
Spend(role) ==
    /\ stage = "deployed" /\ role \notin done
    /\ wallets[role].sol >= SolSpent[role] /\ wallets[role].spyx >= SpyxPlan[role]
    /\ stage' = role
    /\ wallets' = [wallets EXCEPT ![role] = [sol |-> @.sol - SolSpent[role], spyx |-> @.spyx - SpyxPlan[role]]]
    /\ UNCHANGED <<binaries, buffer, program, sol, done, unrecorded, image, changed, refused, changes>>
RecordStep ==
    /\ stage \in Roles
    /\ done' = done \union {stage} /\ unrecorded' = unrecorded \ {stage} /\ stage' = "deployed"
    /\ UNCHANGED <<binaries, buffer, program, sol, wallets, image, changed, refused, changes>>

\* The session of a launch that has landed sends nothing more, and the step is recorded.
LaunchResumed ==
    /\ stage = "deployed" /\ "creator" \in unrecorded /\ stage' = "creator"
    /\ UNCHANGED <<binaries, buffer, program, purse, image, changed, refused, changes>>

\* A failed transaction, a kill, an answer at a prompt; also between a landing and its record.
Interrupted ==
    /\ stage # "idle" /\ Change /\ stage' = "idle"
    /\ unrecorded' = unrecorded \union ({stage} \intersect Roles)
    /\ UNCHANGED <<binaries, buffer, program, sol, wallets, done, image, changed, refused>>

\* What has landed is skipped by whoever is asked, and sent again by a pass that asks nobody.
Again(role) == role \in unrecorded \ {"creator"} /\ Spend(role)

Goes ==
    \/ DeployBegins \/ WriteChunk \/ DeployFinishes \/ Verify \/ RecordStep \/ LaunchResumed
    \/ \E r \in Roles \ unrecorded : Spend(r)
Repairs == CloseBuffers \/ TopUp \/ Rehearse \/ \E r \in Roles : TopUpWallet(r)

Next ==
    \/ Rebuild \/ Interrupted \/ CloseBuffers \/ TopUp \/ Rehearse \/ (\E r \in Roles : TopUpWallet(r) \/ Again(r))
    \/ \E flags \in Flags, world \in Worlds : RunPreflight(flags, world)
    \/ Goes

\* The operator runs it again, when all is as it should be too, and acts on what the table
\* says; commands end.
Fairness == WF_vars(RunPreflight(Quietly, Quiet)) /\ WF_vars(Goes) /\ SF_vars(Repairs)
Spec == Init /\ [][Next]_vars /\ Fairness

-----------------------------------------------------------------------------
TypeOK ==
    /\ local \in Binaries /\ rehearsed \in Binaries /\ done \subseteq Roles
    /\ unrecorded \subseteq Roles /\ stage \in {"idle", "go", "writing", "verify", "deployed"} \union Roles
    /\ buffer.tag \in {0, 1} /\ changes \in 0 .. MaxChanges

\* The rent of the program is paid for the binary that was rehearsed, byte for byte with
\* nothing but zeros behind, however often its deploy was interrupted and other binaries
\* were begun before; unless it is rebuilt between the table and the deploy, or its hash
\* is given on the command line.
DeployedIsLocal ==
    stage = "verify" /\ ~changed =>
        program = image \o [i \in 1 .. Len(program) - Len(image) |-> 0] /\ image = local /\ image = rehearsed

\* A deploy that GO was said to is paid for to its end.
DeployIsPaid == stage = "go" /\ ~changed /\ ProgramState = "absent" => sol >= Remaining

\* A run that moved money is never blocked by the wallets it moved it from, unless it died
\* after the transaction landed and before the step was recorded.
WalletsNeverBlock == \A r \in Roles \ (unrecorded \union {stage}) : WalletRow(r) # "NO-GO"

Guarded == DeployedIsLocal /\ DeployIsPaid /\ WalletsNeverBlock

\* The run gets to its end, every step of it landed, unless something else holds the buffer's address or a binary
\* that was rebuilt in the middle the program id.
Gone == buffer.authority = "other" \/ ProgramState = "mismatch"
Ended == done \union unrecorded = Roles \/ Gone
RunEnds == <>Ended
=============================================================================
