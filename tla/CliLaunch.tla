------------------------------ MODULE CliLaunch ------------------------------
(***************************************************************************)
(* scripts/create-launch.ts with scripts/lib/launchSession.ts: the session *)
(* file is written before anything is sent, and --resume rebuilds the      *)
(* transactions from it and sends those that the chain does not show.  The *)
(* priority fee is not in the file: with another one, the first buy may    *)
(* fit the pool's transaction, or no longer fit.                           *)
(***************************************************************************)
EXTENDS LaunchTxs

VARIABLES
    files,  \* the session files: whether the launch has a first buy
    cli,    \* the command that is running: its launch, what it still has to send, and
            \* whether it could not read the creator's base
    resized \* history: launches resumed with another plan than the first

cliVars == <<files, cli, resized>>
cliLaunchVars == <<chain, plans, transit, late, faults, cliVars>>

CliOff == [pc |-> "off", l |-> 0, todo |-> {}, unread |-> FALSE]

CliInit ==
    /\ LaunchTxsInit
    /\ files = <<>> /\ cli = CliOff /\ resized = {}

\* Mutant: the file is written when the command ends.
WriteSessionLater(l, firstBuy) == files
WriteSession(l, firstBuy) == [k \in {l} \cup DOMAIN files |-> IF k = l THEN firstBuy ELSE files[k]]

Create ==
    /\ cli.pc # "send"
    /\ \E l \in Launches, firstBuy \in BOOLEAN :
          /\ Fresh(l)
          /\ \E plan \in Plans(firstBuy) :
                /\ plans' = [plans EXCEPT ![l] = plan]
                /\ cli' = [pc |-> "send", l |-> l, todo |-> plan, unread |-> FALSE]
          /\ files' = WriteSession(l, firstBuy)
    /\ UNCHANGED <<chain, transit, late, faults, resized>>

\* Mutants: nothing is looked up; the base balance is not read; the pool is not.
PendingAll(l, t, held) == TRUE
PendingBuyAlways(l, t, held) ==
    CASE t = "config" -> ~chain[l].launch
      [] t \in {"pool", "poolBuy"} -> ~chain[l].pool
      [] t = "buy" -> TRUE
PendingUnlessLaunch(l, t, held) == ~chain[l].launch
\* pendingLaunchSteps: a first buy has been made if the creator holds base (held).
Pending(l, t, held) ==
    CASE t = "config" -> ~chain[l].launch
      [] t \in {"pool", "poolBuy"} -> ~chain[l].pool
      [] t = "buy" -> ~held

\* A balance that cannot be read counts as none (create-launch.ts:118).
Resume ==
    /\ cli.pc # "send"
    /\ \E l \in DOMAIN files, unread \in BOOLEAN :
          /\ IF unread THEN Fault ELSE UNCHANGED faults
          /\ \E plan \in Plans(files[l]) :
                LET held == ~unread /\ chain[l].base
                IN  /\ cli' = [pc |-> "send", l |-> l, todo |-> {t \in plan : Pending(l, t, held)},
                               unread |-> unread]
                    /\ resized' = IF plan = plans[l] THEN resized ELSE resized \cup {l}
    /\ UNCHANGED <<chain, plans, transit, late, files>>

\* An error ends the command, as a kill does.
CliSend ==
    /\ cli.pc = "send" /\ cli.todo # {}
    /\ LET t == FirstOf(cli.todo)
       IN  \/ Confirmed(cli.l, t) /\ cli' = [cli EXCEPT !.todo = @ \ {t}]
           \/ (Refused(cli.l, t) \/ Unheard(cli.l, t)) /\ cli' = CliOff
    /\ UNCHANGED <<plans, files, resized>>

Exit ==
    /\ cli.pc = "send" /\ cli.todo = {}
    /\ cli' = [cli EXCEPT !.pc = "done"]
    /\ UNCHANGED <<chain, plans, transit, late, faults, files, resized>>

Crash ==
    /\ cli.pc = "send"
    /\ Fault
    /\ cli' = CliOff
    /\ UNCHANGED <<chain, plans, transit, late, files, resized>>

\* The creator sells what the first buy brought.
Sell ==
    /\ \E l \in Launches :
          /\ chain[l].base
          /\ chain' = [chain EXCEPT ![l].base = FALSE]
    /\ Fault
    /\ UNCHANGED <<plans, transit, late, cliVars>>

CliNext ==
    \/ Create \/ Resume \/ CliSend \/ Exit \/ Crash \/ Sell
    \/ (Lands \/ Expires) /\ UNCHANGED cliVars

ResumeOf(l) == Resume /\ cli'.l = l

\* A command that can go on does, and a launch whose command has failed is resumed.
CliFairness ==
    /\ WF_cliLaunchVars(CliSend) /\ WF_cliLaunchVars(Exit)
    /\ \A l \in Launches : SF_cliLaunchVars(~Complete(l) /\ ResumeOf(l))

CliSpec == CliInit /\ [][CliNext]_cliLaunchVars /\ CliFairness

-----------------------------------------------------------------------------

\* Types; at most the launches that were planned have a file.
CliTypeOK ==
    /\ LaunchTxsTypeOK
    /\ DOMAIN files \subseteq Launches /\ \A l \in DOMAIN files : files[l] \in BOOLEAN
    /\ cli.pc \in {"off", "send", "done"} /\ cli.l \in Launches \cup {0}
    /\ cli.todo \subseteq Labels /\ cli.unread \in BOOLEAN
    /\ resized \subseteq Launches

\* Whenever the command dies, the keypairs of what it has put on chain are in a
\* session file.
NothingOrphaned == \A l \in Launches : chain[l].launch => l \in DOMAIN files

\* Sold(l): the first buy can no longer be told from one never made.
Sold(l) == chain[l].buys > 0 /\ ~chain[l].base

\* Resumed at the fee it was planned with, a command that exits without an error
\* leaves a complete launch.
ExitMeansComplete == cli.pc = "done" /\ cli.l \notin resized => Complete(cli.l)

\* The same at any fee (create-launch.ts:17-18).
ResumeSendsMissing == cli.pc = "done" => Complete(cli.l)

\* Unread(l): the command that runs for the launch could not tell what it had bought.
Unread(l) == cli.pc = "send" /\ cli.l = l /\ cli.unread

\* A launch buys once, unless what it bought was sold or arrived late, or could not be
\* read by the command that buys again.
BuysOnce ==
    [][\A l \in Launches :
          chain'[l].buys > chain[l].buys =>
             chain[l].buys = 0 \/ Sold(l) \/ late'[l] > 0 \/ Unread(l)]_cliLaunchVars

\* Resumed until it is done, a launch becomes complete.
ResumedUntilComplete ==
    \A l \in Launches : chain[l].launch ~> (Complete(l) \/ l \in resized)

=============================================================================
