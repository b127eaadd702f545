----------------------------- MODULE SendGuards -----------------------------
(***************************************************************************)
(* What lets a command spend real money: the send guard of the SDK         *)
(* (packages/sdk/src/guard.ts) as the SDK's scripts use it                 *)
(* (scripts/lib/cli.ts) and as scripts/c2/fund.ts does, with a guard of    *)
(* its own in front of it (libfund.ts) and two ways to swap.  The guard is *)
(* looked at again before a transaction only when the last look is 30      *)
(* seconds old; the node behind the URL may be replaced at any time.       *)
(***************************************************************************)
EXTENDS Naturals

CONSTANT MaxReplaced \* bound: times the node is replaced

VARIABLES
    command,  \* its switches
    node,     \* what answers at the RPC URL
    at,       \* where the command is
    goal,     \* what the probe under way is for
    probe,    \* what it has read
    kind,     \* fund.ts: what the endpoint was at the start
    fresh,    \* the last look at the guard is less than 30 seconds old
    hash,     \* the node that gave the blockhash
    said,     \* history: the plan was confirmed, or needed no confirmation
    unseen,   \* history: the node was replaced where no look at the guard is due any more
    last,     \* history: what landed last, and where
    replaced

vars == <<command, node, at, goal, probe, kind, fresh, hash, said, unseen, last, replaced>>

Nodes == {"down", "validator", "surfnet", "mainnet"}
NoProbe == [genesis |-> "none", version |-> FALSE, method |-> FALSE]
Nowhere == [what |-> "nothing", node |-> "down", unseen |-> FALSE]

Commands ==
    [tool : {"sdk"}, loopback : BOOLEAN, flag : BOOLEAN, env : BOOLEAN,
     realMoney : {FALSE}, provider : {"default"}, yes : {TRUE}]
    \union [tool : {"fund"}, loopback : BOOLEAN, flag : BOOLEAN, env : BOOLEAN,
            realMoney : BOOLEAN, provider : {"default", "jupiter", "cheat"}, yes : BOOLEAN]

Init ==
    /\ command \in Commands /\ node \in Nodes
    /\ at = "start" /\ goal = "start" /\ probe = NoProbe /\ kind = "unknown"
    /\ fresh = FALSE /\ hash = "down" /\ said = FALSE
    /\ unseen = FALSE /\ last = Nowhere /\ replaced = 0

-----------------------------------------------------------------------------
(* The decisions.                                                          *)

Overridden == command.flag /\ command.env

\* evaluateSendGuard.  A fork of mainnet reports its genesis hash.
SdkMode(p) ==
    CASE Overridden -> "override"
      [] command.flag = command.env /\ ~Overridden /\ command.loopback /\ p.genesis = "other" -> "validator"
      [] /\ command.flag = command.env /\ ~Overridden /\ command.loopback
         /\ p.genesis = "mainnet" /\ p.version /\ p.method -> "surfnet"
      [] OTHER -> "refused"

Provider ==
    IF command.provider # "default" THEN command.provider
    ELSE IF kind = "mainnet" THEN "jupiter" ELSE "cheat"

\* evaluateFundGuard, on top of it: mainnet in the open and with Jupiter, or a fork with
\* the cheatcodes.
\* Mutant: the endpoint is what the switches say it is.
FundAllowsOverridden(mode) ==
    CASE mode = "override" -> ~command.loopback /\ command.realMoney /\ Provider = "jupiter"
      [] mode = "refused" -> FALSE
      [] OTHER -> Provider = "cheat"
FundAllows(mode) ==
    CASE mode = "override" ->
            ~command.loopback /\ kind = "mainnet" /\ command.realMoney /\ Provider = "jupiter"
      [] mode = "refused" -> FALSE
      [] OTHER -> Provider = "cheat"

-----------------------------------------------------------------------------
(* Looking at the endpoint, a request at a time.                           *)

Reads == UNCHANGED <<command, node, goal, said, last, replaced>>

\* fund.ts begins with classifyCluster, whose version comes before the genesis hash; a request
\* that fails leaves the kind unknown.
ClassifyVersion ==
    /\ at = "start" /\ command.tool = "fund"
    /\ IF node = "down" THEN at' = "probe" /\ kind' = "unknown"
       ELSE at' = "kind" /\ kind' = IF node = "surfnet" THEN "surfnet" ELSE "unknown"
    /\ UNCHANGED <<probe, fresh, hash, unseen>> /\ Reads

ClassifyGenesis ==
    /\ at = "kind" /\ at' = "probe"
    /\ kind' = CASE node = "down" -> "unknown"
                 [] node # "down" /\ kind = "surfnet" -> "surfnet"
                 [] node \in {"mainnet", "surfnet"} /\ kind = "unknown" /\ ~command.loopback -> "mainnet"
                 [] OTHER -> IF command.loopback THEN "local" ELSE "unknown"
    /\ UNCHANGED <<probe, fresh, hash, unseen>> /\ Reads

\* guardDecision, sdkGuard: an endpoint that would be refused anyway is not probed.
ProbeGenesis ==
    /\ at = "probe" \/ (at = "start" /\ command.tool = "sdk")
    /\ at' = IF (Overridden \/ command.loopback) /\ node # "down" THEN "version" ELSE "decide"
    /\ probe' = [NoProbe EXCEPT !.genesis = IF at' = "decide" THEN "none"
                                            ELSE IF node = "validator" THEN "other" ELSE "mainnet"]
    /\ unseen' = FALSE
    /\ UNCHANGED <<kind, fresh, hash>> /\ Reads

ProbeVersion ==
    /\ at = "version"
    /\ at' = IF node = "surfnet" THEN "method" ELSE "decide"
    /\ probe' = [probe EXCEPT !.version = node = "surfnet"]
    /\ UNCHANGED <<kind, fresh, hash, unseen>> /\ Reads

ProbeMethod ==
    /\ at = "method" /\ at' = "decide"
    /\ probe' = [probe EXCEPT !.method = node = "surfnet"]
    /\ UNCHANGED <<kind, fresh, hash, unseen>> /\ Reads

\* The answer at the start counts for what follows; later only the SDK's guard is asked.
Decide ==
    /\ at = "decide"
    /\ LET mode == SdkMode(probe)
           allowed == mode # "refused" /\ (goal = "start" /\ command.tool = "fund" => FundAllows(mode))
       IN  /\ at' = CASE ~allowed -> "ended"
                      [] allowed /\ goal = "start" -> IF command.tool = "fund" THEN "ask" ELSE "idle"
                      [] OTHER -> goal
           /\ fresh' = allowed
    /\ said' = (said \/ command.tool = "sdk")
    /\ UNCHANGED <<command, node, goal, probe, kind, hash, unseen, last, replaced>>

\* confirm: --yes, or an answer at a terminal; a plan that is complete asks nothing, and
\* what is missing is looked at again wallet by wallet.
Confirm ==
    /\ at = "ask" /\ at' \in IF command.yes THEN {"idle"} ELSE {"idle", "ended"}
    /\ said' = TRUE
    /\ UNCHANGED <<command, node, goal, probe, kind, fresh, hash, unseen, last, replaced>>

-----------------------------------------------------------------------------
(* Sending.                                                                *)

\* beforeSend of the sender.
BeforeSend ==
    /\ at = "idle" /\ goal' = "guarded"
    /\ at' = IF fresh THEN "guarded" ELSE "probe"
    /\ UNCHANGED <<command, node, probe, kind, fresh, hash, said, unseen, last, replaced>>

\* A transaction is good for the ledger its blockhash is of.
Sign ==
    /\ at = "guarded"
    /\ IF node = "down" THEN at' = "ended" /\ UNCHANGED hash ELSE at' = "signed" /\ hash' = node
    /\ UNCHANGED <<command, node, goal, probe, kind, fresh, said, unseen, last, replaced>>

Submit ==
    /\ at = "signed"
    /\ IF node = hash
       THEN at' = "idle" /\ last' = [what |-> "transaction", node |-> node, unseen |-> unseen]
       ELSE at' = "ended" /\ UNCHANGED last
    /\ UNCHANGED <<command, node, goal, probe, kind, fresh, hash, said, unseen, replaced>>

\* Jupiter's execute always asks the guard first, and sends through Jupiter.
JupiterExecutes ==
    /\ at = "idle" /\ command.tool = "fund" /\ Provider = "jupiter"
    /\ at' = "probe" /\ goal' = "swap"
    /\ UNCHANGED <<command, node, probe, kind, fresh, hash, said, unseen, last, replaced>>

JupiterLands ==
    /\ at = "swap" /\ at' = "idle"
    /\ last' = [what |-> "swap", node |-> "mainnet", unseen |-> unseen]
    /\ UNCHANGED <<command, node, goal, probe, kind, fresh, hash, said, unseen, replaced>>

\* The cheatcodes ask nobody, but go to a loopback address only, and only a surfnet has them.
CheatExecutes ==
    /\ at = "idle" /\ command.tool = "fund" /\ Provider = "cheat"
    /\ IF command.loopback /\ node = "surfnet"
       THEN at' = "idle" /\ last' = [what |-> "cheat", node |-> node, unseen |-> unseen]
       ELSE at' = "ended" /\ UNCHANGED last
    /\ UNCHANGED <<command, node, goal, probe, kind, fresh, hash, said, unseen, replaced>>

-----------------------------------------------------------------------------
(* What else happens.                                                      *)

TimePasses ==
    /\ fresh /\ fresh' = FALSE
    /\ unseen' = (unseen /\ at # "idle")
    /\ UNCHANGED <<command, node, at, goal, probe, kind, hash, said, last, replaced>>

\* A fork that is stopped, a tunnel that is opened on its port.  Before a send that is still
\* to look, and behind the blockhash, it makes no difference.
Replace ==
    /\ at # "ended" /\ replaced < MaxReplaced /\ replaced' = replaced + 1
    /\ \E n \in Nodes \ {node} : node' = n
    /\ unseen' = (unseen \/ ~((at = "idle" /\ ~fresh) \/ at = "signed"))
    /\ UNCHANGED <<command, at, goal, probe, kind, fresh, hash, said, last>>

Next ==
    \/ ClassifyVersion \/ ClassifyGenesis \/ ProbeGenesis \/ ProbeVersion \/ ProbeMethod \/ Decide
    \/ Confirm \/ BeforeSend \/ Sign \/ Submit \/ JupiterExecutes \/ JupiterLands \/ CheatExecutes
    \/ TimePasses \/ Replace

Spec == Init /\ [][Next]_vars

-----------------------------------------------------------------------------
TypeOK ==
    /\ node \in Nodes /\ hash \in Nodes
    /\ at \in {"start", "kind", "probe", "version", "method", "decide", "ask", "idle", "guarded", "signed", "swap", "ended"}
    /\ goal \in {"start", "guarded", "swap"}
    /\ kind \in {"unknown", "surfnet", "mainnet", "local"}
    /\ probe \in [genesis : {"none", "other", "mainnet"}, version : BOOLEAN, method : BOOLEAN]

Landed == last.what # "nothing"

\* Real money moves with both override switches only, unless the fork behind the URL was
\* replaced by mainnet within 30 seconds of the guard's look at it, or between the look and
\* the blockhash.
MainnetIsAsked == Landed /\ last.node = "mainnet" => Overridden \/ last.unseen

\* The funding command moves real money only when it is told to in so many words.  A swap
\* that Jupiter executes is real whatever the endpoint is by then, so nothing excuses it.
SpendingIsMeant ==
    /\ last.what = "swap" => Overridden /\ command.realMoney /\ ~command.loopback /\ kind = "mainnet"
    /\ Landed /\ last.node = "mainnet" /\ ~last.unseen /\ command.tool = "fund" =>
          command.realMoney /\ Provider = "jupiter" /\ said

\* The two worlds are not mixed: a run that swaps with cheatcodes does not send with an
\* override in force.
WorldsApart == Landed /\ command.tool = "fund" => (Provider = "cheat" <=> ~Overridden)

SendsGuarded == MainnetIsAsked /\ SpendingIsMeant /\ WorldsApart
=============================================================================
