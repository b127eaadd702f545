---------------------------- MODULE ClusterCache ----------------------------
(***************************************************************************)
(* What the app may do on the cluster behind its RPC URL: probeCluster and *)
(* evaluateSendGuard (packages/sdk/src/guard.ts), classifyCluster and the  *)
(* cache of getClusterInfo (app/src/lib/chain/cluster.ts).  The probe      *)
(* reads three times, and the node behind the URL may be another one each  *)
(* time: a local fork stopped, a tunnel opened on its port.                *)
(***************************************************************************)
EXTENDS Naturals

CONSTANT MaxChanges   \* bound: times the node is replaced

VARIABLES
    site,    \* how the app was built: loopback URL, the two mainnet switches
    node,    \* what answers at the URL
    asked,   \* a page is open
    probe,   \* the probe in flight: the next read, and what it has read
    info,    \* the cached answer, or None
    shown,   \* the answer a caller got last, or None
    steady,  \* history: the node has not changed since the last probe began
    changes  \* how often the node has changed

vars == <<site, node, asked, probe, info, shown, steady, changes>>

Nodes == {"down", "validator", "surfnet", "mainnet"}

NoProbe == [pc |-> "off", genesis |-> "none", version |-> FALSE, method |-> FALSE]
None == [kind |-> "none", allowed |-> FALSE, reached |-> FALSE]

Init ==
    /\ site \in [loopback : BOOLEAN, flag : BOOLEAN, env : BOOLEAN]
    /\ node \in Nodes
    /\ asked = FALSE
    /\ probe = NoProbe
    /\ info = None /\ shown = None
    /\ steady = TRUE
    /\ changes = 0

\* A fork of mainnet reports its genesis hash.
Genesis == IF node = "validator" THEN "other" ELSE "mainnet"

Open ==
    /\ ~asked /\ asked' = TRUE
    /\ UNCHANGED <<site, node, probe, info, shown, steady, changes>>

\* A caller gets the cached answer, joins the probe in flight, or begins one.
Hit ==
    /\ asked /\ info # None /\ shown' = info
    /\ UNCHANGED <<site, node, asked, probe, info, steady, changes>>

Begin ==
    /\ asked /\ info = None /\ probe.pc = "off"
    /\ probe' = [NoProbe EXCEPT !.pc = "genesis"]
    /\ steady' = TRUE
    /\ UNCHANGED <<site, node, asked, info, shown, changes>>

\* An error answer leaves the field empty; no answer ends the probe.
ReadGenesis ==
    /\ probe.pc = "genesis"
    /\ probe' \in IF node = "down" THEN {[probe EXCEPT !.pc = "version"], [probe EXCEPT !.pc = "read"]}
                  ELSE {[probe EXCEPT !.pc = "version", !.genesis = Genesis]}
    /\ UNCHANGED <<site, node, asked, info, shown, steady, changes>>

ReadVersion ==
    /\ probe.pc = "version"
    /\ probe' = [probe EXCEPT !.version = node = "surfnet",
                              !.pc = IF node = "surfnet" THEN "method" ELSE "read"]
    /\ UNCHANGED <<site, node, asked, info, shown, steady, changes>>

ReadMethod ==
    /\ probe.pc = "method"
    /\ probe' = [probe EXCEPT !.method = node = "surfnet", !.pc = "read"]
    /\ UNCHANGED <<site, node, asked, info, shown, steady, changes>>

\* Mutant: either switch is enough.
SendGuardEither(p) ==
    \/ site.flag \/ site.env
    \/ site.loopback /\ (p.genesis = "other" \/ (p.genesis = "mainnet" /\ p.version /\ p.method))
SendGuard(p) ==
    \/ site.flag /\ site.env
    \/ /\ site.flag = site.env
       /\ site.loopback
       /\ p.genesis = "other" \/ (p.genesis = "mainnet" /\ p.version /\ p.method)

Kind(p) ==
    CASE site.loopback /\ p.genesis = "other" -> "local-validator"
      [] site.loopback /\ p.genesis = "mainnet" /\ p.version /\ p.method -> "local-fork"
      [] ~site.loopback /\ p.genesis = "mainnet" -> "mainnet"
      [] OTHER -> "other"

Classify(p) == [kind |-> Kind(p), allowed |-> SendGuard(p), reached |-> p.genesis # "none"]

\* Mutant: a probe that reached nothing is cached.
CachedAlways(p) == Classify(p)
Cached(p) == IF p.genesis = "none" THEN None ELSE Classify(p)

Answered ==
    /\ probe.pc = "read"
    /\ shown' = Classify(probe)
    /\ info' = Cached(probe)
    /\ probe' = NoProbe
    /\ UNCHANGED <<site, node, asked, steady, changes>>

Change ==
    /\ changes < MaxChanges /\ changes' = changes + 1
    /\ \E n \in Nodes \ {node} : node' = n
    /\ steady' = FALSE
    /\ UNCHANGED <<site, asked, probe, info, shown>>

Probes == Begin \/ ReadGenesis \/ ReadVersion \/ ReadMethod \/ Answered

Next == Open \/ Hit \/ Probes \/ Change

\* An open page asks again, and a request ends.
Fairness == WF_vars(Hit) /\ WF_vars(Probes)

Spec == Init /\ [][Next]_vars /\ Fairness

-----------------------------------------------------------------------------

\* Types of the probe and of the answers.
TypeOK ==
    /\ node \in Nodes
    /\ probe.pc \in {"off", "genesis", "version", "method", "read"}
    /\ probe.genesis \in {"none", "other", "mainnet"}
    /\ \A i \in {info, shown} :
          i.kind \in {"none", "local-validator", "local-fork", "mainnet", "other"} /\ i.allowed \in BOOLEAN /\ i.reached \in BOOLEAN

\* Without both switches, the app sends nothing to mainnet: the node that it was
\* told it may send to is local, unless it was replaced since the probe began.
MainnetNeedsBoth ==
    shown.allowed /\ steady /\ ~(site.flag /\ site.env) => node \in {"validator", "surfnet"}

\* "a surfnet started after page load is picked up on retry" (cluster.ts:112).
NodePickedUp == (asked /\ node # "down") ~> (info.reached \/ node = "down")

=============================================================================
