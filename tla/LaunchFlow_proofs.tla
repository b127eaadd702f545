--------------------------- MODULE LaunchFlow_proofs ---------------------------
(***************************************************************************)
(* The two programs that make launches, the command line (CliLaunch) and   *)
(* the web application (AppLaunch): neither buys twice but for a first buy *)
(* it had given up on, the command leaves no keypair behind and a complete *)
(* launch, and the form says of the chain only what is there, for any      *)
(* number of launches, retries and failures.                               *)
(***************************************************************************)
EXTENDS AppLaunch, CliLaunch, TLAPS

-----------------------------------------------------------------------------
(* The chain.                                                              *)

\* What the accounts of a launch tell of each other.
ChainAgrees ==
    \A l \in Launches :
        /\ chain[l].pool => chain[l].launch
        /\ chain[l].buys > 0 => chain[l].pool
        /\ chain[l].base => chain[l].buys > 0

Accounts == [launch : BOOLEAN, pool : BOOLEAN, buys : Nat, base : BOOLEAN]

\* Transaction t of launch l has landed: what it changes, and what it found.
LandedAs(l, t) ==
    /\ chain' \in [Launches -> Accounts]
    /\ \A k \in Launches : k # l => chain'[k] = chain[k]
    /\ chain'[l].launch <=> chain[l].launch \/ t = "config"
    /\ chain'[l].pool <=> chain[l].pool \/ t \in {"pool", "poolBuy"}
    /\ chain'[l].base <=> chain[l].base \/ t \in {"poolBuy", "buy"}
    /\ chain'[l].buys = IF t \in {"poolBuy", "buy"} THEN chain[l].buys + 1 ELSE chain[l].buys
    /\ t \in {"pool", "poolBuy"} => chain[l].launch /\ ~chain[l].pool
    /\ t = "buy" => chain[l].pool

LEMMA BoughtTypes ==
  ASSUME NEW c \in Accounts
  PROVE  /\ Bought(c) \in Accounts
         /\ Bought(c).launch = c.launch /\ Bought(c).pool = c.pool
         /\ Bought(c).buys = c.buys + 1 /\ Bought(c).base
<1>1. Bought(c) \in Accounts
  <2> DEFINE n == c.buys + 1
  <2>1. n \in Nat
    BY DEF Accounts
  <2>2. Bought(c) = [c EXCEPT !.buys = n, !.base = TRUE]
    BY DEF Accounts, Bought
  <2> HIDE DEF n
  <2> QED BY <2>1, <2>2 DEF Accounts
<1>2. Bought(c).launch = c.launch
  BY DEF Accounts, Bought
<1>3. Bought(c).pool = c.pool
  BY DEF Accounts, Bought
<1>4. Bought(c).buys = c.buys + 1
  BY DEF Accounts, Bought
<1>5. Bought(c).base
  BY DEF Accounts, Bought
<1> QED BY <1>1, <1>2, <1>3, <1>4, <1>5

\* What a transaction makes of the accounts of its launch.
AfterAs(c, d, t) ==
    /\ d \in Accounts
    /\ d.launch <=> c.launch \/ t = "config"
    /\ d.pool <=> c.pool \/ t \in {"pool", "poolBuy"}
    /\ d.base <=> c.base \/ t \in {"poolBuy", "buy"}
    /\ d.buys = IF t \in {"poolBuy", "buy"} THEN c.buys + 1 ELSE c.buys

LEMMA AfterTypes ==
  ASSUME NEW c \in Accounts, NEW t \in Labels
  PROVE  AfterAs(c, After(c, t), t)
<1> DEFINE Opened == [c EXCEPT !.pool = TRUE]
<1>1. Opened \in Accounts
  BY DEF Accounts
<1>2. /\ Opened.launch = c.launch
      /\ Opened.pool
      /\ Opened.buys = c.buys
      /\ Opened.base = c.base
  BY DEF Accounts
<1>3. CASE t = "config"
  <2> DEFINE d == [c EXCEPT !.launch = TRUE]
  <2>1. d \in Accounts
    BY DEF Accounts
  <2>2. d.launch /\ d.pool = c.pool /\ d.buys = c.buys /\ d.base = c.base
    BY DEF Accounts
  <2>3. After(c, t) = d
    BY <1>3 DEF After
  <2> HIDE DEF d
  <2> QED BY <1>3, <2>1, <2>2, <2>3 DEF AfterAs
<1>4. CASE t = "pool"
  <2>1. After(c, t) = Opened
    BY <1>4 DEF After
  <2> HIDE DEF Opened
  <2> QED BY <1>1, <1>2, <1>4, <2>1 DEF AfterAs
<1>5. CASE t = "poolBuy"
  <2>1. After(c, t) = Bought(Opened)
    BY <1>5 DEF After
  <2> HIDE DEF Opened
  <2> QED BY <1>1, <1>2, <1>5, <2>1, BoughtTypes DEF AfterAs
<1>6. CASE t = "buy"
  <2>1. After(c, t) = Bought(c)
    BY <1>6 DEF After
  <2> QED BY <1>6, <2>1, BoughtTypes DEF AfterAs
<1> QED BY <1>3, <1>4, <1>5, <1>6 DEF Labels

LEMMA Landing ==
  ASSUME LaunchTxsTypeOK, NEW l \in Launches, NEW t \in Labels, Valid(l, t),
         chain' = [chain EXCEPT ![l] = After(@, t)]
  PROVE  LandedAs(l, t)
<1>1. chain \in [Launches -> Accounts] /\ chain[l] \in Accounts
  BY DEF LaunchTxsTypeOK, Accounts
<1>2. chain'[l] = After(chain[l], t) /\ \A k \in Launches : k # l => chain'[k] = chain[k]
  BY <1>1
<1>3. AfterAs(chain[l], chain'[l], t)
  BY <1>1, <1>2, AfterTypes
<1>4. chain' \in [Launches -> Accounts]
  BY <1>1, <1>2, <1>3 DEF AfterAs
<1>5. /\ t \in {"pool", "poolBuy"} => chain[l].launch /\ ~chain[l].pool
      /\ t = "buy" => chain[l].pool
  BY DEF Valid
<1> QED BY <1>2, <1>3, <1>4, <1>5 DEF AfterAs, LandedAs

LEMMA LandingAgrees ==
  ASSUME LaunchTxsTypeOK, ChainAgrees, NEW l \in Launches, NEW t \in Labels, LandedAs(l, t)
  PROVE  /\ ChainAgrees'
         /\ OnChain(l, t)'
         /\ \A k \in Launches : \A s \in Labels : OnChain(k, s) => OnChain(k, s)'
<1>1. \A k \in Launches : chain[k].buys \in Nat /\ chain'[k].buys \in Nat
  BY DEF LaunchTxsTypeOK, LandedAs, Accounts
<1>2. ChainAgrees'
  <2> SUFFICES ASSUME NEW k \in Launches
               PROVE  /\ chain'[k].pool => chain'[k].launch
                      /\ chain'[k].buys > 0 => chain'[k].pool
                      /\ chain'[k].base => chain'[k].buys > 0
    BY DEF ChainAgrees
  <2>1. CASE k # l
    BY <2>1 DEF ChainAgrees, LandedAs
  <2>2. CASE k = l
    <3>1. chain'[l].pool => chain'[l].launch
      BY DEF ChainAgrees, LandedAs
    <3>2. chain'[l].buys > 0 => chain'[l].pool
      BY <1>1 DEF ChainAgrees, LandedAs
    <3>3. chain'[l].base => chain'[l].buys > 0
      BY <1>1 DEF ChainAgrees, LandedAs
    <3> QED BY <2>2, <3>1, <3>2, <3>3
  <2> QED BY <2>1, <2>2
<1>3. OnChain(l, t)'
  <2>1. CASE t = "config"
    BY <2>1 DEF OnChain, LandedAs
  <2>2. CASE t = "pool"
    BY <2>2 DEF OnChain, LandedAs
  <2>3. CASE t = "poolBuy"
    BY <1>1, <2>3 DEF OnChain, LandedAs, LaunchTxsTypeOK
  <2>4. CASE t = "buy"
    BY <1>1, <2>4 DEF OnChain, LandedAs, LaunchTxsTypeOK
  <2> QED BY <2>1, <2>2, <2>3, <2>4 DEF Labels
<1>4. ASSUME NEW k \in Launches, NEW s \in Labels, OnChain(k, s) PROVE OnChain(k, s)'
  <2>1. CASE k # l
    BY <1>4, <2>1 DEF OnChain, LandedAs
  <2>2. CASE k = l
    <3>1. chain'[l].buys >= chain[l].buys
      BY <1>1 DEF LandedAs
    <3>2. /\ chain[l].launch => chain'[l].launch
          /\ chain[l].pool => chain'[l].pool
          /\ chain[l].buys > 0 => chain'[l].buys > 0
      BY <1>1, <3>1 DEF LandedAs
    <3>3. CASE s = "config"
      BY <1>4, <2>2, <3>2, <3>3 DEF OnChain
    <3>4. CASE s = "pool"
      BY <1>4, <2>2, <3>2, <3>4 DEF OnChain
    <3>5. CASE s = "poolBuy"
      BY <1>4, <2>2, <3>2, <3>5 DEF OnChain
    <3>6. CASE s = "buy"
      BY <1>4, <2>2, <3>2, <3>6 DEF OnChain
    <3> QED BY <3>3, <3>4, <3>5, <3>6 DEF Labels
  <2> QED BY <2>1, <2>2
<1> QED BY <1>2, <1>3, <1>4

-----------------------------------------------------------------------------
(* The plans.                                                              *)

LEMMA PlanFacts ==
  ASSUME NEW fb \in BOOLEAN, NEW plan \in Plans(fb)
  PROVE  /\ plan \in AllPlans /\ plan \subseteq Labels /\ plan # {}
         /\ "buy" \in plan => "pool" \in plan
BY DEF Plans, AllPlans, Labels

LEMMA PlansApart ==
  ASSUME NEW plan \in AllPlans \cup {{}}
  PROVE  /\ plan \subseteq Labels
         /\ ~("poolBuy" \in plan /\ ("pool" \in plan \/ "buy" \in plan))
BY DEF Plans, AllPlans, Labels

LEMMA FirstIn ==
  ASSUME NEW todo \in SUBSET Labels, todo # {}
  PROVE  /\ FirstOf(todo) \in todo
         /\ FirstOf(todo) = "buy" => "pool" \notin todo /\ "poolBuy" \notin todo
BY DEF FirstOf, Labels

-----------------------------------------------------------------------------
(* The command.                                                            *)

\* Only launches with a plan are under way; a pool that came with the plan it was made
\* for came with its first buy.
PlansAgree ==
    /\ \A l \in DOMAIN files : plans[l] # {}
    /\ \A l \in Launches :
          /\ chain[l].launch => l \in DOMAIN files
          /\ "poolBuy" \in plans[l] /\ chain[l].pool /\ l \notin resized => chain[l].buys > 0
    /\ transit # NoTx =>
          /\ transit.l \in DOMAIN files
          /\ transit.l \notin resized => transit.t \in plans[transit.l]

\* The command that is running has a session file, and keeps to the plan of its launch.  A first
\* buy it still has to send was not made when it looked; made meanwhile, it was one given up
\* on, or it came with a pool, which the command's own transaction for the pool runs into.
\* A command that could not read the creator's base knows less.
CliAgrees ==
    /\ cli.pc # "off" =>
          /\ cli.l \in DOMAIN files
          /\ cli.l \notin resized =>
                /\ cli.todo \subseteq plans[cli.l]
                /\ \A t \in plans[cli.l] : t \in cli.todo \/ OnChain(cli.l, t)
          /\ ~({"poolBuy", "buy"} \subseteq cli.todo)
          /\ "buy" \in cli.todo =>
                \/ "pool" \in cli.todo
                \/ chain[cli.l].pool /\ (~chain[cli.l].base \/ late[cli.l] > 0 \/ cli.unread)
    /\ cli.pc = "done" => cli.todo = {}

CliIInv == CliTypeOK /\ ChainAgrees /\ PlansAgree /\ CliAgrees

LEMMA CliInitInv == ASSUME CliInit PROVE CliIInv
<1> USE DEF CliInit, LaunchTxsInit
<1>1. LaunchTxsTypeOK
  BY LaunchTxsAssumption DEF LaunchTxsTypeOK, NoTx
<1>2. DOMAIN files = {}
  OBVIOUS
<1>3. CliTypeOK
  BY <1>1, <1>2 DEF CliTypeOK, CliOff
<1>4. ChainAgrees
  BY DEF ChainAgrees
<1>5. PlansAgree
  BY <1>2 DEF PlansAgree
<1>6. CliAgrees
  BY DEF CliAgrees, CliOff
<1> QED BY <1>3, <1>4, <1>5, <1>6 DEF CliIInv

\* A transaction of the command, or one given up on, lands.
LEMMA LandingKeeps ==
  ASSUME CliIInv, NEW l \in DOMAIN files, NEW t \in Labels, LandedAs(l, t),
         l \notin resized => t \in plans[l],
         UNCHANGED <<plans, files, resized>>
  PROVE  /\ ChainAgrees'
         /\ \A k \in Launches :
               /\ chain'[k].launch => k \in DOMAIN files
               /\ "poolBuy" \in plans[k] /\ chain'[k].pool /\ k \notin resized => chain'[k].buys > 0
<1> USE DEF CliIInv, CliTypeOK
<1>1. l \in Launches /\ LaunchTxsTypeOK
  OBVIOUS
<1>2. ChainAgrees'
  BY <1>1, LandingAgrees
<1>3. ASSUME NEW k \in Launches
      PROVE  /\ chain'[k].launch => k \in DOMAIN files
             /\ "poolBuy" \in plans[k] /\ chain'[k].pool /\ k \notin resized => chain'[k].buys > 0
  <2>1. CASE k # l
    BY <2>1 DEF LandedAs, PlansAgree
  <2>2. CASE k = l
    <3>1. chain[l].buys \in Nat
      BY <1>1 DEF LaunchTxsTypeOK
    <3>2. ~("poolBuy" \in plans[l] /\ "pool" \in plans[l])
      BY <1>1, PlansApart DEF LaunchTxsTypeOK
    <3>3. "poolBuy" \in plans[l] /\ l \notin resized => t # "pool"
      BY <3>2
    <3>4. CASE t = "poolBuy"
      BY <2>2, <3>1, <3>4 DEF LandedAs
    <3>5. CASE t = "buy"
      BY <2>2, <3>1, <3>5 DEF LandedAs
    <3>6. CASE t \notin {"poolBuy", "buy"}
      BY <2>2, <3>3, <3>6 DEF LandedAs, PlansAgree
    <3> QED BY <3>4, <3>5, <3>6
  <2> QED BY <2>1, <2>2
<1> QED BY <1>2, <1>3

LEMMA CreateKeeps == ASSUME CliIInv, Create PROVE CliIInv'
<1> USE DEF CliIInv, CliTypeOK, LaunchTxsTypeOK
<1>1. PICK l \in Launches, fb \in BOOLEAN :
        /\ Fresh(l)
        /\ \E plan \in Plans(fb) :
              /\ plans' = [plans EXCEPT ![l] = plan]
              /\ cli' = [pc |-> "send", l |-> l, todo |-> plan, unread |-> FALSE]
        /\ files' = WriteSession(l, fb)
  BY DEF Create
<1>2. PICK plan \in Plans(fb) :
        /\ plans' = [plans EXCEPT ![l] = plan]
        /\ cli' = [pc |-> "send", l |-> l, todo |-> plan, unread |-> FALSE]
  BY <1>1
<1>3. UNCHANGED <<chain, transit, late, faults, resized>>
  BY DEF Create
<1>4. /\ plan \in AllPlans /\ plan \subseteq Labels /\ plan # {}
      /\ "buy" \in plan => "pool" \in plan
      /\ ~("poolBuy" \in plan /\ "buy" \in plan)
  BY PlanFacts, PlansApart
<1>5. /\ DOMAIN files' = {l} \cup DOMAIN files
      /\ files'[l] = fb
      /\ \A k \in DOMAIN files : k # l => files'[k] = files[k]
  <2>1. files' = [k \in {l} \cup DOMAIN files |-> IF k = l THEN fb ELSE files[k]]
    BY <1>1 DEF WriteSession
  <2> QED BY <2>1
<1>6. plans[l] = {} /\ l \notin DOMAIN files
  BY <1>1 DEF Fresh, PlansAgree
<1>7. plans'[l] = plan /\ \A k \in Launches : k # l => plans'[k] = plans[k]
  BY <1>2
<1>8. CliTypeOK'
  <2>1. plans' \in [Launches -> AllPlans \cup {{}}]
    BY <1>2, <1>4
  <2>2. cli'.pc = "send" /\ cli'.l = l /\ cli'.todo = plan /\ cli'.unread = FALSE
    BY <1>2
  <2>3. DOMAIN files' \subseteq Launches /\ \A k \in DOMAIN files' : files'[k] \in BOOLEAN
    BY <1>5
  <2>4. LaunchTxsTypeOK'
    BY <1>3, <2>1
  <2> QED BY <1>3, <1>4, <2>2, <2>3, <2>4
<1>9. ChainAgrees'
  BY <1>3 DEF ChainAgrees
<1>10. PlansAgree'
  <2>1. ~chain[l].launch /\ ~chain[l].pool
    BY <1>6 DEF PlansAgree, ChainAgrees
  <2>2. \A k \in DOMAIN files' : plans'[k] # {}
    BY <1>4, <1>5, <1>7 DEF PlansAgree
  <2>3. ASSUME NEW k \in Launches
        PROVE  /\ chain'[k].launch => k \in DOMAIN files'
               /\ "poolBuy" \in plans'[k] /\ chain'[k].pool /\ k \notin resized' => chain'[k].buys > 0
    BY <1>3, <1>5, <1>7, <2>1 DEF PlansAgree
  <2>4. transit' # NoTx =>
          /\ transit'.l \in DOMAIN files'
          /\ transit'.l \notin resized' => transit'.t \in plans'[transit'.l]
    BY <1>3, <1>5, <1>6, <1>7 DEF PlansAgree
  <2> QED BY <2>2, <2>3, <2>4 DEF PlansAgree, NoTx
<1>11. CliAgrees'
  <2>1. cli'.pc = "send" /\ cli'.l = l /\ cli'.todo = plan
    BY <1>2
  <2> QED BY <1>4, <1>5, <1>7, <2>1 DEF CliAgrees
<1> QED BY <1>8, <1>9, <1>10, <1>11

LEMMA ResumeKeeps == ASSUME CliIInv, Resume PROVE CliIInv'
<1> USE DEF CliIInv, CliTypeOK, LaunchTxsTypeOK
<1>1. PICK l \in DOMAIN files, unread \in BOOLEAN :
        /\ IF unread THEN Fault ELSE UNCHANGED faults
        /\ \E plan \in Plans(files[l]) :
              LET held == ~unread /\ chain[l].base
              IN  /\ cli' = [pc |-> "send", l |-> l, todo |-> {t \in plan : Pending(l, t, held)},
                             unread |-> unread]
                  /\ resized' = IF plan = plans[l] THEN resized ELSE resized \cup {l}
  BY DEF Resume
<1> DEFINE held == ~unread /\ chain[l].base
<1>2. PICK plan \in Plans(files[l]) :
        /\ cli' = [pc |-> "send", l |-> l, todo |-> {t \in plan : Pending(l, t, held)}, unread |-> unread]
        /\ resized' = IF plan = plans[l] THEN resized ELSE resized \cup {l}
  BY <1>1
<1>3. UNCHANGED <<chain, plans, transit, late, files>> /\ faults' \in 0..MaxFaults
  BY <1>1, LaunchTxsAssumption DEF Resume, Fault
<1>4. l \in Launches /\ files[l] \in BOOLEAN
  OBVIOUS
<1>5. /\ plan \in AllPlans /\ plan \subseteq Labels
      /\ "buy" \in plan => "pool" \in plan
      /\ ~("poolBuy" \in plan /\ "buy" \in plan)
  BY <1>4, PlanFacts, PlansApart
<1>6. /\ cli'.pc = "send" /\ cli'.l = l /\ cli'.unread = unread
      /\ cli'.todo = {t \in plan : Pending(l, t, held)}
  BY <1>2
<1>7. resized \subseteq resized' /\ resized' \subseteq resized \cup {l}
  BY <1>2
<1>8. l \notin resized' => plan = plans[l]
  BY <1>2
<1>9. CliTypeOK'
  <2>1. LaunchTxsTypeOK'
    BY <1>3
  <2>2. cli'.todo \subseteq Labels
    BY <1>5, <1>6
  <2> QED BY <1>3, <1>4, <1>6, <1>7, <2>1, <2>2
<1>10. ChainAgrees'
  BY <1>3 DEF ChainAgrees
<1>11. PlansAgree'
  BY <1>3, <1>7 DEF PlansAgree, NoTx
<1>12. CliAgrees'
  <2>1. ASSUME l \notin resized', NEW t \in plan, t \notin cli'.todo
        PROVE  OnChain(l, t)'
    <3>1. ~Pending(l, t, held)
      BY <1>6, <2>1
    <3>2. plan = plans[l] /\ l \notin resized
      BY <1>7, <1>8, <2>1
    <3>3. CASE t = "config"
      BY <1>3, <3>1, <3>3 DEF Pending, OnChain
    <3>4. CASE t = "pool"
      BY <1>3, <3>1, <3>4 DEF Pending, OnChain
    <3>5. CASE t = "poolBuy"
      BY <1>3, <1>4, <2>1, <3>1, <3>2, <3>5 DEF Pending, OnChain, PlansAgree
    <3>6. CASE t = "buy"
      BY <1>3, <1>4, <3>1, <3>6 DEF Pending, OnChain, ChainAgrees
    <3> QED BY <1>5, <2>1, <3>3, <3>4, <3>5, <3>6 DEF Labels
  <2>2. "buy" \in cli'.todo => "pool" \in cli'.todo \/ (chain[l].pool /\ (~chain[l].base \/ unread))
    BY <1>5, <1>6 DEF Pending
  <2>3. cli'.todo \subseteq plan
    BY <1>6
  <2> QED BY <1>3, <1>5, <1>6, <1>8, <2>1, <2>2, <2>3 DEF CliAgrees
<1> QED BY <1>9, <1>10, <1>11, <1>12

LEMMA CliSendKeeps == ASSUME CliIInv, CliSend PROVE CliIInv'
<1> USE DEF CliIInv, CliTypeOK
<1>1. cli.pc = "send" /\ cli.todo # {} /\ UNCHANGED <<plans, files, resized>>
  BY DEF CliSend
<1> PICK l, t : l = cli.l /\ t = FirstOf(cli.todo)
  OBVIOUS
<1>2. t \in cli.todo /\ t \in Labels
  BY <1>1, FirstIn
<1>3. l \in DOMAIN files /\ l \in Launches /\ (l \notin resized => t \in plans[l])
  BY <1>1, <1>2 DEF CliAgrees
<1>4. ASSUME Confirmed(l, t), cli' = [cli EXCEPT !.todo = @ \ {t}]
      PROVE  CliIInv'
  <2>1. LandedAs(l, t) /\ UNCHANGED <<transit, late, faults>>
    BY <1>2, <1>3, <1>4, Landing DEF Confirmed
  <2>2. /\ ChainAgrees'
        /\ \A k \in Launches :
              /\ chain'[k].launch => k \in DOMAIN files
              /\ "poolBuy" \in plans[k] /\ chain'[k].pool /\ k \notin resized => chain'[k].buys > 0
    BY <1>1, <1>2, <1>3, <2>1, LandingKeeps
  <2>3. /\ OnChain(l, t)'
        /\ \A k \in Launches : \A s \in Labels : OnChain(k, s) => OnChain(k, s)'
    BY <1>2, <1>3, <2>1, LandingAgrees
  <2>4. cli'.pc = cli.pc /\ cli'.l = l /\ cli'.todo = cli.todo \ {t} /\ cli'.unread = cli.unread
    BY <1>4
  <2>5. CliTypeOK'
    <3>1. LaunchTxsTypeOK'
      BY <1>1, <2>1 DEF LaunchTxsTypeOK, LandedAs, Accounts
    <3> QED BY <1>1, <2>4, <3>1
  <2>6. PlansAgree'
    BY <1>1, <2>1, <2>2 DEF PlansAgree, NoTx
  <2>7. CliAgrees'
    <3>1. \A s \in plans[l] : l \notin resized => s \in cli'.todo \/ OnChain(l, s)'
      <4>1. plans[l] \subseteq Labels
        BY <1>3, PlansApart DEF LaunchTxsTypeOK
      <4> QED BY <1>1, <1>3, <2>3, <2>4, <4>1 DEF CliAgrees
    <3>2. ASSUME "buy" \in cli'.todo
          PROVE  "pool" \in cli'.todo \/ (chain'[l].pool /\ (~chain'[l].base \/ late'[l] > 0 \/ cli.unread))
      <4>1. "buy" \in cli.todo /\ t # "buy" /\ t # "poolBuy"
        BY <1>1, <1>2, <2>4, <3>2 DEF CliAgrees
      <4>2. CASE t = "pool"
        <5>1. ~chain[l].base
          BY <1>3, <2>1, <4>2 DEF LandedAs, ChainAgrees, LaunchTxsTypeOK
        <5> QED BY <2>1, <4>2, <5>1 DEF LandedAs
      <4>3. CASE t # "pool"
        BY <1>1, <2>1, <2>4, <4>1, <4>3 DEF CliAgrees, LandedAs
      <4> QED BY <4>2, <4>3
    <3> QED BY <1>1, <1>3, <2>4, <3>1, <3>2 DEF CliAgrees
  <2> QED BY <2>2, <2>5, <2>6, <2>7
<1>5. ASSUME Refused(l, t) \/ Unheard(l, t), cli' = CliOff
      PROVE  CliIInv'
  <2>1. UNCHANGED <<chain, late>> /\ faults' \in 0..MaxFaults
    BY <1>5, LaunchTxsAssumption DEF Refused, Unheard, Fault, LaunchTxsTypeOK
  <2>2. transit' = transit \/ (transit' = [l |-> l, t |-> t])
    BY <1>5 DEF Refused, Unheard
  <2>3. cli'.pc = "off" /\ cli'.l = 0 /\ cli'.todo = {} /\ cli'.unread = FALSE
    BY <1>5 DEF CliOff
  <2>4. LaunchTxsTypeOK'
    BY <1>1, <1>2, <1>3, <2>1, <2>2 DEF LaunchTxsTypeOK
  <2>5. CliTypeOK'
    BY <1>1, <2>3, <2>4
  <2>6. ChainAgrees'
    BY <2>1 DEF ChainAgrees
  <2>7. PlansAgree'
    BY <1>1, <1>3, <2>1, <2>2 DEF PlansAgree, NoTx
  <2>8. CliAgrees'
    BY <2>3 DEF CliAgrees
  <2> QED BY <2>5, <2>6, <2>7, <2>8
<1> QED BY <1>4, <1>5 DEF CliSend

\* What selling makes of the accounts.
SoldAs(c, d) ==
    /\ d.launch <=> c.launch
    /\ d.pool <=> c.pool
    /\ d.base => c.base
    /\ d.buys = c.buys

LEMMA CliQuietKeeps ==
  ASSUME CliIInv, Exit \/ Crash \/ Sell \/ (Expires /\ UNCHANGED cliVars)
  PROVE  CliIInv'
<1> USE DEF CliIInv, CliTypeOK
<1>1. CASE Exit
  <2>1. UNCHANGED <<chain, plans, transit, late, faults, files, resized>>
    BY <1>1 DEF Exit
  <2>2. /\ cli.pc = "send" /\ cli.todo = {}
        /\ cli'.pc = "done" /\ cli'.l = cli.l /\ cli'.todo = {} /\ cli'.unread = cli.unread
    BY <1>1 DEF Exit
  <2>3. CliTypeOK'
    BY <2>1, <2>2 DEF LaunchTxsTypeOK
  <2>4. ChainAgrees' /\ PlansAgree'
    BY <2>1 DEF ChainAgrees, PlansAgree, NoTx
  <2>5. CliAgrees'
    BY <2>1, <2>2 DEF CliAgrees, OnChain
  <2> QED BY <2>3, <2>4, <2>5
<1>2. CASE Crash
  <2>1. UNCHANGED <<chain, plans, transit, late, files, resized>> /\ faults' \in 0..MaxFaults
    BY <1>2, LaunchTxsAssumption DEF Crash, Fault, LaunchTxsTypeOK
  <2>2. cli'.pc = "off" /\ cli'.l = 0 /\ cli'.todo = {} /\ cli'.unread = FALSE
    BY <1>2 DEF Crash, CliOff
  <2>3. CliTypeOK'
    BY <2>1, <2>2 DEF LaunchTxsTypeOK
  <2>4. ChainAgrees' /\ PlansAgree'
    BY <2>1 DEF ChainAgrees, PlansAgree, NoTx
  <2>5. CliAgrees'
    BY <2>2 DEF CliAgrees
  <2> QED BY <2>3, <2>4, <2>5
<1>3. CASE Sell
  <2>1. PICK l \in Launches : chain[l].base /\ chain' = [chain EXCEPT ![l].base = FALSE]
    BY <1>3 DEF Sell
  <2>2. /\ chain' \in [Launches -> Accounts]
        /\ \A k \in Launches : SoldAs(chain[k], chain'[k])
    <3>1. chain'[l] = [chain[l] EXCEPT !.base = FALSE] /\ \A k \in Launches : k # l => chain'[k] = chain[k]
      BY <2>1 DEF LaunchTxsTypeOK
    <3>2. \A k \in Launches : chain[k] \in Accounts
      BY DEF LaunchTxsTypeOK, Accounts
    <3>3. ASSUME NEW k \in Launches PROVE SoldAs(chain[k], chain'[k])
      BY <3>1, <3>2, <3>3 DEF SoldAs, Accounts
    <3>4. \A k \in Launches : chain'[k] \in Accounts
      <4>1. [chain[l] EXCEPT !.base = FALSE] \in Accounts
        BY <3>2 DEF Accounts
      <4> QED BY <3>1, <3>2, <4>1
    <3>5. chain' \in [Launches -> Accounts]
      BY <2>1, <3>4 DEF LaunchTxsTypeOK
    <3> QED BY <3>3, <3>5
  <2>3. UNCHANGED <<plans, transit, late, files, cli, resized>> /\ faults' \in 0..MaxFaults
    BY <1>3, LaunchTxsAssumption DEF Sell, Fault, LaunchTxsTypeOK, cliVars
  <2>4. CliTypeOK'
    BY <2>2, <2>3 DEF LaunchTxsTypeOK, Accounts
  <2>5. ASSUME NEW k \in Launches
        PROVE  /\ chain'[k].launch <=> chain[k].launch
               /\ chain'[k].pool <=> chain[k].pool
               /\ chain'[k].base => chain[k].base
               /\ chain'[k].buys = chain[k].buys
    BY <2>2 DEF SoldAs
  <2>6. ChainAgrees'
    BY <2>5 DEF ChainAgrees
  <2>7. PlansAgree'
    BY <2>3, <2>5 DEF PlansAgree, NoTx
  <2>8. CliAgrees'
    <3>1. \A k \in Launches : \A s \in Labels : OnChain(k, s) => OnChain(k, s)'
      BY <2>5 DEF OnChain, Labels
    <3> QED BY <2>3, <2>5, <3>1, PlansApart DEF CliAgrees, LaunchTxsTypeOK
  <2> QED BY <2>4, <2>6, <2>7, <2>8
<1>4. CASE Expires /\ UNCHANGED cliVars
  <2>1. UNCHANGED <<chain, plans, late, faults, files, cli, resized>> /\ transit' = NoTx
    BY <1>4 DEF Expires, cliVars
  <2>2. CliTypeOK'
    BY <2>1 DEF LaunchTxsTypeOK
  <2>3. ChainAgrees' /\ PlansAgree'
    BY <2>1 DEF ChainAgrees, PlansAgree, NoTx
  <2>4. CliAgrees'
    BY <2>1 DEF CliAgrees, OnChain
  <2> QED BY <2>2, <2>3, <2>4
<1> QED BY <1>1, <1>2, <1>3, <1>4

LEMMA CliLateKeeps == ASSUME CliIInv, Lands, UNCHANGED cliVars PROVE CliIInv'
<1> USE DEF CliIInv, CliTypeOK
<1>1. /\ transit # NoTx /\ transit' = NoTx
      /\ UNCHANGED <<plans, faults, files, cli, resized>>
  BY DEF Lands, cliVars
<1> PICK l, t : l = transit.l /\ t = transit.t
  OBVIOUS
<1>2. l \in Launches /\ t \in Labels
  BY <1>1 DEF LaunchTxsTypeOK
<1>3. l \in DOMAIN files /\ (l \notin resized => t \in plans[l])
  BY <1>1 DEF PlansAgree
<1>4. LandedAs(l, t)
  BY <1>2, Landing DEF Lands
<1>5. /\ ChainAgrees'
      /\ \A k \in Launches :
            /\ chain'[k].launch => k \in DOMAIN files
            /\ "poolBuy" \in plans[k] /\ chain'[k].pool /\ k \notin resized => chain'[k].buys > 0
  BY <1>1, <1>2, <1>3, <1>4, LandingKeeps
<1>6. \A k \in Launches : \A s \in Labels : OnChain(k, s) => OnChain(k, s)'
  BY <1>2, <1>4, LandingAgrees
<1>7. /\ late' \in [Launches -> Nat]
      /\ \A k \in Launches : late'[k] >= late[k]
      /\ t = "buy" => late'[l] > 0
  BY <1>2 DEF Lands, LaunchTxsTypeOK
<1>8. CliTypeOK'
  <2>1. LaunchTxsTypeOK'
    BY <1>1, <1>4, <1>7 DEF LaunchTxsTypeOK, LandedAs, Accounts
  <2> QED BY <1>1, <2>1
<1>9. PlansAgree'
  BY <1>1, <1>5 DEF PlansAgree, NoTx
<1>10. CliAgrees'
  <2>1. ASSUME "buy" \in cli.todo, "pool" \notin cli.todo, cli.pc # "off"
        PROVE  chain'[cli.l].pool /\ (~chain'[cli.l].base \/ late'[cli.l] > 0 \/ cli.unread)
    <3>1. chain[cli.l].pool /\ (~chain[cli.l].base \/ late[cli.l] > 0 \/ cli.unread) /\ cli.l \in Launches
      BY <2>1 DEF CliAgrees
    <3>2. late[cli.l] > 0 => late'[cli.l] > 0
      BY <1>7, <3>1 DEF LaunchTxsTypeOK
    <3>3. CASE cli.l # l
      BY <1>4, <3>1, <3>2, <3>3 DEF LandedAs
    <3>4. CASE cli.l = l
      BY <1>4, <1>7, <3>1, <3>2, <3>4 DEF LandedAs
    <3> QED BY <3>3, <3>4
  <2>2. cli.pc # "off" => plans[cli.l] \subseteq Labels /\ cli.l \in Launches
    BY PlansApart DEF CliAgrees, LaunchTxsTypeOK
  <2> QED BY <1>1, <1>6, <2>1, <2>2 DEF CliAgrees
<1> QED BY <1>5, <1>8, <1>9, <1>10

LEMMA CliNextInv == ASSUME CliIInv, [CliNext]_cliLaunchVars PROVE CliIInv'
<1>1. CASE UNCHANGED cliLaunchVars
  BY <1>1 DEF CliIInv, CliTypeOK, LaunchTxsTypeOK, ChainAgrees, PlansAgree, CliAgrees, OnChain, NoTx, cliLaunchVars, cliVars
<1>2. CASE CliNext
  BY <1>2, CreateKeeps, ResumeKeeps, CliSendKeeps, CliQuietKeeps, CliLateKeeps DEF CliNext
<1> QED BY <1>1, <1>2

THEOREM CliInvariant == CliSpec => []CliIInv
<1>1. CliInit => CliIInv
  BY CliInitInv
<1>2. CliIInv /\ [CliNext]_cliLaunchVars => CliIInv'
  BY CliNextInv
<1> QED BY <1>1, <1>2, PTL DEF CliSpec

-----------------------------------------------------------------------------

\* What the invariant says of one state.
LEMMA CliHolds == CliIInv => CliTypeOK /\ NothingOrphaned /\ ExitMeansComplete
<1>1. CliIInv => CliTypeOK
  BY DEF CliIInv
<1>2. CliIInv => NothingOrphaned
  BY DEF CliIInv, PlansAgree, NothingOrphaned
<1>3. CliIInv => ExitMeansComplete
  BY DEF CliIInv, PlansAgree, CliAgrees, ExitMeansComplete, Complete
<1> QED BY <1>1, <1>2, <1>3

\* The state keeps its types.
THEOREM CliTypesTheorem == CliSpec => []CliTypeOK
BY CliHolds, CliInvariant, PTL

\* Whenever the command dies, it has written the keypairs of what is on chain.
THEOREM OrphanTheorem == CliSpec => []NothingOrphaned
BY CliHolds, CliInvariant, PTL

\* A command that exits without an error leaves a complete launch, at the fee it was
\* planned with.
THEOREM ExitTheorem == CliSpec => []ExitMeansComplete
BY CliHolds, CliInvariant, PTL

\* A transaction that lands buys a second time only where the first was sold or arrived late.
LEMMA LandingBuys ==
  ASSUME CliIInv, NEW l \in Launches, NEW t \in Labels, LandedAs(l, t),
         t = "buy" => ~chain[l].base \/ late'[l] > 0 \/ Unread(l),
         NEW k \in Launches, chain'[k].buys > chain[k].buys
  PROVE  chain[k].buys = 0 \/ Sold(k) \/ late'[k] > 0 \/ Unread(k)
<1>1. chain[k].buys \in Nat
  BY DEF CliIInv, CliTypeOK, LaunchTxsTypeOK
<1>2. k = l /\ t \in {"poolBuy", "buy"}
  BY <1>1 DEF LandedAs
<1>3. CASE t = "poolBuy"
  BY <1>1, <1>2, <1>3 DEF LandedAs, CliIInv, ChainAgrees
<1>4. CASE t = "buy"
  BY <1>1, <1>2, <1>4 DEF Sold
<1> QED BY <1>2, <1>3, <1>4

\* A launch buys once, unless what it bought was sold or arrived late, or could not be read
\* by the command that buys again.
THEOREM BuysOnceTheorem == CliSpec => BuysOnce
<1> DEFINE Once == \A l \in Launches :
          chain'[l].buys > chain[l].buys => chain[l].buys = 0 \/ Sold(l) \/ late'[l] > 0 \/ Unread(l)
<1>1. CliIInv /\ [CliNext]_cliLaunchVars => [Once]_cliLaunchVars
  <2> SUFFICES ASSUME CliIInv, CliNext, NEW k \in Launches, chain'[k].buys > chain[k].buys
               PROVE  chain[k].buys = 0 \/ Sold(k) \/ late'[k] > 0 \/ Unread(k)
    OBVIOUS
  <2>1. chain[k].buys \in Nat /\ LaunchTxsTypeOK
    BY DEF CliIInv, CliTypeOK, LaunchTxsTypeOK
  <2>2. CASE CliSend
    <3>1. cli.pc = "send" /\ cli.todo # {} /\ cli.todo \subseteq Labels
      BY <2>2 DEF CliSend, CliIInv, CliTypeOK
    <3> PICK l, t : l = cli.l /\ t = FirstOf(cli.todo)
      OBVIOUS
    <3>2. t \in cli.todo /\ t \in Labels /\ (t = "buy" => "pool" \notin cli.todo)
      BY <3>1, FirstIn
    <3>3. l \in Launches /\ (t = "buy" => ~chain[l].base \/ late[l] > 0 \/ Unread(l))
      BY <3>1, <3>2 DEF CliIInv, CliTypeOK, CliAgrees, Unread
    <3>4. chain' # chain
      BY <2>1
    <3>5. Confirmed(l, t)
      BY <2>2, <3>4 DEF CliSend, Refused, Unheard
    <3>6. LandedAs(l, t) /\ late' = late
      BY <2>1, <3>2, <3>3, <3>5, Landing DEF Confirmed
    <3> QED BY <3>2, <3>3, <3>6, LandingBuys
  <2>3. CASE Lands
    <3> PICK l, t : l = transit.l /\ t = transit.t
      OBVIOUS
    <3>1. l \in Launches /\ t \in Labels
      BY <2>1, <2>3 DEF Lands, LaunchTxsTypeOK
    <3>2. LandedAs(l, t)
      BY <2>1, <2>3, <3>1, Landing DEF Lands
    <3>3. t = "buy" => late'[l] > 0
      BY <2>1, <2>3, <3>1 DEF Lands, LaunchTxsTypeOK
    <3> QED BY <3>1, <3>2, <3>3, LandingBuys
  <2>4. CASE Sell
    <3>1. chain'[k].buys = chain[k].buys
      BY <2>1, <2>4 DEF Sell, LaunchTxsTypeOK
    <3> QED BY <2>1, <3>1
  <2>5. CASE chain' = chain
    BY <2>1, <2>5
  <2> QED BY <2>2, <2>3, <2>4, <2>5 DEF CliNext, Create, Resume, Exit, Crash, Expires
<1> QED BY <1>1, CliInvariant, PTL DEF CliSpec, BuysOnce

-----------------------------------------------------------------------------
(* What the application shows.                                             *)

\* The steps of a plan, some of them done and one, perhaps, being sent.
Progress(plan, done, active) ==
    [status |-> "running",
     steps |-> [t \in plan |-> IF t \in done THEN "done" ELSE IF t \in active THEN "active" ELSE "pending"]]

AllDone(plan) == [status |-> "succeeded", steps |-> [t \in plan |-> "done"]]

LEMMA MoveShown ==
  ASSUME NEW steps, NEW t, NEW from, NEW to
  PROVE  LET f == [status |-> "running", steps |-> steps]
         IN  F!Move(f, t, from, to) =
               IF t \in DOMAIN steps /\ steps[t] \in from
               THEN [status |-> "running", steps |-> [steps EXCEPT ![t] = to]]
               ELSE f
BY DEF F!Move, F!Running

LEMMA StartShown ==
  ASSUME NEW f, NEW plan, f.status \in {"idle", "failed"}
  PROVE  F!Start(f, plan) = Progress(plan, {}, {})
BY DEF F!Start, F!Running, Progress

LEMMA RetryShown ==
  ASSUME NEW f, NEW plan, NEW done, f.status \in {"idle", "failed"}
  PROVE  [F!Start(f, plan) EXCEPT
            !.steps = [t \in DOMAIN F!Start(f, plan).steps |->
                         IF t \in done THEN "done" ELSE F!Start(f, plan).steps[t]]]
           = Progress(plan, done, {})
<1>1. F!Start(f, plan) = [status |-> "running", steps |-> [t \in plan |-> "pending"]]
  BY DEF F!Start, F!Running
<1> QED BY <1>1 DEF Progress

LEMMA StartedShown ==
  ASSUME NEW plan, NEW done, NEW t \in plan \ done
  PROVE  F!StepStarted(Progress(plan, done, {}), t) = Progress(plan, done, {t})
<1> DEFINE steps == [s \in plan |-> IF s \in done THEN "done" ELSE "pending"]
           f == [status |-> "running", steps |-> steps]
<1>1. Progress(plan, done, {}) = f
  BY DEF Progress
<1>2. ~\E i \in DOMAIN steps : steps[i] = "active"
  OBVIOUS
<1>3. t \in DOMAIN steps /\ steps[t] = "pending"
  OBVIOUS
<1>4. [steps EXCEPT ![t] = "active"]
        = [s \in plan |-> IF s \in done THEN "done" ELSE IF s \in {t} THEN "active" ELSE "pending"]
  OBVIOUS
<1>5. f.steps = steps
  OBVIOUS
<1> HIDE DEF steps
<1>6. F!Move(f, t, {"pending"}, "active") = [status |-> "running", steps |-> [steps EXCEPT ![t] = "active"]]
  BY <1>3, MoveShown
<1> HIDE DEF f
<1> QED BY <1>1, <1>2, <1>4, <1>5, <1>6 DEF F!StepStarted, Progress

LEMMA SucceededShown ==
  ASSUME NEW plan, NEW done, NEW t \in plan \ done
  PROVE  F!StepSucceeded(Progress(plan, done, {t}), t) = Progress(plan, done \cup {t}, {})
<1> DEFINE steps == [s \in plan |-> IF s \in done THEN "done" ELSE IF s \in {t} THEN "active" ELSE "pending"]
<1>1. Progress(plan, done, {t}) = [status |-> "running", steps |-> steps]
  BY DEF Progress
<1>2. t \in DOMAIN steps /\ steps[t] \in F!Open
  BY DEF F!Open
<1>3. [steps EXCEPT ![t] = "done"]
        = [s \in plan |-> IF s \in done \cup {t} THEN "done" ELSE IF s \in {} THEN "active" ELSE "pending"]
  OBVIOUS
<1> HIDE DEF steps
<1>4. F!Move([status |-> "running", steps |-> steps], t, F!Open, "done")
        = [status |-> "running", steps |-> [steps EXCEPT ![t] = "done"]]
  BY <1>2, MoveShown
<1> QED BY <1>1, <1>3, <1>4 DEF F!StepSucceeded, Progress

LEMMA FinishedShown ==
  ASSUME NEW plan, NEW done, plan \subseteq done
  PROVE  F!Finish(Progress(plan, done, {})) = AllDone(plan)
<1>1. Progress(plan, done, {}) = [status |-> "running", steps |-> [t \in plan |-> "done"]]
  BY DEF Progress
<1> QED BY <1>1 DEF F!Finish, F!Running, AllDone

\* A flow that has failed.
Failed(f) == f.status = "failed" /\ F!IsFlow(f, Labels)

LEMMA FailedShown ==
  ASSUME NEW f, F!IsFlow(f, Labels), f.status # "succeeded"
  PROVE  Failed(F!Fail(f))
<1> DEFINE steps == [id \in DOMAIN f.steps |-> IF f.steps[id] = "active" THEN "failed" ELSE f.steps[id]]
<1>1. F!Fail(f) = [status |-> "failed", steps |-> steps]
  BY DEF F!Fail
<1>2. \A id \in DOMAIN steps : steps[id] \in F!StepStatuses /\ steps[id] # "active"
  BY DEF F!IsFlow, F!StepStatuses, F!Open
<1>3. DOMAIN steps \subseteq Labels
  BY DEF F!IsFlow
<1> HIDE DEF steps
<1> QED BY <1>1, <1>2, <1>3 DEF Failed, F!IsFlow, F!Statuses

LEMMA StepFailedShown ==
  ASSUME NEW plan \in SUBSET Labels, NEW done, NEW t \in plan \ done
  PROVE  Failed(F!Fail(F!StepFailed(Progress(plan, done, {t}), t, TRUE)))
<1> DEFINE steps == [s \in plan |-> IF s \in done THEN "done" ELSE IF s \in {t} THEN "active" ELSE "pending"]
           f == [status |-> "running", steps |-> steps]
           failed == [steps EXCEPT ![t] = "failed"]
<1>1. Progress(plan, done, {t}) = f
  BY DEF Progress
<1>2. t \in DOMAIN steps /\ steps[t] \in F!Open
  BY DEF F!Open
<1>3. /\ DOMAIN failed = plan
      /\ \A s \in plan : failed[s] \in F!StepStatuses /\ failed[s] # "active"
  BY DEF F!StepStatuses, F!Open
<1> HIDE DEF steps
<1>4. F!Move(f, t, F!Open, "failed") = [status |-> "running", steps |-> failed]
  BY <1>2, MoveShown
<1>5. failed[t] # steps[t]
  BY <1>2 DEF F!Open
<1> HIDE DEF failed
<1>6. [status |-> "running", steps |-> failed] # f
  BY <1>5
<1>7. F!StepFailed(f, t, TRUE) = [status |-> "failed", steps |-> failed]
  BY <1>4, <1>6 DEF F!StepFailed
<1>8. F!IsFlow([status |-> "failed", steps |-> failed], Labels)
  BY <1>3 DEF F!IsFlow, F!Statuses
<1> HIDE DEF f
<1> QED BY <1>1, <1>7, <1>8, FailedShown

\* Only one step at a time is being sent.
LEMMA ProgressIsFlow ==
  ASSUME NEW plan \in SUBSET Labels, NEW done, NEW active, \A s, t \in active : s = t
  PROVE  F!IsFlow(Progress(plan, done, active), Labels)
BY DEF Progress, F!IsFlow, F!Statuses, F!StepStatuses, F!Open

-----------------------------------------------------------------------------
(* The application.                                                        *)

\* Only launches with a plan are under way; a pool that was planned with the first buy
\* came with it.
PlannedOnly ==
    /\ \A l \in Launches :
          /\ chain[l].launch => plans[l] # {}
          /\ "poolBuy" \in plans[l] /\ chain[l].pool => chain[l].buys > 0
    /\ transit # NoTx => transit.t \in plans[transit.l]

\* What a session remembers has landed.
SessionsAgree ==
    \A l \in DOMAIN sessions :
        plans[l] # {} /\ \A t \in sessions[l] : OnChain(l, t)

\* The form waits while createLaunch runs; a run that has prepared has a session.
RunAgrees ==
    /\ form.status = "submitting" <=> run.pc # "off"
    /\ run.pc \in {"check", "send"} \/ (run.pc = "prepare" /\ run.l # 0) => run.l \in DOMAIN sessions
    /\ run.pc = "send" => Todo(run.l) # {}
    /\ run.pc = "off" /\ form.status # "created" => run.l = 0
    /\ form.status = "created" => run.l # 0 /\ Complete(run.l)

\* The flow shows the steps of the session as done, and the one being sent.
FlowAgrees ==
    /\ run.pc = "check" => flow = Progress(plans[run.l], sessions[run.l], {})
    /\ run.pc = "send" => flow = Progress(plans[run.l], sessions[run.l], {FirstOf(Todo(run.l))})
    /\ run.pc = "prepare" \/ form.status \in {"idle", "failed"} => flow.status \in {"idle", "failed"}
    /\ form.status = "created" => flow = AllDone(plans[run.l])

\* A first buy with a transaction of its own that its session does not remember was one
\* given up on; the one that comes with the pool is made as often as the pool.
BuysAgree ==
    \A l \in Launches :
        /\ "buy" \in plans[l] =>
              chain[l].buys <= late[l] + (IF l \in DOMAIN sessions /\ "buy" \notin sessions[l] THEN 0 ELSE 1)
        /\ "buy" \notin plans[l] => chain[l].buys <= IF chain[l].pool THEN 1 ELSE 0

\* What holds of the chain and the memory, and what the user sees of it.
Kept == LaunchTxsTypeOK /\ ChainAgrees /\ PlannedOnly /\ BuysAgree
AppIInv == TypeOK /\ Kept /\ SessionsAgree /\ RunAgrees /\ FlowAgrees

LEMMA AppInitInv == ASSUME Init PROVE AppIInv
<1> USE DEF Init, LaunchTxsInit, AppInit
<1>1. LaunchTxsTypeOK
  BY LaunchTxsAssumption DEF LaunchTxsTypeOK, NoTx
<1>2. DOMAIN sessions = {}
  OBVIOUS
<1>3. F!IsFlow(flow, Labels) /\ flow.status = "idle"
  BY DEF F!Idle, F!IsFlow, F!Statuses
<1>4. TypeOK
  BY <1>1, <1>2, <1>3 DEF TypeOK, Off
<1>5. ChainAgrees /\ PlannedOnly /\ BuysAgree
  BY DEF ChainAgrees, PlannedOnly, BuysAgree
<1>6. SessionsAgree
  BY <1>2 DEF SessionsAgree
<1>7. RunAgrees
  BY DEF RunAgrees, Off
<1>8. FlowAgrees
  BY <1>3 DEF FlowAgrees, Off
<1> QED BY <1>1, <1>4, <1>5, <1>6, <1>7, <1>8 DEF AppIInv, Kept

\* A step that leaves the chain and the memory alone.
LEMMA AppQuietKeeps ==
  ASSUME AppIInv, UNCHANGED <<chain, plans, transit, late, sessions>>, faults' \in 0..MaxFaults
  PROVE  Kept' /\ SessionsAgree'
<1>1. LaunchTxsTypeOK'
  BY DEF AppIInv, Kept, LaunchTxsTypeOK
<1>2. ChainAgrees' /\ PlannedOnly' /\ BuysAgree'
  BY DEF AppIInv, Kept, ChainAgrees, PlannedOnly, BuysAgree, NoTx
<1>3. SessionsAgree'
  BY DEF AppIInv, SessionsAgree, OnChain
<1> QED BY <1>1, <1>2, <1>3 DEF Kept

LEMMA SubmitKeeps == ASSUME AppIInv, Submit PROVE AppIInv'
<1>1. /\ UNCHANGED <<chain, plans, transit, late, faults, sessions>>
      /\ form' = [status |-> "submitting", resume |-> 0]
      /\ run' = [pc |-> "prepare", l |-> 0] /\ flow' = F!Idle
  BY DEF Submit
<1>2. Kept' /\ SessionsAgree'
  BY <1>1, AppQuietKeeps DEF AppIInv, Kept, LaunchTxsTypeOK
<1>3. F!IsFlow(flow', Labels) /\ flow'.status = "idle"
  BY <1>1 DEF F!Idle, F!IsFlow, F!Statuses
<1>4. TypeOK'
  BY <1>1, <1>2, <1>3 DEF AppIInv, TypeOK, Kept
<1>5. RunAgrees' /\ FlowAgrees'
  BY <1>1, <1>3 DEF RunAgrees, FlowAgrees
<1> QED BY <1>2, <1>4, <1>5 DEF AppIInv

LEMMA RetryKeeps == ASSUME AppIInv, Retry PROVE AppIInv'
<1>1. /\ UNCHANGED <<chain, plans, transit, late, faults, sessions, flow>>
      /\ form.status = "failed" /\ form.resume # 0
      /\ form' = [status |-> "submitting", resume |-> 0]
      /\ run' = [pc |-> "prepare", l |-> form.resume]
  BY DEF Retry
<1>2. Kept' /\ SessionsAgree'
  BY <1>1, AppQuietKeeps DEF AppIInv, Kept, LaunchTxsTypeOK
<1>3. form.resume \in DOMAIN sessions /\ flow.status \in {"idle", "failed"}
  BY <1>1 DEF AppIInv, TypeOK, FlowAgrees
<1>4. TypeOK'
  BY <1>1, <1>2, <1>3 DEF AppIInv, TypeOK, Kept
<1>5. RunAgrees' /\ FlowAgrees'
  BY <1>1, <1>3 DEF RunAgrees, FlowAgrees
<1> QED BY <1>2, <1>4, <1>5 DEF AppIInv

LEMMA StartOverKeeps == ASSUME AppIInv, StartOver PROVE AppIInv'
<1>1. /\ UNCHANGED <<chain, plans, transit, late, faults, sessions, run>>
      /\ form.status = "failed"
      /\ form' = [status |-> "idle", resume |-> 0] /\ flow' = F!Idle
  BY DEF StartOver
<1>2. Kept' /\ SessionsAgree'
  BY <1>1, AppQuietKeeps DEF AppIInv, Kept, LaunchTxsTypeOK
<1>3. F!IsFlow(flow', Labels) /\ flow'.status = "idle"
  BY <1>1 DEF F!Idle, F!IsFlow, F!Statuses
<1>4. TypeOK'
  BY <1>1, <1>2, <1>3 DEF AppIInv, TypeOK, Kept
<1>5. run.pc = "off" /\ run.l = 0
  BY <1>1 DEF AppIInv, RunAgrees
<1>6. RunAgrees' /\ FlowAgrees'
  BY <1>1, <1>3, <1>5 DEF RunAgrees, FlowAgrees
<1> QED BY <1>2, <1>4, <1>6 DEF AppIInv

\* createLaunch fails: the handle it gives out names a session, or none.
LEMMA EndsKeeps ==
  ASSUME AppIInv, NEW f, NEW l \in DOMAIN sessions \cup {0}, Ends(f, l), Failed(F!Fail(f)),
         UNCHANGED <<chain, plans, transit, late, sessions>>, faults' \in 0..MaxFaults
  PROVE  AppIInv'
<1>1. form' = [status |-> "failed", resume |-> l] /\ flow' = F!Fail(f) /\ run' = [pc |-> "off", l |-> 0]
  BY DEF Ends, Off
<1>2. Kept' /\ SessionsAgree'
  BY AppQuietKeeps
<1>3. F!IsFlow(flow', Labels) /\ flow'.status = "failed"
  BY <1>1 DEF Failed
<1>4. TypeOK'
  BY <1>1, <1>2, <1>3 DEF AppIInv, TypeOK, Kept
<1>5. RunAgrees' /\ FlowAgrees'
  BY <1>1, <1>3 DEF RunAgrees, FlowAgrees
<1> QED BY <1>2, <1>4, <1>5 DEF AppIInv

LEMMA PrepareFailsKeeps == ASSUME AppIInv, PrepareFails PROVE AppIInv'
<1>1. /\ UNCHANGED <<chain, plans, transit, late, sessions>> /\ faults' \in 0..MaxFaults
      /\ run.pc = "prepare" /\ Ends(flow, 0)
  BY LaunchTxsAssumption DEF PrepareFails, Fault, AppIInv, Kept, LaunchTxsTypeOK
<1>2. Failed(F!Fail(flow))
  BY <1>1, FailedShown DEF AppIInv, TypeOK, FlowAgrees
<1> QED BY <1>1, <1>2, EndsKeeps

LEMMA PrepareKeeps == ASSUME AppIInv, Prepare PROVE AppIInv'
<1>1. PICK l \in Launches, fb \in BOOLEAN :
        /\ Fresh(l)
        /\ \E plan \in Plans(fb) :
              /\ plans' = [plans EXCEPT ![l] = plan]
              /\ flow' = F!Start(flow, plan)
        /\ sessions' = [k \in {l} \cup DOMAIN sessions |-> IF k = l THEN {} ELSE sessions[k]]
        /\ run' = [pc |-> "check", l |-> l]
  BY DEF Prepare
<1>2. PICK plan \in Plans(fb) :
        plans' = [plans EXCEPT ![l] = plan] /\ flow' = F!Start(flow, plan)
  BY <1>1
<1>3. UNCHANGED <<chain, transit, late, faults, form>> /\ run.pc = "prepare"
  BY DEF Prepare
<1>4. plan \in AllPlans /\ plan \subseteq Labels /\ plan # {}
  BY PlanFacts
<1>5. plans'[l] = plan /\ \A k \in Launches : k # l => plans'[k] = plans[k]
  BY <1>2 DEF AppIInv, Kept, LaunchTxsTypeOK
<1>6. /\ DOMAIN sessions' = {l} \cup DOMAIN sessions /\ sessions'[l] = {}
      /\ \A k \in DOMAIN sessions : k # l => sessions'[k] = sessions[k]
  BY <1>1
<1>7. plans[l] = {} /\ l \notin DOMAIN sessions
  BY <1>1 DEF Fresh, AppIInv, SessionsAgree
<1>8. ~chain[l].launch /\ ~chain[l].pool /\ chain[l].buys = 0
  BY <1>7 DEF AppIInv, Kept, PlannedOnly, ChainAgrees, LaunchTxsTypeOK
<1>9. LaunchTxsTypeOK'
  BY <1>2, <1>3, <1>4 DEF AppIInv, Kept, LaunchTxsTypeOK
<1>10. ChainAgrees' /\ PlannedOnly'
  <2>1. transit # NoTx => transit.l # l /\ transit.l \in Launches
    BY <1>7 DEF AppIInv, Kept, PlannedOnly, LaunchTxsTypeOK
  <2>2. PlannedOnly'
    BY <1>3, <1>5, <1>8, <2>1 DEF AppIInv, Kept, PlannedOnly, NoTx
  <2> QED BY <1>3, <2>2 DEF AppIInv, Kept, ChainAgrees
<1>11. BuysAgree'
  <2> SUFFICES ASSUME NEW k \in Launches
               PROVE  /\ "buy" \in plans'[k] =>
                            chain[k].buys <= late[k]
                              + (IF k \in DOMAIN sessions' /\ "buy" \notin sessions'[k] THEN 0 ELSE 1)
                      /\ "buy" \notin plans'[k] => chain[k].buys <= IF chain[k].pool THEN 1 ELSE 0
    BY <1>3 DEF BuysAgree
  <2>1. CASE k = l
    <3>1. late[l] \in Nat
      BY DEF AppIInv, Kept, LaunchTxsTypeOK
    <3> QED BY <1>6, <1>8, <2>1, <3>1
  <2>2. CASE k # l
    BY <1>5, <1>6, <2>2 DEF AppIInv, Kept, BuysAgree
  <2> QED BY <2>1, <2>2
<1>12. SessionsAgree'
  <2>1. \A k \in DOMAIN sessions' : sessions'[k] = {} \/ (k # l /\ k \in DOMAIN sessions /\ sessions'[k] = sessions[k])
    BY <1>6
  <2>2. DOMAIN sessions \subseteq Launches
    BY DEF AppIInv, TypeOK
  <2> QED BY <1>3, <1>4, <1>5, <1>6, <2>1, <2>2 DEF AppIInv, SessionsAgree, OnChain
<1>13. flow' = Progress(plan, {}, {})
  BY <1>2, <1>3, StartShown DEF AppIInv, FlowAgrees
<1>14. TypeOK'
  <2>1. F!IsFlow(flow', Labels)
    BY <1>4, <1>13, ProgressIsFlow
  <2>2. DOMAIN sessions' \subseteq Launches /\ \A k \in DOMAIN sessions' : sessions'[k] \subseteq plans'[k]
    BY <1>5, <1>6 DEF AppIInv, TypeOK
  <2> QED BY <1>1, <1>3, <1>6, <1>9, <2>1, <2>2 DEF AppIInv, TypeOK
<1>15. RunAgrees' /\ FlowAgrees'
  <2>1. run'.pc = "check" /\ run'.l = l /\ form.status = "submitting"
    BY <1>1, <1>3 DEF AppIInv, RunAgrees
  <2> QED BY <1>3, <1>5, <1>6, <1>13, <2>1 DEF RunAgrees, FlowAgrees
<1> QED BY <1>9, <1>10, <1>11, <1>12, <1>14, <1>15 DEF AppIInv, Kept

LEMMA PrepareRetryKeeps == ASSUME AppIInv, PrepareRetry PROVE AppIInv'
<1>1. /\ UNCHANGED <<chain, plans, transit, late, faults, sessions, form>>
      /\ run.pc = "prepare" /\ run.l # 0 /\ run' = [run EXCEPT !.pc = "check"]
  BY DEF PrepareRetry
<1>2. Kept' /\ SessionsAgree'
  BY <1>1, AppQuietKeeps DEF AppIInv, Kept, LaunchTxsTypeOK
<1>3. run.l \in DOMAIN sessions /\ run.l \in Launches /\ flow.status \in {"idle", "failed"}
  BY <1>1 DEF AppIInv, TypeOK, RunAgrees, FlowAgrees
<1>4. flow' = Progress(plans[run.l], sessions[run.l], {})
  BY <1>3, RetryShown DEF PrepareRetry
<1>5. run'.pc = "check" /\ run'.l = run.l /\ form.status = "submitting"
  BY <1>1 DEF AppIInv, TypeOK, RunAgrees
<1>6. TypeOK'
  <2>1. plans[run.l] \subseteq Labels
    BY <1>3, PlansApart DEF AppIInv, Kept, LaunchTxsTypeOK
  <2>2. F!IsFlow(flow', Labels)
    BY <1>4, <2>1, ProgressIsFlow
  <2> QED BY <1>1, <1>2, <1>3, <1>5, <2>2 DEF AppIInv, TypeOK, Kept
<1>7. RunAgrees' /\ FlowAgrees'
  BY <1>1, <1>3, <1>4, <1>5 DEF RunAgrees, FlowAgrees
<1> QED BY <1>2, <1>6, <1>7 DEF AppIInv

\* The step that is next is one of the plan's, and not remembered.
LEMMA NextStep ==
  ASSUME AppIInv, run.pc \in {"check", "send"}, Todo(run.l) # {}
  PROVE  /\ run.l \in DOMAIN sessions /\ run.l \in Launches
         /\ plans[run.l] \subseteq Labels
         /\ FirstOf(Todo(run.l)) \in plans[run.l] \ sessions[run.l]
<1>1. run.l \in DOMAIN sessions /\ run.l \in Launches
  BY DEF AppIInv, TypeOK, RunAgrees
<1>2. plans[run.l] \subseteq Labels
  BY <1>1, PlansApart DEF AppIInv, Kept, LaunchTxsTypeOK
<1>3. Todo(run.l) \in SUBSET Labels /\ Todo(run.l) = plans[run.l] \ sessions[run.l]
  BY <1>2 DEF Todo
<1> QED BY <1>1, <1>2, <1>3, FirstIn

\* What remembering a step of launch l changes.
LEMMA Remembered ==
  ASSUME TypeOK, NEW l \in DOMAIN sessions, NEW t \in plans[l], sessions' = Remembers(l, t),
         UNCHANGED plans
  PROVE  /\ DOMAIN sessions' = DOMAIN sessions
         /\ sessions'[l] = sessions[l] \cup {t}
         /\ \A k \in DOMAIN sessions : k # l => sessions'[k] = sessions[k]
         /\ \A k \in DOMAIN sessions' : sessions'[k] \subseteq plans'[k]
BY DEF TypeOK, Remembers

LEMMA CheckKeeps == ASSUME AppIInv, Check PROVE AppIInv'
<1>1. run.pc = "check" /\ Todo(run.l) # {} /\ UNCHANGED <<chain, plans, transit, late>>
  BY DEF Check
<1> PICK l, t : l = run.l /\ t = FirstOf(Todo(run.l))
  OBVIOUS
<1>2. /\ l \in DOMAIN sessions /\ l \in Launches /\ plans[l] \subseteq Labels
      /\ t \in plans[l] \ sessions[l] /\ t \in Labels
  BY <1>1, NextStep
<1>3. flow = Progress(plans[l], sessions[l], {})
  BY <1>1 DEF AppIInv, FlowAgrees
<1>4. F!StepStarted(flow, t) = Progress(plans[l], sessions[l], {t})
  BY <1>2, <1>3, StartedShown
<1>5. form.status = "submitting" /\ faults \in 0..MaxFaults
  BY <1>1 DEF AppIInv, RunAgrees, Kept, LaunchTxsTypeOK
<1>6. CASE /\ AlreadyDone(l, t)
           /\ sessions' = Remembers(l, t)
           /\ flow' = F!StepSucceeded(F!StepStarted(flow, t), t)
           /\ UNCHANGED <<form, run, faults>>
  <2>1. /\ DOMAIN sessions' = DOMAIN sessions
        /\ sessions'[l] = sessions[l] \cup {t}
        /\ \A k \in DOMAIN sessions : k # l => sessions'[k] = sessions[k]
        /\ \A k \in DOMAIN sessions' : sessions'[k] \subseteq plans'[k]
    BY <1>1, <1>2, <1>6, Remembered DEF AppIInv
  <2>2. flow' = Progress(plans[l], sessions'[l], {})
    BY <1>2, <1>4, <1>6, <2>1, SucceededShown
  <2>3. OnChain(l, t) /\ t # "buy"
    BY <1>2, <1>6 DEF AlreadyDone, OnChain, AppIInv, Kept, PlannedOnly
  <2>4. LaunchTxsTypeOK' /\ ChainAgrees' /\ PlannedOnly'
    BY <1>1, <1>6 DEF AppIInv, Kept, LaunchTxsTypeOK, ChainAgrees, PlannedOnly, NoTx
  <2>5. BuysAgree'
    <3>1. \A k \in DOMAIN sessions : "buy" \in sessions'[k] <=> "buy" \in sessions[k]
      BY <2>1, <2>3
    <3> QED BY <1>1, <2>1, <3>1 DEF AppIInv, Kept, BuysAgree
  <2>6. SessionsAgree'
    <3>1. \A k \in DOMAIN sessions : \A s \in sessions'[k] : s \in sessions[k] \/ (k = l /\ s = t)
      BY <2>1
    <3> QED BY <1>1, <2>1, <2>3, <3>1 DEF AppIInv, SessionsAgree, OnChain
  <2>7. TypeOK'
    <3>1. F!IsFlow(flow', Labels)
      BY <1>2, <2>2, ProgressIsFlow
    <3> QED BY <1>6, <2>1, <2>4, <3>1 DEF AppIInv, TypeOK
  <2>8. RunAgrees' /\ FlowAgrees'
    BY <1>1, <1>2, <1>5, <1>6, <2>1, <2>2 DEF AppIInv, RunAgrees, FlowAgrees
  <2> QED BY <2>4, <2>5, <2>6, <2>7, <2>8 DEF AppIInv, Kept
<1>7. CASE /\ run' = [run EXCEPT !.pc = "send"]
           /\ flow' = F!StepStarted(flow, t)
           /\ UNCHANGED <<sessions, form, faults>>
  <2>1. Kept' /\ SessionsAgree'
    BY <1>1, <1>5, <1>7, AppQuietKeeps
  <2>2. run'.pc = "send" /\ run'.l = l
    BY <1>7 DEF AppIInv, TypeOK
  <2>3. TypeOK'
    <3>1. F!IsFlow(flow', Labels)
      BY <1>2, <1>4, <1>7, ProgressIsFlow
    <3> QED BY <1>1, <1>2, <1>7, <2>1, <2>2, <3>1 DEF AppIInv, TypeOK, Kept
  <2>4. Todo(l)' = Todo(l) /\ Todo(run.l)' = Todo(run.l)
    BY <1>1, <1>7, <2>2 DEF Todo
  <2>5. RunAgrees' /\ FlowAgrees'
    BY <1>1, <1>2, <1>4, <1>5, <1>7, <2>2, <2>4 DEF RunAgrees, FlowAgrees
  <2> QED BY <2>1, <2>3, <2>5 DEF AppIInv
<1>8. CASE /\ Fault
           /\ Ends(F!StepFailed(F!StepStarted(flow, t), t, TRUE), l)
           /\ UNCHANGED sessions
  <2>1. faults' \in 0..MaxFaults
    BY <1>5, <1>8, LaunchTxsAssumption DEF Fault
  <2>2. Failed(F!Fail(F!StepFailed(F!StepStarted(flow, t), t, TRUE)))
    BY <1>2, <1>4, StepFailedShown
  <2> QED BY <1>1, <1>2, <1>8, <2>1, <2>2, EndsKeeps
<1> QED BY <1>6, <1>7, <1>8 DEF Check

\* A transaction of launch l has landed: the session remembers it, or it was given up on.
LEMMA LandingKept ==
  ASSUME Kept, NEW l \in Launches, NEW t \in plans[l], t \in Labels, LandedAs(l, t),
         UNCHANGED plans, faults' \in 0..MaxFaults,
         late' \in [Launches -> Nat], \A k \in Launches : k # l => late'[k] = late[k],
         late'[l] >= late[l],
         transit' = transit \/ transit' = NoTx,
         \A k \in Launches : k # l => (k \in DOMAIN sessions' <=> k \in DOMAIN sessions),
         \A k \in DOMAIN sessions : k # l => sessions'[k] = sessions[k],
         "buy" \in plans[l] =>
            chain'[l].buys <= late'[l] + (IF l \in DOMAIN sessions' /\ "buy" \notin sessions'[l] THEN 0 ELSE 1)
  PROVE  Kept'
<1>1. /\ LaunchTxsTypeOK
      /\ \A k \in Launches : chain[k].buys \in Nat /\ chain'[k].buys \in Nat
  BY DEF Kept, LaunchTxsTypeOK, LandedAs, Accounts
<1>2. LaunchTxsTypeOK'
  BY <1>1 DEF LaunchTxsTypeOK, LandedAs, Accounts, NoTx
<1>3. ChainAgrees'
  BY <1>1, LandingAgrees DEF Kept
<1>4. ~("poolBuy" \in plans[l] /\ ("pool" \in plans[l] \/ "buy" \in plans[l]))
  BY <1>1, PlansApart DEF LaunchTxsTypeOK
<1>5. PlannedOnly'
  <2>1. ASSUME NEW k \in Launches
        PROVE  /\ chain'[k].launch => plans[k] # {}
               /\ "poolBuy" \in plans[k] /\ chain'[k].pool => chain'[k].buys > 0
    <3>1. CASE k # l
      BY <3>1 DEF Kept, PlannedOnly, LandedAs
    <3>2. CASE k = l
      <4>1. CASE t = "poolBuy"
        BY <1>1, <3>2, <4>1 DEF LandedAs
      <4>2. CASE t = "pool"
        BY <1>4, <3>2, <4>2
      <4>3. CASE t = "buy"
        BY <1>1, <3>2, <4>3 DEF LandedAs
      <4>4. CASE t = "config"
        BY <3>2, <4>4 DEF Kept, PlannedOnly, LandedAs
      <4> QED BY <4>1, <4>2, <4>3, <4>4 DEF Labels
    <3> QED BY <3>1, <3>2
  <2> QED BY <2>1 DEF Kept, PlannedOnly, NoTx
<1>6. BuysAgree'
  <2>1. ASSUME NEW k \in Launches, "buy" \in plans[k]
        PROVE  chain'[k].buys <= late'[k]
                 + (IF k \in DOMAIN sessions' /\ "buy" \notin sessions'[k] THEN 0 ELSE 1)
    <3>1. CASE k = l
      BY <2>1, <3>1
    <3>2. CASE k # l
      BY <2>1, <3>2 DEF Kept, BuysAgree, LandedAs
    <3> QED BY <3>1, <3>2
  <2>2. ASSUME NEW k \in Launches, "buy" \notin plans[k]
        PROVE  chain'[k].buys <= IF chain'[k].pool THEN 1 ELSE 0
    <3>1. CASE k = l
      <4>1. t # "buy" /\ chain[l].buys <= IF chain[l].pool THEN 1 ELSE 0
        BY <2>2, <3>1 DEF Kept, BuysAgree
      <4>2. CASE t = "poolBuy"
        BY <1>1, <3>1, <4>1, <4>2 DEF LandedAs
      <4>3. CASE t # "poolBuy"
        <5>1. chain'[l].buys = chain[l].buys /\ (chain[l].pool => chain'[l].pool)
          BY <4>1, <4>3 DEF LandedAs
        <5> QED BY <1>1, <3>1, <4>1, <5>1
      <4> QED BY <4>2, <4>3
    <3>2. CASE k # l
      BY <2>2, <3>2 DEF Kept, BuysAgree, LandedAs
    <3> QED BY <3>1, <3>2
  <2> QED BY <2>1, <2>2 DEF BuysAgree
<1> QED BY <1>2, <1>3, <1>5, <1>6 DEF Kept

LEMMA AppSendKeeps == ASSUME AppIInv, Send PROVE AppIInv'
<1>1. run.pc = "send" /\ Todo(run.l) # {} /\ UNCHANGED plans
  BY DEF Send, AppIInv, RunAgrees
<1> PICK l, t : l = run.l /\ t = FirstOf(Todo(run.l))
  OBVIOUS
<1>2. /\ l \in DOMAIN sessions /\ l \in Launches /\ plans[l] \subseteq Labels
      /\ t \in plans[l] \ sessions[l] /\ t \in Labels
  BY <1>1, NextStep
<1>3. flow = Progress(plans[l], sessions[l], {t})
  BY <1>1 DEF AppIInv, FlowAgrees
<1>4. form.status = "submitting" /\ faults \in 0..MaxFaults /\ LaunchTxsTypeOK /\ TypeOK
  BY <1>1 DEF AppIInv, RunAgrees, Kept, LaunchTxsTypeOK
<1>5. CASE /\ Confirmed(l, t)
           /\ sessions' = Remembers(l, t)
           /\ flow' = F!StepSucceeded(flow, t)
           /\ run' = [run EXCEPT !.pc = "check"]
           /\ UNCHANGED form
  <2>1. /\ DOMAIN sessions' = DOMAIN sessions
        /\ sessions'[l] = sessions[l] \cup {t}
        /\ \A k \in DOMAIN sessions : k # l => sessions'[k] = sessions[k]
        /\ \A k \in DOMAIN sessions' : sessions'[k] \subseteq plans'[k]
    BY <1>1, <1>2, <1>4, <1>5, Remembered
  <2>2. flow' = Progress(plans[l], sessions'[l], {})
    BY <1>2, <1>3, <1>5, <2>1, SucceededShown
  <2>3. LandedAs(l, t) /\ UNCHANGED <<transit, late, faults>>
    BY <1>2, <1>4, <1>5, Landing DEF Confirmed
  <2>4. chain[l].buys \in Nat /\ late[l] \in Nat
    BY <1>2, <1>4 DEF LaunchTxsTypeOK
  <2>5. "buy" \in plans[l] =>
          chain'[l].buys <= late[l] + (IF l \in DOMAIN sessions' /\ "buy" \notin sessions'[l] THEN 0 ELSE 1)
    <3> SUFFICES ASSUME "buy" \in plans[l]
                 PROVE  chain'[l].buys <= late[l] + (IF "buy" \notin sessions'[l] THEN 0 ELSE 1)
      BY <1>2, <2>1
    <3>1. chain[l].buys <= late[l] + (IF "buy" \notin sessions[l] THEN 0 ELSE 1)
      BY <1>2 DEF AppIInv, Kept, BuysAgree
    <3>2. CASE t = "buy"
      BY <1>2, <2>1, <2>3, <2>4, <3>1, <3>2 DEF LandedAs
    <3>3. CASE t # "buy"
      <4>1. t # "poolBuy"
        BY <1>2, <1>4, PlansApart DEF LaunchTxsTypeOK
      <4> QED BY <2>1, <2>3, <3>1, <3>3, <4>1 DEF LandedAs
    <3> QED BY <3>2, <3>3
  <2>6. Kept'
    <3>1. late' = late /\ faults' = faults /\ transit' = transit
      BY <2>3
    <3>2. late \in [Launches -> Nat] /\ late'[l] >= late[l]
      BY <1>4, <2>4, <3>1 DEF LaunchTxsTypeOK
    <3>3. Kept
      BY DEF AppIInv
    <3> QED BY <1>1, <1>2, <1>4, <2>1, <2>3, <2>5, <3>1, <3>2, <3>3, LandingKept
  <2>7. /\ OnChain(l, t)'
        /\ \A k \in Launches : \A s \in Labels : OnChain(k, s) => OnChain(k, s)'
    BY <1>2, <1>4, <2>3, LandingAgrees DEF AppIInv, Kept
  <2>8. SessionsAgree'
    <3>1. \A k \in DOMAIN sessions : k \in Launches /\ sessions[k] \subseteq Labels
      BY <1>4, PlansApart DEF TypeOK, LaunchTxsTypeOK
    <3>2. \A k \in DOMAIN sessions : \A s \in sessions'[k] : s \in sessions[k] \/ (k = l /\ s = t)
      BY <2>1
    <3> QED BY <1>1, <2>1, <2>7, <3>1, <3>2 DEF AppIInv, SessionsAgree
  <2>9. run'.pc = "check" /\ run'.l = l
    BY <1>4, <1>5 DEF TypeOK
  <2>10. TypeOK'
    <3>1. F!IsFlow(flow', Labels)
      BY <1>2, <2>2, ProgressIsFlow
    <3> QED BY <1>2, <1>4, <1>5, <2>1, <2>6, <2>9, <3>1 DEF TypeOK, Kept
  <2>11. RunAgrees' /\ FlowAgrees'
    BY <1>1, <1>2, <1>4, <1>5, <2>1, <2>2, <2>9 DEF RunAgrees, FlowAgrees
  <2> QED BY <2>6, <2>8, <2>10, <2>11 DEF AppIInv
<1>6. CASE /\ Refused(l, t) \/ Unheard(l, t)
           /\ Ends(F!StepFailed(flow, t, TRUE), l)
           /\ UNCHANGED sessions
  <2>1. Failed(F!Fail(F!StepFailed(flow, t, TRUE)))
    BY <1>2, <1>3, StepFailedShown
  <2>2. faults' \in 0..MaxFaults /\ UNCHANGED <<chain, late>>
    BY <1>4, <1>6, LaunchTxsAssumption DEF Refused, Unheard, Fault
  <2>3. CASE UNCHANGED transit
    BY <1>1, <1>2, <1>6, <2>1, <2>2, <2>3, EndsKeeps
  <2>4. CASE transit' = [l |-> l, t |-> t]
    <3>1. form' = [status |-> "failed", resume |-> l] /\ run' = [pc |-> "off", l |-> 0]
          /\ flow' = F!Fail(F!StepFailed(flow, t, TRUE))
      BY <1>6 DEF Ends, Off
    <3>2. F!IsFlow(flow', Labels) /\ flow'.status = "failed"
      BY <2>1, <3>1 DEF Failed
    <3>3. LaunchTxsTypeOK'
      BY <1>1, <1>2, <1>4, <2>2, <2>4 DEF LaunchTxsTypeOK
    <3>4. ChainAgrees' /\ BuysAgree' /\ SessionsAgree'
      BY <1>1, <1>6, <2>2 DEF AppIInv, Kept, ChainAgrees, BuysAgree, SessionsAgree, OnChain
    <3>5. PlannedOnly'
      BY <1>1, <1>2, <2>2, <2>4 DEF AppIInv, Kept, PlannedOnly
    <3>6. TypeOK'
      BY <1>1, <1>2, <1>4, <1>6, <3>1, <3>2, <3>3 DEF TypeOK
    <3>7. RunAgrees' /\ FlowAgrees'
      BY <3>1, <3>2 DEF RunAgrees, FlowAgrees
    <3> QED BY <3>3, <3>4, <3>5, <3>6, <3>7 DEF AppIInv, Kept
  <2> QED BY <1>6, <2>3, <2>4 DEF Refused, Unheard
<1> QED BY <1>5, <1>6 DEF Send

LEMMA CreatedKeeps == ASSUME AppIInv, Created PROVE AppIInv'
<1>1. /\ run.pc = "check" /\ Todo(run.l) = {}
      /\ UNCHANGED <<chain, plans, transit, late, faults>>
      /\ form' = [status |-> "created", resume |-> 0] /\ run' = [run EXCEPT !.pc = "off"]
  BY DEF Created
<1> PICK l : l = run.l
  OBVIOUS
<1>2. l \in DOMAIN sessions /\ l \in Launches /\ plans[l] \subseteq sessions[l] /\ TypeOK
  BY <1>1 DEF AppIInv, RunAgrees, TypeOK, Todo
<1>3. /\ DOMAIN sessions' = DOMAIN sessions \ {l}
      /\ \A k \in DOMAIN sessions' : sessions'[k] = sessions[k]
  BY DEF Created, Restrict
<1>4. flow' = AllDone(plans[l])
  BY <1>1, <1>2, FinishedShown DEF Created, AppIInv, FlowAgrees
<1>5. plans[l] # {} /\ \A t \in plans[l] : OnChain(l, t)
  BY <1>2 DEF AppIInv, SessionsAgree
<1>6. LaunchTxsTypeOK' /\ ChainAgrees' /\ PlannedOnly'
  BY <1>1 DEF AppIInv, Kept, LaunchTxsTypeOK, ChainAgrees, PlannedOnly, NoTx
<1>7. BuysAgree'
  <2> SUFFICES ASSUME NEW k \in Launches, "buy" \in plans[k]
               PROVE  chain[k].buys <= late[k]
                        + (IF k \in DOMAIN sessions' /\ "buy" \notin sessions'[k] THEN 0 ELSE 1)
    BY <1>1 DEF BuysAgree, AppIInv, Kept
  <2>1. chain[k].buys \in Nat /\ late[k] \in Nat
    BY DEF AppIInv, Kept, LaunchTxsTypeOK
  <2>2. chain[k].buys <= late[k] + (IF k \in DOMAIN sessions /\ "buy" \notin sessions[k] THEN 0 ELSE 1)
    BY DEF AppIInv, Kept, BuysAgree
  <2>3. k \in DOMAIN sessions' => k \in DOMAIN sessions /\ sessions'[k] = sessions[k]
    BY <1>3
  <2> QED BY <2>1, <2>2, <2>3
<1>8. SessionsAgree'
  BY <1>1, <1>3 DEF AppIInv, SessionsAgree, OnChain
<1>9. run'.pc = "off" /\ run'.l = l
  BY <1>1, <1>2 DEF TypeOK
<1>10. TypeOK'
  <2>1. F!IsFlow(flow', Labels)
    <3>1. plans[l] \subseteq Labels
      BY <1>2, PlansApart DEF TypeOK, LaunchTxsTypeOK
    <3> QED BY <1>4, <3>1 DEF AllDone, F!IsFlow, F!Statuses, F!StepStatuses
  <2> QED BY <1>1, <1>2, <1>3, <1>6, <1>9, <2>1 DEF TypeOK
<1>11. RunAgrees' /\ FlowAgrees'
  <2>1. Complete(l)'
    BY <1>1, <1>5 DEF Complete, OnChain
  <2>2. l # 0
    BY <1>2 DEF Launches
  <2>3. Complete(run.l)'
    BY <1>9, <2>1
  <2> QED BY <1>1, <1>4, <1>9, <2>2, <2>3 DEF RunAgrees, FlowAgrees
<1> QED BY <1>6, <1>7, <1>8, <1>10, <1>11 DEF AppIInv, Kept

LEMMA ReloadKeeps == ASSUME AppIInv, Reload PROVE AppIInv'
<1>1. /\ UNCHANGED <<chain, plans, transit, late>> /\ faults' \in 0..MaxFaults
      /\ form' = [status |-> "idle", resume |-> 0] /\ run' = [pc |-> "off", l |-> 0]
      /\ sessions' = <<>> /\ flow' = F!Idle
  BY LaunchTxsAssumption DEF Reload, Off, Fault, AppIInv, Kept, LaunchTxsTypeOK
<1>2. DOMAIN sessions' = {}
  BY <1>1
<1>3. F!IsFlow(flow', Labels) /\ flow'.status = "idle"
  BY <1>1 DEF F!Idle, F!IsFlow, F!Statuses
<1>4. LaunchTxsTypeOK' /\ ChainAgrees' /\ PlannedOnly'
  BY <1>1 DEF AppIInv, Kept, LaunchTxsTypeOK, ChainAgrees, PlannedOnly, NoTx
<1>5. BuysAgree'
  <2> SUFFICES ASSUME NEW k \in Launches, "buy" \in plans[k]
               PROVE  chain[k].buys <= late[k] + 1
    BY <1>1, <1>2 DEF BuysAgree, AppIInv, Kept
  <2>1. chain[k].buys \in Nat /\ late[k] \in Nat
    BY DEF AppIInv, Kept, LaunchTxsTypeOK
  <2>2. chain[k].buys <= late[k] + (IF k \in DOMAIN sessions /\ "buy" \notin sessions[k] THEN 0 ELSE 1)
    BY DEF AppIInv, Kept, BuysAgree
  <2> QED BY <2>1, <2>2
<1>6. SessionsAgree'
  BY <1>2 DEF SessionsAgree
<1>7. TypeOK' /\ RunAgrees' /\ FlowAgrees'
  BY <1>1, <1>2, <1>3, <1>4 DEF TypeOK, RunAgrees, FlowAgrees
<1> QED BY <1>4, <1>5, <1>6, <1>7 DEF AppIInv, Kept

LEMMA AppLandsKeeps == ASSUME AppIInv, Lands \/ Expires, UNCHANGED appVars PROVE AppIInv'
<1>1. transit # NoTx /\ transit' = NoTx /\ UNCHANGED <<plans, faults, sessions, form, run, flow>>
  BY DEF Lands, Expires, appVars
<1> PICK l, t : l = transit.l /\ t = transit.t
  OBVIOUS
<1>2. l \in Launches /\ t \in Labels /\ t \in plans[l] /\ LaunchTxsTypeOK
  BY <1>1 DEF AppIInv, Kept, LaunchTxsTypeOK, PlannedOnly
<1>3. CASE Expires
  <2>1. UNCHANGED <<chain, late>>
    BY <1>3 DEF Expires
  <2>2. Kept'
    BY <1>1, <2>1 DEF AppIInv, Kept, LaunchTxsTypeOK, ChainAgrees, PlannedOnly, BuysAgree, NoTx
  <2> QED BY <1>1, <2>1, <2>2
          DEF AppIInv, Kept, TypeOK, SessionsAgree, OnChain, RunAgrees, FlowAgrees, Complete, Todo
<1>4. CASE Lands
  <2>1. LandedAs(l, t)
    BY <1>2, <1>4, Landing DEF Lands
  <2>2. /\ late' \in [Launches -> Nat] /\ \A k \in Launches : k # l => late'[k] = late[k]
        /\ late'[l] = IF t = "buy" THEN late[l] + 1 ELSE late[l]
        /\ late[l] \in Nat /\ chain[l].buys \in Nat
    BY <1>2, <1>4 DEF Lands, LaunchTxsTypeOK
  <2>3. "buy" \in plans[l] =>
          chain'[l].buys <= late'[l] + (IF l \in DOMAIN sessions /\ "buy" \notin sessions[l] THEN 0 ELSE 1)
    <3> SUFFICES ASSUME "buy" \in plans[l]
                 PROVE  chain'[l].buys <= late'[l]
                          + (IF l \in DOMAIN sessions /\ "buy" \notin sessions[l] THEN 0 ELSE 1)
      OBVIOUS
    <3>1. chain[l].buys <= late[l] + (IF l \in DOMAIN sessions /\ "buy" \notin sessions[l] THEN 0 ELSE 1)
      BY <1>2 DEF AppIInv, Kept, BuysAgree
    <3>2. t # "poolBuy"
      BY <1>2, PlansApart DEF LaunchTxsTypeOK
    <3> QED BY <2>1, <2>2, <3>1, <3>2 DEF LandedAs
  <2>4. Kept'
    <3>1. Kept /\ late'[l] >= late[l] /\ faults' \in 0..MaxFaults /\ sessions' = sessions /\ transit' = NoTx
      BY <1>1, <1>2, <2>2 DEF AppIInv, LaunchTxsTypeOK
    <3> QED BY <1>1, <1>2, <2>1, <2>2, <2>3, <3>1, LandingKept
  <2>5. \A k \in Launches : \A s \in Labels : OnChain(k, s) => OnChain(k, s)'
    BY <1>2, <2>1, LandingAgrees DEF AppIInv, Kept
  <2>6. \A k \in Launches : plans[k] \subseteq Labels
    BY <1>2, PlansApart DEF LaunchTxsTypeOK
  <2>7. \A k \in Launches : Complete(k) => Complete(k)'
    BY <1>1, <2>5, <2>6 DEF Complete
  <2>8. TypeOK' /\ SessionsAgree'
    BY <1>1, <2>4, <2>5, <2>6 DEF AppIInv, Kept, TypeOK, SessionsAgree
  <2>9. RunAgrees' /\ FlowAgrees'
    <3>1. run.l # 0 => run.l \in Launches
      BY DEF AppIInv, TypeOK
    <3>2. Complete(run.l) /\ run.l # 0 => Complete(run.l)'
      <4> PICK r : r = run.l
        OBVIOUS
      <4>1. Complete(r) /\ r # 0 => Complete(r)'
        BY <2>7, <3>1
      <4> QED BY <1>1, <4>1
    <3> QED BY <1>1, <3>2 DEF AppIInv, RunAgrees, FlowAgrees, Todo
  <2> QED BY <2>4, <2>8, <2>9 DEF AppIInv
<1> QED BY <1>3, <1>4

LEMMA AppNextInv == ASSUME AppIInv, [Next]_vars PROVE AppIInv'
<1>1. CASE UNCHANGED vars
  BY <1>1 DEF AppIInv, Kept, TypeOK, LaunchTxsTypeOK, ChainAgrees, PlannedOnly, BuysAgree, SessionsAgree,
              RunAgrees, FlowAgrees, OnChain, Complete, Todo, NoTx, vars, appVars
<1>2. CASE Next
  BY <1>2, SubmitKeeps, RetryKeeps, StartOverKeeps, PrepareFailsKeeps, PrepareKeeps, PrepareRetryKeeps,
     CheckKeeps, AppSendKeeps, CreatedKeeps, ReloadKeeps, AppLandsKeeps DEF Next, Works
<1> QED BY <1>1, <1>2

THEOREM AppInvariant == Spec => []AppIInv
<1>1. Init => AppIInv
  BY AppInitInv
<1>2. AppIInv /\ [Next]_vars => AppIInv'
  BY AppNextInv
<1> QED BY <1>1, <1>2, PTL DEF Spec

-----------------------------------------------------------------------------

\* What the invariant says of one state.
LEMMA AppHolds == AppIInv => TypeOK /\ BuysOnceUnlessLate /\ ShownIsTrue
<1>1. AppIInv => BuysOnceUnlessLate
  <2> SUFFICES ASSUME AppIInv, NEW l \in Launches
               PROVE  chain[l].buys <= 1 + late[l]
    BY DEF BuysOnceUnlessLate
  <2>1. chain[l].buys \in Nat /\ late[l] \in Nat
    BY DEF AppIInv, Kept, LaunchTxsTypeOK
  <2>2. CASE "buy" \in plans[l]
    BY <2>1, <2>2 DEF AppIInv, Kept, BuysAgree
  <2>3. CASE "buy" \notin plans[l]
    <3>1. chain[l].buys <= IF chain[l].pool THEN 1 ELSE 0
      BY <2>3 DEF AppIInv, Kept, BuysAgree
    <3> QED BY <2>1, <3>1
  <2> QED BY <2>2, <2>3
<1>2. AppIInv => ShownIsTrue
  <2> SUFFICES ASSUME AppIInv PROVE ShownIsTrue
    OBVIOUS
  <2>1. ASSUME run.l # 0, flow.status \in {"running", "succeeded"},
               NEW t \in DOMAIN flow.steps, flow.steps[t] = "done"
        PROVE  OnChain(run.l, t)
    <3>1. CASE run.pc \in {"check", "send"}
      <4>1. PICK active : flow = Progress(plans[run.l], sessions[run.l], active)
        BY <3>1 DEF AppIInv, FlowAgrees
      <4>2. t \in sessions[run.l]
        BY <2>1, <4>1 DEF Progress
      <4>3. run.l \in DOMAIN sessions
        BY <3>1 DEF AppIInv, RunAgrees
      <4> QED BY <4>2, <4>3 DEF AppIInv, SessionsAgree
    <3>2. CASE run.pc = "prepare"
      BY <2>1, <3>2 DEF AppIInv, FlowAgrees
    <3>3. CASE run.pc = "off"
      <4>1. form.status = "created"
        BY <2>1, <3>3 DEF AppIInv, RunAgrees
      <4>2. t \in plans[run.l]
        BY <2>1, <4>1 DEF AppIInv, FlowAgrees, AllDone
      <4> QED BY <4>1, <4>2 DEF AppIInv, RunAgrees, Complete
    <3> QED BY <3>1, <3>2, <3>3 DEF AppIInv, TypeOK
  <2>2. form.status = "created" => Complete(run.l) /\ flow.status = "succeeded"
    BY DEF AppIInv, RunAgrees, FlowAgrees, AllDone
  <2> QED BY <2>1, <2>2 DEF ShownIsTrue
<1>3. AppIInv => TypeOK
  BY DEF AppIInv
<1> QED BY <1>1, <1>2, <1>3

\* The state keeps its types, and a handle names a session that is in the map.
THEOREM AppTypesTheorem == Spec => []TypeOK
BY AppHolds, AppInvariant, PTL

\* However often it is retried, a launch buys more than once only if a first buy with a
\* transaction of its own landed after createLaunch had given up on it.
THEOREM BuysTheorem == Spec => []BuysOnceUnlessLate
BY AppHolds, AppInvariant, PTL

\* What the form and the flow say happened has happened on chain.
THEOREM ShownTheorem == Spec => []ShownIsTrue
BY AppHolds, AppInvariant, PTL

=============================================================================
