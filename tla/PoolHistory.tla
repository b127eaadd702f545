---------------------------- MODULE PoolHistory ----------------------------
(***************************************************************************)
(* The price history behind a token's chart: app/src/lib/chart/history.ts. *)
(* The server keeps one history per pool of a launch (the DBC curve and,   *)
(* after migration, the DAMM v2 pool), extends both by bounded amounts of  *)
(* RPC work while charts are requested, and answers with what it has.      *)
(*                                                                         *)
(* A transaction is its position in the chain.  It holds at most one swap  *)
(* and has a slot of its own, so a history's list of events is a set.      *)
(***************************************************************************)
EXTENDS Naturals, Sequences, FiniteSets

CONSTANTS
    MaxSignatures,      \* limits.maxSignatures: per listing, and of the backlog
    MaxTxPerRefresh,    \* limits.maxTxPerRefresh: transactions fetched per refresh
    MaxEvents,          \* limits.maxEvents: events kept per pool
    MaxAttempts,        \* limits.maxAttempts: fetches before a transaction is given up
    Landing,            \* bound: kinds of transactions that occur
    MaxTxs,             \* bound: transactions that touch the launch's pools
    MaxEvictions        \* bound: histories dropped because of other launches' pools

ASSUME HistoryAssumption ==
    /\ {MaxSignatures, MaxTxPerRefresh, MaxEvents, MaxAttempts} \subseteq Nat \ {0}
    /\ {MaxTxs, MaxEvictions} \subseteq Nat
    /\ Landing \subseteq
        {"create", "buy", "failedBuy", "harvest", "migrate", "migrateAndTrade",
         "harvestAndTrade", "trade"}

VARIABLES
    chain,          \* kinds of the confirmed transactions of the pools, oldest first
    histories,      \* per pool: its PoolHistory; emptyHistory() when not in memory
    build,          \* the chart being built; requests for one mint share it
    cache,          \* the last answer, while it is fresh
    missed,         \* "no launch uses this mint" is cached
    evictions       \* histories dropped so far

vars == <<chain, histories, build, cache, missed, evictions>>

-----------------------------------------------------------------------------
(* The chain.  Every kind of transaction, with the pools whose signature    *)
(* listing shows it and the venue of the swap it holds.  A transaction may  *)
(* migrate or harvest the curve and trade on the new pool at once.          *)

Pools == {"dbc", "damm"}

Touched ==
    [create |-> {"dbc"}, buy |-> {"dbc"}, failedBuy |-> {"dbc"}, harvest |-> {"dbc"},
     migrate |-> Pools, migrateAndTrade |-> Pools, harvestAndTrade |-> Pools,
     trade |-> {"damm"}]

Kinds == DOMAIN Touched
Failed == {"failedBuy"}
Migrations == {"migrate", "migrateAndTrade"}
VenueOf(kind) ==
    IF kind = "buy" THEN "dbc"
    ELSE IF kind \in {"trade", "migrateAndTrade", "harvestAndTrade"} THEN "damm"
    ELSE "none"

Touches(pool) == {i \in DOMAIN chain : pool \in Touched[chain[i]]}
SwapsOn(pool) == {i \in DOMAIN chain : VenueOf(chain[i]) = pool}
Swaps == UNION {SwapsOn(pool) : pool \in Pools}
Migrated == \E i \in DOMAIN chain : chain[i] \in Migrations

\* The curve takes no trade once it has migrated, the pool none before.
Land(kind) ==
    /\ Len(chain) < MaxTxs
    /\ (kind = "create") <=> (chain = <<>>)
    /\ kind \in Migrations \cup {"buy", "failedBuy"} => ~Migrated
    /\ kind \in {"trade", "harvestAndTrade"} => Migrated
    /\ chain' = Append(chain, kind)
    /\ UNCHANGED <<histories, build, cache, missed, evictions>>

-----------------------------------------------------------------------------
(* One refresh of one history.  Nothing others do between its listing and   *)
(* its last fetch changes what it sees, so it is one step.                  *)

Txs == 1..MaxTxs

EmptyHistory ==
    [events |-> {}, newestSig |-> 0, pending |-> {}, attempts |-> [i \in Txs |-> 0],
     capped |-> FALSE, final |-> FALSE]

\* The k newest members of a set of transactions.
Newest(S, k) == {i \in S : Cardinality({j \in S : j > i}) < k}

\* What the listing back to the newest signature seen would show without a cap.
Listable(h, pool) == {i \in Touches(pool) : i > h.newestSig}

\* Mutant of Backlog: a listing replaces what was still pending.
BacklogReplaced(h, pool) ==
    {i \in Newest(Listable(h, pool), MaxSignatures) : chain[i] \notin Failed}

\* Failed transactions are listed and never fetched; the backlog stays behind.
Backlog(h, pool) ==
    {i \in Newest(Listable(h, pool), MaxSignatures) : chain[i] \notin Failed}
        \cup h.pending

\* Mutant of Pending: the backlog grows without a cap.
PendingUncapped(h, pool) == Backlog(h, pool)

Pending(h, pool) == Newest(Backlog(h, pool), MaxSignatures)

NewestSig(h, pool) ==
    LET listable == Listable(h, pool)
    IN  IF listable = {} THEN h.newestSig
        ELSE CHOOSE i \in listable : \A j \in listable : j <= i

\* The signature cap was reached, by the listing or by the backlog.
ListingCut(h, pool) ==
    \/ Cardinality(Listable(h, pool)) >= MaxSignatures
    \/ Cardinality(Backlog(h, pool)) > MaxSignatures

\* Mutant of Listed: attempts are counted from 0 in every refresh.
ListedAfresh(h, pool) ==
    LET pending == Pending(h, pool)
    IN  [h EXCEPT
            !.newestSig = NewestSig(h, pool),
            !.pending = pending,
            !.attempts = [i \in Txs |-> 0],
            !.capped = h.capped \/ ListingCut(h, pool)]

\* The history after its listing: every successful new signature is pending.
Listed(h, pool) ==
    LET pending == Pending(h, pool)
    IN  [h EXCEPT
            !.newestSig = NewestSig(h, pool),
            !.pending = pending,
            !.attempts = [i \in Txs |-> IF i \in pending THEN h.attempts[i] ELSE 0],
            !.capped = h.capped \/ ListingCut(h, pool)]

\* Workers take the batch newest first until the deadline: they try a prefix.
Tries(l) ==
    LET batch == Newest(l.pending, MaxTxPerRefresh)
    IN  {Newest(batch, n) : n \in 0..MaxTxPerRefresh}

\* The swaps fetched transactions bring: of either pool that the launch, as it was
\* read, has.
EventsOf(fetched) ==
    {i \in fetched \cap Swaps : i \in SwapsOn("damm") => build.dammPool}

\* A miss that is one too many: the transaction is done, with no event.
GivenUp(l, misses) == {i \in misses : l.attempts[i] + 1 >= MaxAttempts}

Fetched(l, tried, misses) ==
    LET merged == l.events \cup EventsOf(tried \ misses)
        left == (l.pending \ tried) \cup (misses \ GivenUp(l, misses))
    IN  [l EXCEPT
            !.events = Newest(merged, MaxEvents),
            !.pending = left,
            !.attempts = [i \in Txs |-> IF i \in misses \cap left THEN l.attempts[i] + 1
                                       ELSE IF i \in left THEN l.attempts[i] ELSE 0],
            !.capped = \/ l.capped
                       \/ GivenUp(l, misses) # {}
                       \/ Cardinality(merged) > MaxEvents]

-----------------------------------------------------------------------------
(* The chart service, for one mint.                                         *)

Idle == [pc |-> "idle", dammPool |-> FALSE, dbc |-> EmptyHistory, asOf |-> 0]

NoBody == [kind |-> "none", partial |-> TRUE, dbc |-> {}, damm |-> {}, asOf |-> 0]
ErrorBody == [kind |-> "error", partial |-> TRUE, dbc |-> {}, damm |-> {}, asOf |-> 0]

Complete(h) == ~h.capped /\ h.pending = {}

\* Mutant of Body: only the curve's history is asked whether it is complete.
BodyOfCurve(dbc, damm) ==
    [kind |-> "chain", partial |-> ~Complete(dbc),
     dbc |-> dbc.events, damm |-> damm.events, asOf |-> build.asOf]

\* asOf is no field of the answer: it dates the launch the answer describes.
Body(dbc, damm) ==
    [kind |-> "chain", partial |-> ~(Complete(dbc) /\ Complete(damm)),
     dbc |-> dbc.events, damm |-> damm.events, asOf |-> build.asOf]

\* getChart, when neither an answer nor a miss is cached and no build is running.
Request ==
    /\ build.pc = "idle" /\ cache = NoBody /\ ~missed
    /\ build' = [build EXCEPT !.pc = "launch"]
    /\ UNCHANGED <<chain, histories, cache, missed, evictions>>

ReadLaunch ==
    /\ build.pc = "launch"
    /\ IF chain = <<>>
       THEN missed' = TRUE /\ build' = Idle
       ELSE /\ build' = [build EXCEPT !.pc = "dbc", !.dammPool = Migrated,
                                      !.asOf = Len(chain)]
            /\ UNCHANGED missed
    /\ UNCHANGED <<chain, histories, cache, evictions>>

\* getLaunch throws: so does getChart, and nothing is cached.
LaunchUnreadable ==
    /\ build.pc = "launch"
    /\ build' = Idle
    /\ UNCHANGED <<chain, histories, cache, missed, evictions>>

\* Mutant of Frozen: a migrated curve is final whatever is still to be fetched.
FrozenAtMigration(h) == [h EXCEPT !.final = h.final \/ build.dammPool]

\* After migration the curve takes no more trades: once fully fetched it is final.
Frozen(h) == [h EXCEPT !.final = h.final \/ (build.dammPool /\ h.pending = {})]

\* With no DAMM pool the answer is made of the curve's history alone.
CurveDone(dbc) ==
    IF build.dammPool
    THEN /\ build' = [build EXCEPT !.pc = "damm", !.dbc = dbc]
         /\ UNCHANGED cache
    ELSE /\ build' = Idle
         /\ cache' = Body(dbc, EmptyHistory)

RefreshCurve(h, tried, misses) ==
    \E dbc \in {Frozen(Fetched(h, tried, misses))} :
        /\ histories' = [histories EXCEPT !["dbc"] = dbc]
        /\ CurveDone(dbc)
        /\ UNCHANGED <<chain, missed, evictions>>

SkipFinalCurve ==
    /\ build.pc = "dbc" /\ histories["dbc"].final
    /\ CurveDone(histories["dbc"])
    /\ UNCHANGED <<chain, histories, missed, evictions>>

RefreshDamm(h, tried, misses) ==
    \E damm \in {Fetched(h, tried, misses)} :
        /\ histories' = [histories EXCEPT !["damm"] = damm]
        /\ cache' = Body(build.dbc, damm)
        /\ build' = Idle
        /\ UNCHANGED <<chain, missed, evictions>>

\* A listing throws: what is already merged stays, the answer is a flat line.
ListingFails ==
    /\ \/ build.pc = "dbc" /\ ~histories["dbc"].final
       \/ build.pc = "damm"
    /\ cache' = ErrorBody
    /\ build' = Idle
    /\ UNCHANGED <<chain, histories, missed, evictions>>

\* The time to live of an answer or of a miss is over.
Expire ==
    /\ cache # NoBody \/ missed
    /\ cache' = NoBody /\ missed' = FALSE
    /\ UNCHANGED <<chain, histories, build, evictions>>

\* Charts of other launches push a history out of memory (LRU, maxPools).
Evict(pool) ==
    /\ evictions < MaxEvictions /\ histories[pool] # EmptyHistory
    /\ histories' = [histories EXCEPT ![pool] = EmptyHistory]
    /\ evictions' = evictions + 1
    /\ UNCHANGED <<chain, build, cache, missed>>

-----------------------------------------------------------------------------
Init ==
    /\ chain = <<>>
    /\ histories = [pool \in Pools |-> EmptyHistory]
    /\ build = Idle
    /\ cache = NoBody
    /\ missed = FALSE
    /\ evictions = 0

RefreshSomeCurve ==
    /\ build.pc = "dbc" /\ ~histories["dbc"].final
    /\ \E h \in {Listed(histories["dbc"], "dbc")} :
           \E tried \in Tries(h) :
            \E misses \in SUBSET tried : RefreshCurve(h, tried, misses)

RefreshSomeDamm ==
    /\ build.pc = "damm"
    /\ \E h \in {Listed(histories["damm"], "damm")} :
           \E tried \in Tries(h) :
            \E misses \in SUBSET tried : RefreshDamm(h, tried, misses)

Next ==
    \/ \E kind \in Landing : Land(kind)
    \/ Request
    \/ ReadLaunch
    \/ LaunchUnreadable
    \/ RefreshSomeCurve
    \/ SkipFinalCurve
    \/ RefreshSomeDamm
    \/ ListingFails
    \/ Expire
    \/ \E pool \in Pools : Evict(pool)

Spec == Init /\ [][Next]_vars

\* A refresh of the curve that finds time to try something, if there is anything.
FetchCurve ==
    /\ build.pc = "dbc" /\ ~histories["dbc"].final
    /\ \E h \in {Listed(histories["dbc"], "dbc")} :
           \E tried \in Tries(h) :
            /\ tried = {} => h.pending = {}
            /\ \E misses \in SUBSET tried : RefreshCurve(h, tried, misses)

(***************************************************************************)
(* Somebody keeps looking at the chart, answers expire, a launch that is   *)
(* read again and again is read at some time, and likewise a listing       *)
(* answers with time left to fetch.  Nothing is assumed of the fetches.    *)
(***************************************************************************)
FairSpec ==
    /\ Spec
    /\ WF_vars(Request) /\ WF_vars(Expire)
    /\ SF_vars(ReadLaunch)
    /\ SF_vars(FetchCurve)
    /\ WF_vars(RefreshSomeDamm)

-----------------------------------------------------------------------------
History ==
    [events : SUBSET Txs, newestSig : 0..MaxTxs, pending : SUBSET Txs,
     attempts : [Txs -> 0..(MaxAttempts - 1)], capped : BOOLEAN, final : BOOLEAN]

WithinLimits(h) ==
    /\ Cardinality(h.pending) <= MaxSignatures
    /\ Cardinality(h.events) <= MaxEvents
    /\ \A i \in Txs \ h.pending : h.attempts[i] = 0

(***************************************************************************)
(* Types, and what a history may hold in memory: the limits cap its        *)
(* backlog and its events, only what is pending has a count of attempts,   *)
(* and no transaction is tried more than maxAttempts times.                *)
(***************************************************************************)
TypeOK ==
    /\ chain \in Seq(Kinds) /\ Len(chain) <= MaxTxs
    /\ histories \in [Pools -> History]
    /\ \A pool \in Pools : WithinLimits(histories[pool])
    /\ build \in [pc : {"idle", "launch", "dbc", "damm"}, dammPool : BOOLEAN,
                  dbc : History, asOf : 0..MaxTxs]
    /\ cache \in [kind : {"none", "chain", "error"}, partial : BOOLEAN,
                  dbc : SUBSET Txs, damm : SUBSET Txs, asOf : 0..MaxTxs]
    /\ missed \in BOOLEAN
    /\ evictions \in 0..MaxEvictions

(***************************************************************************)
(* A history that was never cut short accounts for every swap on its pool  *)
(* up to the newest signature it has listed: drawn or still to be fetched, *)
(* never both, whatever was listed, missed and retried in between.  The    *)
(* next listing starts at newestSig, so a swap lost here is lost for good. *)
(***************************************************************************)
Accounted(h, pool) ==
    /\ h.pending \cap h.events = {}
    /\ \A i \in h.pending \cup h.events : i <= h.newestSig
    /\ ~h.capped =>
        \A i \in SwapsOn(pool) :
            i <= h.newestSig => i \in h.pending \cup h.events

NothingLost == \A pool \in Pools : Accounted(histories[pool], pool)

(***************************************************************************)
(* A chart that is not marked partial shows every swap that was confirmed  *)
(* when the launch was read, on the curve and on the pool, although both   *)
(* histories are read later, at two moments, and may be evicted between.   *)
(***************************************************************************)
FullChartIsFull ==
    cache.kind = "chain" /\ ~cache.partial =>
        \A i \in Swaps : i <= cache.asOf => i \in cache.dbc \cup cache.damm

(***************************************************************************)
(* "Immutable from now on": a final curve history is never refreshed, so   *)
(* nothing may be pending in it, and unless it was cut short it holds      *)
(* every curve trade there is and will be.                                 *)
(***************************************************************************)
FinalIsComplete ==
    LET h == histories["dbc"]
    IN  h.final =>
            /\ h.pending = {}
            /\ ~h.capped => SwapsOn("dbc") \subseteq h.events

(***************************************************************************)
(* "So a pool can always become final": after migration the curve's        *)
(* history is final at some time, even if no transaction is ever served.   *)
(***************************************************************************)
CurveHistorySettles == Migrated ~> histories["dbc"].final

(***************************************************************************)
(* No trade is counted twice in an answer.                                 *)
(***************************************************************************)
TradesDrawnOnce == cache.dbc \cap cache.damm = {}

=============================================================================
