---------------------------- MODULE RateLimiter ----------------------------
(***************************************************************************)
(* The in-memory request counter of the upload route                       *)
(* (app/src/lib/upload/rateLimit.ts): fixed windows per key and for the    *)
(* whole instance, and a bounded map of keys.                              *)
(***************************************************************************)
EXTENDS Integers, FiniteSets, Functions

CONSTANTS
    Keys,         \* client addresses
    Limit,        \* requests per key and window
    GlobalLimit,  \* requests per window over all keys
    Window,       \* length of a window
    MaxKeys,      \* keys tracked at once
    MaxTime       \* bound of the clock

VARIABLES
    now,        \* the clock
    hits,       \* the windows of the keys tracked
    global,     \* the window of the instance
    lastSweep,  \* when expired keys were last removed
    granted,    \* history: how often take(key) returned true at a time
    crowdedOut  \* history: a key was refused at this moment because the map is full

vars == <<now, hits, global, lastSweep, granted, crowdedOut>>

Times == 0..MaxTime

\* -Window is a time at which every window has expired.
Init ==
    /\ now = 0
    /\ hits = <<>>
    /\ global = [start |-> -Window, count |-> 0]
    /\ lastSweep = -Window
    /\ granted = [grant \in Keys \X Times |-> 0]
    /\ crowdedOut = FALSE

Expired(start) == now - start >= Window
NewWindow == [start |-> now, count |-> 0]

\* The instance's window for this request.
Global == IF Expired(global.start) THEN NewWindow ELSE global

\* Mutant: keys are removed once.
SweptOnce ==
    IF lastSweep = -Window THEN Restrict(hits, {k \in DOMAIN hits : ~Expired(hits[k].start)}) ELSE hits
\* The map after the sweep that precedes a refusal: at most one in a window.
Swept ==
    IF Expired(lastSweep) THEN Restrict(hits, {k \in DOMAIN hits : ~Expired(hits[k].start)}) ELSE hits

Full(map) == Cardinality(DOMAIN map) >= MaxKeys

Live(key) == key \in DOMAIN hits /\ ~Expired(hits[key].start)

Count(key, map, entry) ==
    /\ hits' = [k \in DOMAIN map \cup {key} |-> IF k = key THEN [entry EXCEPT !.count = @ + 1] ELSE map[k]]
    /\ global' = [Global EXCEPT !.count = @ + 1]
    /\ granted' = [granted EXCEPT ![<<key, now>>] = @ + 1]

InstanceBusy ==
    /\ Global.count >= GlobalLimit
    /\ global' = Global
    /\ crowdedOut' = FALSE
    /\ UNCHANGED <<now, hits, lastSweep, granted>>

\* Mutant: one request too many.
LimitPassed(key) == hits[key].count > Limit
LimitReached(key) == hits[key].count >= Limit

TakeLive(key) ==
    /\ Global.count < GlobalLimit
    /\ Live(key)
    /\ IF LimitReached(key)
       THEN global' = Global /\ UNCHANGED <<hits, granted>>
       ELSE Count(key, hits, hits[key])
    /\ crowdedOut' = FALSE
    /\ UNCHANGED <<now, lastSweep>>

\* Mutant: a new key always has room.
CrowdedNever(key) == FALSE
\* A key that is not in the map meets a full one.
Crowded(key) == key \notin DOMAIN hits /\ Full(hits)

TakeNew(key) ==
    /\ Global.count < GlobalLimit
    /\ ~Live(key) /\ ~Crowded(key)
    /\ Count(key, hits, NewWindow)
    /\ crowdedOut' = FALSE
    /\ UNCHANGED <<now, lastSweep>>

TakeCrowded(key) ==
    /\ Global.count < GlobalLimit
    /\ Crowded(key)
    /\ lastSweep' = IF Expired(lastSweep) THEN now ELSE lastSweep
    /\ IF Full(Swept)
       THEN hits' = Swept /\ global' = Global /\ crowdedOut' = TRUE /\ UNCHANGED granted
       ELSE Count(key, Swept, NewWindow) /\ crowdedOut' = FALSE
    /\ UNCHANGED now

Tick ==
    /\ now < MaxTime
    /\ now' = now + 1
    /\ crowdedOut' = FALSE
    /\ UNCHANGED <<hits, global, lastSweep, granted>>

Next ==
    \/ InstanceBusy
    \/ \E key \in Keys : TakeLive(key) \/ TakeNew(key) \/ TakeCrowded(key)
    \/ Tick

Spec == Init /\ [][Next]_vars

-----------------------------------------------------------------------------

\* Types; the map never exceeds its bound.
TypeOK ==
    /\ now \in Times
    /\ DOMAIN hits \subseteq Keys /\ Cardinality(DOMAIN hits) <= MaxKeys
    /\ \A key \in DOMAIN hits : hits[key] \in [start : Times, count : 1..Limit]
    /\ global.start \in Times \cup {-Window} /\ global.count \in 0..GlobalLimit
    /\ lastSweep \in Times \cup {-Window}

\* The grants to some keys in the window of length Window that begins at t.
Sliding(keys, t) == FoldFunctionOnSet(+, 0, granted, keys \X {s \in Times : s \in t..t + Window - 1})

\* Whatever the alignment of the fixed windows, no interval of their length brings
\* a client two full limits, nor all clients together more than two global ones.
BurstsBounded ==
    \A t \in Times :
       /\ \A key \in Keys : Sliding({key}, t) < 2 * Limit
       /\ Sliding(Keys, t) <= 2 * GlobalLimit

\* "New keys are refused while the map is full of live windows" (rateLimit.ts:13)
\* and, as sweeps are rare, at most one window longer.
RefusedOnlyWhileRecent ==
    crowdedOut => \A key \in DOMAIN hits : now - hits[key].start < 2 * Window

=============================================================================
