----------------------------- MODULE PriceCache -----------------------------
(***************************************************************************)
(* JupiterPriceProvider (app/src/lib/chain/prices.ts) for one mint: a      *)
(* cache with a lifetime, one refresh at a time shared by its callers, and *)
(* what is served when the refresh fails.                                  *)
(***************************************************************************)
EXTENDS Integers

CONSTANTS
    Ttl,         \* lifetime of the cache
    StaleAfter,  \* age at which a price is labelled after a failed refresh
    MaxTime      \* bound of the clock

VARIABLES
    now,     \* the clock
    cached,  \* the last read: when it began, and whether it had the mint
    begun,   \* when the refreshes in flight began
    served,  \* what was served last: its label, the time of its read, and of the refresh
    polling  \* a page is open and asks for prices

vars == <<now, cached, begun, served, polling>>

None == [at |-> -1, priced |-> FALSE]
Unserved == [source |-> "none", at |-> -1, began |-> -1]

Init ==
    /\ now = 0
    /\ cached = None
    /\ begun = {}
    /\ served = Unserved
    /\ polling = FALSE

\* Mutant: what was read once is kept.
FreshForever == cached # None
Fresh == cached # None /\ now - cached.at < Ttl

\* A mint that the read did not have comes from the reference table.
Source(read, label) == IF read.priced THEN label ELSE "reference"
Serve(read, label, began) == served' = [source |-> Source(read, label), at |-> read.at, began |-> began]

\* Mutant: every caller refreshes for itself.
JoinNone == begun \cup {now}
\* A caller joins the refresh in flight, or begins one.
Join == IF begun = {} THEN {now} ELSE begun

Open ==
    /\ ~polling /\ polling' = TRUE
    /\ UNCHANGED <<now, cached, begun, served>>

Ask ==
    /\ polling
    /\ IF Fresh
       THEN Serve(cached, "jupiter", now) /\ UNCHANGED begun
       ELSE begun' = Join /\ UNCHANGED served
    /\ UNCHANGED <<now, cached, polling>>

Answer ==
    /\ \E at \in begun, priced \in BOOLEAN :
          /\ cached' = [at |-> at, priced |-> priced]
          /\ Serve(cached', "jupiter", at)
          /\ begun' = begun \ {at}
    /\ UNCHANGED <<now, polling>>

\* Mutant: no label.
LabelAlways(at) == "jupiter"
Label(at) == IF at - cached.at <= StaleAfter THEN "jupiter" ELSE "stale"

\* Mutant: without Jupiter, the reference table.
FallbackReference(at) == served' = [source |-> "reference", at |-> -1, began |-> at]
\* The last read, or the reference table if there is none.
Fallback(at) == Serve(cached, Label(at), at)

Fail ==
    /\ \E at \in begun :
          /\ Fallback(at)
          /\ begun' = begun \ {at}
    /\ UNCHANGED <<now, cached, polling>>

Tick ==
    /\ now < MaxTime
    /\ now' = now + 1
    /\ UNCHANGED <<cached, begun, served, polling>>

Next == Open \/ Ask \/ Answer \/ Fail \/ Tick

\* An open page asks, a request ends, and Jupiter does not fail for ever.
Fairness == WF_vars(Ask) /\ WF_vars(Answer \/ Fail) /\ SF_vars(Answer)

Spec == Init /\ [][Next]_vars /\ Fairness

-----------------------------------------------------------------------------

\* Types; one refresh at a time.
TypeOK ==
    /\ now \in 0..MaxTime
    /\ cached \in [at : 0..MaxTime, priced : BOOLEAN] \cup {None}
    /\ \E t \in 0..MaxTime : begun \subseteq {t}
    /\ served \in [source : {"jupiter", "stale", "reference"}, at : -1..MaxTime, began : 0..MaxTime] \cup {Unserved}

\* However calls, answers and failures interleave, nobody is served an older read
\* after a newer one.
NeverOlder == [][served'.at >= served.at]_served

\* A price served without the label "stale" was at most StaleAfter old when its
\* refresh began (the refresh itself may take long).
UnlabelledIsRecent ==
    served.source = "jupiter" => served.began - served.at <= StaleAfter

\* The reference table is served only while the last read there is has no price
\* for the mint.
ReferenceIsLast ==
    [][served'.source = "reference" => cached' = None \/ ~cached'.priced]_served

\* An outage ends: prices older than the cache's lifetime are read again.
Outdated == cached = None \/ now - cached.at >= Ttl

ReadAgain == (polling /\ Outdated) ~> ~Outdated

\* "used only when Jupiter is unreachable and nothing was read yet"
\* (prices.ts:22-23), of the reference table.
ReferenceOnlyUnread == served.source = "reference" => cached = None

=============================================================================
