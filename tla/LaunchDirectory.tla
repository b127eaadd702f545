-------------------------- MODULE LaunchDirectory --------------------------
(***************************************************************************)
(* Which launch a token page and the list show: resolveLaunchByBaseMint    *)
(* (launchState.ts) and ChainDataSource (data/chain.ts), one data source   *)
(* whose requests interleave and share its caches.  Anyone can create a    *)
(* Launch account that commits the mint of another launch; only the one    *)
(* that owns the mint's DBC pool is real.                                  *)
(***************************************************************************)
EXTENDS Integers, FiniteSets

CONSTANTS
    ImageRetry,     \* IMAGE_RETRY_MS, in ticks
    MaxFailures     \* bound: reads and documents that fail

VARIABLES
    stage,       \* of each Launch account
    allowed,     \* the launches whose quote mint is in the allowlist
    imitations,  \* the mints whose name imitates the brand (isReservedTokenName)
    launchByMint, metadata, imageRetryAt,   \* the caches of the data source
    served,      \* the metadata document of "mint" is served by the gateway
    requests,
    failures

vars == <<stage, allowed, imitations, launchByMint, metadata, imageRetryAt, served, requests, failures>>

\* "real" is the launch that may come to own the pool of "mint", "shadow" only commits the
\* mint; "other" is in order, and cached, from the start.
Launches == {"real", "shadow", "other"}
BaseMint == [l \in Launches |-> IF l = "other" THEN "plain" ELSE "mint"]
Mints == {BaseMint[l] : l \in Launches}
None == "none"

\* A page that is open and a list that is open, each of which asks again and again.
Requests == {"page", "list"}

Exists(l) == stage[l] # "none"
HasPool(l) == stage[l] \in {"pooled", "registered"}
Owners(mint) == {l \in Launches : BaseMint[l] = mint /\ HasPool(l)}

Idle == [pc |-> "idle", candidates |-> {}, mints |-> {}, docs |-> {}, answer |-> "none",
         present |-> {}, failed |-> {}]

Init ==
    /\ stage = [l \in Launches |-> IF l = "other" THEN "registered" ELSE "none"]
    /\ allowed \in {Launches, Launches \ {"real"}}
    /\ imitations \in {{}, {"mint"}}
    /\ launchByMint = [mint \in Mints |-> IF mint = "plain" THEN "other" ELSE None]
    /\ metadata = [mint \in Mints |-> IF mint = "plain" THEN "image" ELSE "unread"]
    /\ imageRetryAt = [mint \in Mints |-> -1]
    /\ served \in BOOLEAN
    /\ requests = [r \in Requests |-> Idle]
    /\ failures = 0

-----------------------------------------------------------------------------
(* The chain, the gateway and the clock.                                   *)

\* A mint has one pool, created with the mint itself, and only then registered.
Advance(l) ==
    /\ \/ stage[l] = "none" /\ stage' = [stage EXCEPT ![l] = "created"]
       \/ stage[l] = "created" /\ l # "shadow" /\ stage' = [stage EXCEPT ![l] = "pooled"]
       \/ stage[l] = "pooled" /\ stage' = [stage EXCEPT ![l] = "registered"]
    /\ UNCHANGED <<allowed, imitations, launchByMint, metadata, imageRetryAt, served, requests, failures>>

Serve ==
    /\ ~served /\ served' = TRUE
    /\ UNCHANGED <<stage, allowed, imitations, launchByMint, metadata, imageRetryAt, requests, failures>>

Tick ==
    /\ \E mint \in Mints : imageRetryAt[mint] > 0
    /\ imageRetryAt' = [mint \in Mints |-> IF imageRetryAt[mint] > 0 THEN imageRetryAt[mint] - 1 ELSE imageRetryAt[mint]]
    /\ UNCHANGED <<stage, allowed, imitations, launchByMint, metadata, served, requests, failures>>

-----------------------------------------------------------------------------
(* One request.                                                            *)

chainVars == <<stage, allowed, imitations, served>>

Goes(r, request) == requests' = [requests EXCEPT ![r] = request]
Replies(r, request, answer, summaries) ==
    Goes(r, [request EXCEPT !.pc = "answered", !.mints = {}, !.docs = {}, !.answer = answer,
                            !.candidates = summaries])
Answers(r, answer) == Replies(r, requests[r], answer, {})

Begin(r) ==
    /\ requests[r].pc \in {"idle", "answered"}
    /\ Goes(r, [Idle EXCEPT !.pc = "find", !.present = {l \in allowed : HasPool(l)}])
    /\ UNCHANGED <<chainVars, launchByMint, metadata, imageRetryAt, failures>>

\* The mints whose metadata account is asked for.
Unread(mints) == {mint \in mints : metadata[mint] = "unread"}

\* Every request ends in an error when a request of its own to the RPC node does, the one
\* for the metadata accounts among them; a list does not when one launch cannot be read.
ReadFails(r) ==
    /\ \/ requests[r].pc \in {"find", "pools"}
       \/ requests[r].pc = "fetch" /\ r = "page"
       \/ requests[r].pc = "metadata"
    /\ failures < MaxFailures /\ failures' = failures + 1
    /\ Answers(r, "error")
    /\ UNCHANGED <<chainVars, launchByMint, metadata, imageRetryAt>>

\* Mutant: every listed launch is remembered.
RememberAll(found) ==
    [mint \in Mints |-> IF \E l \in found : BaseMint[l] = mint
                        THEN CHOOSE l \in found : BaseMint[l] = mint ELSE launchByMint[mint]]
\* The list remembers the launches that have registered their mint's pool.
Remember(found) ==
    [mint \in Mints |-> IF \E l \in found : BaseMint[l] = mint /\ stage[l] = "registered"
                        THEN CHOOSE l \in found : BaseMint[l] = mint /\ stage[l] = "registered"
                        ELSE launchByMint[mint]]

ListLaunches(r) ==
    /\ r = "list" /\ requests[r].pc = "find"
    /\ LET found == {l \in allowed : Exists(l)}
       IN  /\ launchByMint' = Remember(found)
           /\ Goes(r, [requests[r] EXCEPT !.pc = "fetch", !.candidates = found])
    /\ UNCHANGED <<chainVars, metadata, imageRetryAt, failures>>

\* The launch of the page's mint is remembered, or it is the one among the accounts
\* committing the mint that is registered, or the pools are asked for.
ResolveLaunch(r) ==
    LET candidates == {l \in Launches : BaseMint[l] = "mint" /\ Exists(l)}
        registered == {l \in candidates : stage[l] = "registered"}
        Found(l) == Goes(r, [requests[r] EXCEPT !.pc = "fetch", !.candidates = {l}])
    IN
    /\ r = "page" /\ requests[r].pc = "find"
    /\ IF launchByMint["mint"] # None THEN Found(launchByMint["mint"]) /\ UNCHANGED launchByMint
       ELSE IF candidates = {} THEN Answers(r, "not found") /\ UNCHANGED launchByMint
       ELSE IF registered = {}
       THEN Goes(r, [requests[r] EXCEPT !.pc = "pools", !.candidates = candidates]) /\ UNCHANGED launchByMint
       ELSE \E l \in registered : Found(l) /\ launchByMint' = [launchByMint EXCEPT !["mint"] = l]
    /\ UNCHANGED <<chainVars, metadata, imageRetryAt, failures>>

\* With no pool to be found, a single match will do, and several are ambiguous.
Match(candidates, canonical) ==
    IF canonical # {} THEN canonical ELSE IF Cardinality(candidates) = 1 THEN candidates ELSE {}

\* Mutant: whatever was resolved is remembered.
OwnsPoolAny(l) == TRUE
OwnsPool(l) == HasPool(l)

ResolveByPools(r) ==
    LET candidates == requests[r].candidates
        match == Match(candidates, {l \in candidates : HasPool(l)})
    IN
    /\ requests[r].pc = "pools"
    /\ IF Cardinality(match) # 1
       THEN Answers(r, "ambiguous") /\ UNCHANGED launchByMint
       ELSE \E l \in match :
               /\ Goes(r, [requests[r] EXCEPT !.pc = "fetch", !.candidates = match])
               /\ launchByMint' = IF OwnsPool(l) THEN [launchByMint EXCEPT !["mint"] = l] ELSE launchByMint
    /\ UNCHANGED <<chainVars, metadata, imageRetryAt, failures>>

(***************************************************************************)
(* Metadata and images.  The uri of "plain" is an image, that of "mint" a  *)
(* JSON document on a gateway that may be slow to serve it.                *)
(***************************************************************************)

Documents == {"mint"}
Due(mints) == {mint \in mints : imageRetryAt[mint] = 0}

\* Without its metadata a launch goes by "Launch" and the first letters of its mint.
IsImpersonation(l, named) == BaseMint[l] \in named \cap imitations

\* Brand imitations have a page, which warns, and are in no list (isListable).
Summarize(r, request, named) ==
    LET summaries == IF r = "list" THEN {l \in request.candidates : ~IsImpersonation(l, named)}
                     ELSE request.candidates
    IN  Replies(r, request, IF r = "list" \/ summaries # {} THEN "shown" ELSE "not found", summaries)

\* With every mint cached no account is asked for.
AsksMetadata(r, request) ==
    IF Unread(request.mints) # {} THEN Goes(r, [request EXCEPT !.pc = "metadata", !.docs = {}])
    ELSE Summarize(r, request, Mints \ Unread(Mints))

\* loadMetadata begins with the documents that are due; the next retry is pushed out
\* before they are read.
RetryImages(r, request) ==
    LET due == Due(request.mints) IN
    /\ imageRetryAt' = [mint \in Mints |-> IF mint \in due THEN ImageRetry ELSE imageRetryAt[mint]]
    /\ IF due # {} THEN Goes(r, [request EXCEPT !.pc = "retry", !.docs = due])
       ELSE AsksMetadata(r, request)

\* The metadata account of a mint appears with its pool.
LoadMetadata(r) ==
    LET request == requests[r]
        found == {mint \in Unread(request.mints) : Owners(mint) # {}}
    IN
    /\ request.pc = "metadata"
    /\ IF found # {} THEN Goes(r, [request EXCEPT !.pc = "documents", !.docs = found])
       ELSE Summarize(r, request, Mints \ Unread(Mints))
    /\ UNCHANGED <<chainVars, launchByMint, metadata, imageRetryAt, failures>>

\* What has no pool yet, or a quote mint outside the allowlist, has no summary.
Summarized(read) == {l \in read : HasPool(l) /\ l \in allowed}

\* Mutant: one launch that cannot be read fails the whole list.
SettledAll(read, failed) == failed = {}
\* One broken launch must not hide the others.
Settled(read, failed) == read # {} \/ failed = {}

FetchLaunchStates(r) ==
    LET request == requests[r] IN
    /\ request.pc = "fetch"
    /\ \E failed \in SUBSET request.candidates :
          LET read == request.candidates \ failed IN
          /\ failed # {} => r = "list" /\ failures < MaxFailures
          /\ failures' = IF failed = {} THEN failures ELSE failures + 1
          /\ IF Settled(read, failed)
             THEN RetryImages(r, [request EXCEPT !.failed = failed, !.candidates = Summarized(read),
                                                 !.mints = {BaseMint[l] : l \in read}])
             ELSE /\ Replies(r, [request EXCEPT !.failed = failed], "none read", {})
                  /\ UNCHANGED imageRetryAt
    /\ UNCHANGED <<chainVars, launchByMint, metadata>>

\* Mutant: a document that could not be read is not read again.
RetryAtNever(mint, image) == -1
RetryAt(mint, image) == IF image = "blank" /\ mint \in Documents THEN ImageRetry ELSE -1

ReadDocuments(r) ==
    LET request == requests[r]
        Images(mint) == IF mint \in Documents /\ ~served THEN {"blank"}
                        ELSE IF mint \in Documents /\ failures < MaxFailures THEN {"image", "blank"} ELSE {"image"}
    IN
    /\ request.pc \in {"retry", "documents"}
    /\ \E read \in [Mints -> {"image", "blank"}] :
          /\ \A mint \in request.docs : read[mint] \in Images(mint)
          /\ \A mint \in Mints \ request.docs : read[mint] = "blank"
          /\ metadata' = [mint \in Mints |-> IF mint \in request.docs THEN read[mint] ELSE metadata[mint]]
          /\ imageRetryAt' = [mint \in Mints |->
                IF mint \in request.docs THEN RetryAt(mint, read[mint]) ELSE imageRetryAt[mint]]
          /\ failures' = IF served /\ \E mint \in request.docs : read[mint] = "blank" THEN failures + 1 ELSE failures
    /\ IF request.pc = "retry" THEN AsksMetadata(r, request)
       ELSE Summarize(r, request, (Mints \ Unread(Mints)) \cup request.docs)
    /\ UNCHANGED <<chainVars, launchByMint>>

Step(r) ==
    \/ ReadFails(r) \/ ListLaunches(r) \/ ResolveLaunch(r) \/ ResolveByPools(r) \/ FetchLaunchStates(r)
    \/ LoadMetadata(r) \/ ReadDocuments(r)

Next ==
    \/ \E l \in Launches : Advance(l)
    \/ Serve \/ Tick
    \/ \E r \in Requests : Begin(r) \/ Step(r)

\* Requests end, time passes, pages poll.
Progress == WF_vars(Tick) /\ \A r \in Requests : WF_vars(Step(r))
Fairness == Progress /\ \A r \in Requests : WF_vars(Begin(r))

Spec == Init /\ [][Next]_vars /\ Fairness

-----------------------------------------------------------------------------

\* Types of the caches and the requests.
TypeOK ==
    /\ launchByMint \in [Mints -> Launches \cup {None}]
    /\ metadata \in [Mints -> {"unread", "blank", "image"}]
    /\ imageRetryAt \in [Mints -> -1..ImageRetry]
    /\ \A r \in Requests :
          requests[r].pc \in {"idle", "find", "pools", "fetch", "retry", "metadata", "documents", "answered"}

Answered(r, answer) == requests[r].pc = "answered" /\ requests[r].answer = answer

\* "At most one launch can be canonical" (launchState.ts:126), and only that one is cached:
\* the page of a mint is never given to an account that merely commits the mint, whatever
\* the order in which accounts appear and are read.
OnlyOwnersShown ==
    /\ \A mint \in Mints : launchByMint[mint] # None => Owners(mint) = {launchByMint[mint]}
    /\ Answered("page", "shown") => requests["page"].candidates = Owners("mint")

\* A launch that owned its mint's pool when the request began is found, however many
\* accounts commit its mint: only the allowlist, a read of the request's own that fails,
\* and in the list a name that imitates the brand or its own failed read, keep it back.
OwnerFound ==
    LET page == requests["page"]
        list == requests["list"]
    IN
    /\ page.pc = "answered" /\ "real" \in page.present => page.answer \in {"shown", "error"}
    /\ Answered("list", "shown") =>
          {l \in list.present \ list.failed : BaseMint[l] \notin imitations} \subseteq list.candidates
    /\ Answered("list", "none read") => list.present \subseteq list.failed

\* Imitations of the brand "are left out of every list" (impersonation.ts:8), although their
\* name is known only once their metadata account, which comes with the pool, was read, and
\* that read may fail or have been made by another request.
ImitationsUnlisted ==
    Answered("list", "shown") => \A l \in requests["list"].candidates : BaseMint[l] \notin imitations

\* A token whose document was not served in time gets its image later, although two
\* requests may read the document at once and the slower one may fail.  (metadata.ts and
\* IMAGE_RETRY_MS, data/chain.ts:47-52)
ImageComes == metadata["mint"] = "blank" /\ served ~> metadata["mint"] = "image"

=============================================================================
