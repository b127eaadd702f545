------------------------- MODULE PoolHistory_proofs -------------------------
(***************************************************************************)
(* What holds of every chart history, whatever the limits of the service   *)
(* and however many transactions the chain holds.                          *)
(***************************************************************************)
EXTENDS PoolHistory, FiniteSetTheorems, TLAPS

-----------------------------------------------------------------------------
(* The newest members of a finite set of transactions.                      *)

LEMMA TxsFinite ==
  ASSUME NEW S \in SUBSET Txs
  PROVE  IsFiniteSet(S) /\ S \in SUBSET Nat /\ Cardinality(S) \in Nat
<1>1. MaxTxs \in Nat
  BY HistoryAssumption
<1>2. IsFiniteSet(Txs) /\ Txs \subseteq Nat
  BY <1>1, FS_Interval DEF Txs
<1> QED BY <1>2, FS_Subset, FS_CardinalityType

LEMMA NewerFewer ==
  ASSUME NEW S \in SUBSET Txs, NEW i \in S
  PROVE  /\ Cardinality({j \in S : j > i}) \in Nat
         /\ Cardinality({j \in S : j > i}) < Cardinality(S)
         /\ \A k \in S : k < i =>
              Cardinality({j \in S : j > i}) < Cardinality({j \in S : j > k})
<1>1. S \in SUBSET Nat /\ IsFiniteSet(S)
  BY TxsFinite
<1>2. ASSUME NEW T \in SUBSET S, {j \in S : j > i} \subseteq T, i \in T
      PROVE  /\ Cardinality({j \in S : j > i}) \in Nat
             /\ Cardinality({j \in S : j > i}) < Cardinality(T)
  <2> DEFINE U == {j \in S : j > i}
  <2>1. IsFiniteSet(T) /\ IsFiniteSet(U) /\ U \in SUBSET T
    BY <1>1, <1>2, FS_Subset
  <2>2. i \notin U
    BY <1>1
  <2>3. Cardinality(U) <= Cardinality(T) /\ Cardinality(U) # Cardinality(T)
    BY <1>2, <2>1, <2>2, FS_Subset
  <2>4. Cardinality(U) \in Nat /\ Cardinality(T) \in Nat
    BY <2>1, FS_CardinalityType
  <2> QED BY <2>3, <2>4
<1>3. ASSUME NEW k \in S, k < i
      PROVE  Cardinality({j \in S : j > i}) < Cardinality({j \in S : j > k})
  <2>1. {j \in S : j > k} \in SUBSET S /\ i \in {j \in S : j > k}
    BY <1>3
  <2>2. \A j \in S : j > i => j > k
    <3>1. \A j \in S : j \in Nat
      BY <1>1
    <3> QED BY <3>1, <1>3
  <2> QED BY <1>2, <2>1, <2>2
<1>4. /\ Cardinality({j \in S : j > i}) \in Nat
      /\ Cardinality({j \in S : j > i}) < Cardinality(S)
  BY <1>2
<1> QED BY <1>3, <1>4

\* Nothing is cut from a set within the limit.
LEMMA NewestWhole ==
  ASSUME NEW S \in SUBSET Txs, NEW k \in Nat, Cardinality(S) <= k
  PROVE  Newest(S, k) = S
<1>1. \A i \in S : Cardinality({j \in S : j > i}) < k
  <2> TAKE i \in S
  <2>1. /\ Cardinality({j \in S : j > i}) \in Nat
        /\ Cardinality({j \in S : j > i}) < Cardinality(S)
    BY NewerFewer
  <2> QED BY <2>1, TxsFinite
<1> QED BY <1>1 DEF Newest

LEMMA NewestBounded ==
  ASSUME NEW S \in SUBSET Txs, NEW k \in Nat
  PROVE  /\ Newest(S, k) \subseteq S
         /\ Cardinality(Newest(S, k)) <= k
<1> DEFINE N == Newest(S, k)
           newer(i) == Cardinality({j \in S : j > i})
           f == [i \in N |-> newer(i)]
<1>1. N \subseteq S
  BY DEF Newest
<1>2. \A i \in N : newer(i) \in 0..(k - 1)
  BY <1>1, NewerFewer DEF Newest
<1>3. \A i, j \in N : i # j => newer(i) # newer(j)
  <2> TAKE i, j \in N
  <2>1. i \in Nat /\ j \in Nat
    BY <1>1, TxsFinite
  <2>2. i < j => newer(j) < newer(i)
    BY <1>1, NewerFewer
  <2>3. j < i => newer(i) < newer(j)
    BY <1>1, NewerFewer
  <2>4. newer(i) \in Nat /\ newer(j) \in Nat
    BY <1>2
  <2> HIDE DEF newer
  <2> QED BY <2>1, <2>2, <2>3, <2>4
<1>4. f \in Injection(N, 0..(k - 1))
  <2>1. f \in [N -> 0..(k - 1)]
    BY <1>2
  <2>2. \A i, j \in N : f[i] = f[j] => i = j
    BY <1>3
  <2> HIDE DEF f
  <2> QED BY <2>1, <2>2 DEF Injection, IsInjective
<1>5. IsFiniteSet(0..(k - 1)) /\ Cardinality(0..(k - 1)) = k
  <2>1. k - 1 \in Int
    OBVIOUS
  <2>2. /\ IsFiniteSet(0..(k - 1))
        /\ Cardinality(0..(k - 1)) = IF 0 > k - 1 THEN 0 ELSE (k - 1) - 0 + 1
    BY <2>1, FS_Interval
  <2> QED BY <2>2
<1> HIDE DEF N, f
<1>6. Cardinality(N) <= k
  BY <1>4, <1>5, FS_Injection
<1> QED BY <1>1, <1>6 DEF N

\* A set of transactions that is not empty has a newest one.
LEMMA HasNewest ==
  ASSUME NEW S \in SUBSET Txs, S # {}
  PROVE  \E i \in S : \A j \in S : j <= i
<1> DEFINE above(i) == {j \in S : j > i}
           Aboves == {above(i) : i \in S}
<1>1. S \in SUBSET Nat /\ IsFiniteSet(S)
  BY TxsFinite
<1>2. Aboves \subseteq FiniteSubsetsOf(S) /\ Aboves # {}
  <2>1. \A i \in S : above(i) \in SUBSET S
    OBVIOUS
  <2>2. \A T \in SUBSET S : IsFiniteSet(T)
    BY <1>1, FS_Subset
  <2> QED BY <2>1, <2>2 DEF FiniteSubsetsOf
<1>3. PICK U \in Aboves : \A V \in Aboves : ~(<<V, U>> \in StrictSubsetOrdering(S))
  <2> HIDE DEF Aboves
  <2> QED BY <1>2, FS_StrictSubsetOrderingWellFounded, WFMin
<1>4. PICK i \in S : U = above(i)
  OBVIOUS
<1>5. ASSUME NEW j \in S, ~(j <= i)
      PROVE  FALSE
  <2>1. j > i
    BY <1>1, <1>5
  <2>2. above(j) \in Aboves /\ above(j) \subseteq U /\ j \in U /\ j \notin above(j)
    <3>1. \A n \in S : n \in Nat
      BY <1>1
    <3>2. /\ \A n \in S : n > j => n > i
          /\ ~(j > j)
      BY <2>1, <3>1
    <3> QED BY <1>4, <2>1, <3>2
  <2>3. <<above(j), U>> \in StrictSubsetOrdering(S)
    <3>1. above(j) \in SUBSET S /\ U \in SUBSET S /\ above(j) # U
      BY <1>4, <2>2
    <3> HIDE DEF above, Aboves
    <3> QED BY <2>2, <3>1 DEF StrictSubsetOrdering
  <2> QED BY <1>3, <2>2, <2>3
<1> QED BY <1>5

-----------------------------------------------------------------------------
(* One refresh.                                                             *)

LEMMA ConstantsTyped ==
  /\ MaxSignatures \in Nat /\ MaxSignatures > 0
  /\ MaxTxPerRefresh \in Nat
  /\ MaxEvents \in Nat
  /\ MaxAttempts \in Nat /\ MaxAttempts > 0
  /\ MaxTxs \in Nat /\ MaxEvictions \in Nat
BY HistoryAssumption

LEMMA ChainTyped ==
  ASSUME TypeOK
  PROVE  /\ Len(chain) \in 0..MaxTxs
         /\ DOMAIN chain = 1..Len(chain) /\ DOMAIN chain \subseteq Txs
         /\ \A i \in DOMAIN chain : chain[i] \in Kinds
BY ConstantsTyped DEF TypeOK, Txs

\* A transaction with a swap shows in the listing of the swap's pool, and is
\* fetched.
LEMMA SwapsListed ==
  ASSUME NEW kind \in Kinds, NEW pool \in Pools, VenueOf(kind) = pool
  PROVE  pool \in Touched[kind] /\ kind \notin Failed
BY DEF Kinds, Pools, VenueOf, Touched, Failed

LEMMA OwnSwaps ==
  ASSUME TypeOK, NEW pool \in Pools, NEW i \in SwapsOn(pool)
  PROVE  i \in Touches(pool) /\ chain[i] \notin Failed
BY ChainTyped, SwapsListed DEF SwapsOn, Touches

\* A history that accounts for the chain listed so far.
Tracked(h, pool) ==
  /\ h \in History
  /\ WithinLimits(h)
  /\ h.newestSig <= Len(chain)
  /\ Accounted(h, pool)

\* ... and which has listed all of it.
UpToDate(h, pool) ==
  /\ Tracked(h, pool)
  /\ \A i \in Touches(pool) : i <= h.newestSig

LEMMA NewestSigCorrect ==
  ASSUME TypeOK, NEW pool \in Pools, NEW h \in History, h.newestSig <= Len(chain)
  PROVE  /\ NewestSig(h, pool) \in 0..Len(chain)
         /\ NewestSig(h, pool) >= h.newestSig
         /\ \A i \in Touches(pool) : i <= NewestSig(h, pool)
<1> DEFINE L == Listable(h, pool)
<1>1. /\ L \in SUBSET Txs /\ L \subseteq 1..Len(chain)
      /\ Touches(pool) \subseteq Nat
      /\ \A i \in Touches(pool) : i \in L \/ i <= h.newestSig
      /\ \A i \in L : i > h.newestSig
  <2>1. Touches(pool) \subseteq 1..Len(chain) /\ Touches(pool) \subseteq Txs
    BY ChainTyped DEF Touches
  <2>2. h.newestSig \in Nat /\ Len(chain) \in Nat
    BY ChainTyped DEF History
  <2> QED BY <2>1, <2>2 DEF Listable
<1>2. h.newestSig \in Nat /\ Len(chain) \in Nat
  BY ChainTyped DEF History
<1>3. CASE L = {}
  BY <1>1, <1>2, <1>3 DEF NewestSig
<1>4. CASE L # {}
  <2>1. NewestSig(h, pool) = CHOOSE i \in L : \A j \in L : j <= i
    BY <1>4 DEF NewestSig
  <2>2. \E i \in L : \A j \in L : j <= i
    BY <1>1, <1>4, HasNewest
  <2> HIDE DEF L
  <2>3. NewestSig(h, pool) \in L /\ \A j \in L : j <= NewestSig(h, pool)
    BY <2>1, <2>2
  <2>4. NewestSig(h, pool) \in 1..Len(chain) /\ NewestSig(h, pool) > h.newestSig
    <3>1. L \subseteq 1..Len(chain) /\ \A i \in L : i > h.newestSig
      BY <1>1
    <3> QED BY <2>3, <3>1
  <2> QED BY <1>1, <1>2, <2>3, <2>4
<1> QED BY <1>3, <1>4

\* Listing accounts for everything there is, or says that it did not.
LEMMA ListedTracked ==
  ASSUME TypeOK, NEW pool \in Pools, NEW h, Tracked(h, pool)
  PROVE  /\ UpToDate(Listed(h, pool), pool)
         /\ Listed(h, pool).final = h.final
<1> DEFINE l == Listed(h, pool)
           L == Listable(h, pool)
           B == Backlog(h, pool)
           P == Pending(h, pool)
<1>1. /\ h \in History /\ WithinLimits(h)
      /\ h.newestSig <= Len(chain) /\ Accounted(h, pool)
  BY DEF Tracked
<1>2. /\ L \in SUBSET Txs
      /\ \A i \in L : i > h.newestSig /\ i <= NewestSig(h, pool)
      /\ \A i \in Touches(pool) : i \in L \/ i <= h.newestSig
  <2>1. Touches(pool) \subseteq Txs /\ Txs \subseteq Nat
    BY ChainTyped DEF Touches, Txs
  <2>2. h.newestSig \in Nat
    BY <1>1 DEF History
  <2>3. \A i \in Touches(pool) : i <= NewestSig(h, pool)
    BY <1>1, NewestSigCorrect
  <2>4. \A i \in Touches(pool) : i \in Nat
    BY <2>1
  <2>5. \A i \in Touches(pool) : i > h.newestSig \/ i <= h.newestSig
    BY <2>2, <2>4
  <2>6. L = {i \in Touches(pool) : i > h.newestSig}
    BY DEF Listable
  <2> HIDE DEF L
  <2> QED BY <2>1, <2>3, <2>5, <2>6
<1>3. /\ Newest(L, MaxSignatures) \subseteq L
      /\ Cardinality(L) <= MaxSignatures => Newest(L, MaxSignatures) = L
  BY <1>2, ConstantsTyped, NewestBounded, NewestWhole
<1>4. /\ B \in SUBSET Txs
      /\ \A i \in B : i \in h.pending \/ i \in L
  <2>1. h.pending \subseteq Txs
    BY <1>1 DEF History
  <2> QED BY <1>2, <1>3, <2>1 DEF Backlog
<1>5. /\ P \subseteq B /\ Cardinality(P) <= MaxSignatures
      /\ Cardinality(B) <= MaxSignatures => P = B
  BY <1>4, ConstantsTyped, NewestBounded, NewestWhole DEF Pending
<1>6. /\ l \in History
      /\ l.events = h.events /\ l.pending = P /\ l.newestSig = NewestSig(h, pool)
      /\ l.capped = (h.capped \/ ListingCut(h, pool)) /\ l.final = h.final
      /\ l.attempts = [i \in Txs |-> IF i \in P THEN h.attempts[i] ELSE 0]
  <2>1. [i \in Txs |-> IF i \in P THEN h.attempts[i] ELSE 0] \in [Txs -> 0..(MaxAttempts - 1)]
    BY <1>1, ConstantsTyped DEF History
  <2>2. NewestSig(h, pool) \in 0..MaxTxs
    <3>1. NewestSig(h, pool) \in 0..Len(chain) /\ Len(chain) \in 0..MaxTxs
      BY <1>1, NewestSigCorrect, ChainTyped
    <3> QED BY <3>1, ConstantsTyped
  <2>3. P \in SUBSET Txs
    BY <1>4, <1>5
  <2>4. (h.capped \/ ListingCut(h, pool)) \in BOOLEAN
    BY <1>1 DEF History, ListingCut
  <2> HIDE DEF P
  <2> QED BY <1>1, <2>1, <2>2, <2>3, <2>4 DEF Listed, History, P
<1> HIDE DEF l, L, B, P
<1>7. WithinLimits(l)
  BY <1>1, <1>5, <1>6 DEF WithinLimits
<1>8. Accounted(l, pool)
  <2>1. /\ l.pending \cap l.events = {}
        /\ \A i \in l.pending \cup l.events : i <= l.newestSig
    <3>1. NewestSig(h, pool) \in Nat /\ NewestSig(h, pool) >= h.newestSig /\ h.newestSig \in Nat
      BY <1>1, NewestSigCorrect DEF History
    <3>2. h.events \subseteq Nat /\ h.pending \subseteq Nat
      BY <1>1 DEF History, Txs
    <3>3. /\ \A i \in h.pending \cup h.events : i <= h.newestSig
          /\ h.pending \cap h.events = {}
      BY <1>1 DEF Accounted
    <3> QED BY <1>2, <1>4, <1>5, <1>6, <3>1, <3>2, <3>3
  <2>2. ASSUME ~l.capped, NEW i \in SwapsOn(pool)
        PROVE  i \in l.pending \cup l.events
    <3>1. ~h.capped /\ P = B /\ Newest(L, MaxSignatures) = L
      <4>1. ~h.capped /\ ~ListingCut(h, pool)
        BY <1>6, <2>2
      <4>2. /\ ~(Cardinality(L) >= MaxSignatures)
            /\ ~(Cardinality(B) > MaxSignatures)
        BY <4>1 DEF ListingCut, L, B
      <4>3. Cardinality(L) <= MaxSignatures /\ Cardinality(B) <= MaxSignatures
        BY <1>2, <1>4, <4>2, TxsFinite, ConstantsTyped
      <4> QED BY <1>3, <1>5, <4>1, <4>3
    <3>2. CASE i <= h.newestSig
      BY <1>1, <1>6, <2>2, <3>1, <3>2 DEF Accounted, Backlog, B
    <3>3. CASE i \in L
      <4>1. chain[i] \notin Failed
        BY <2>2, OwnSwaps
      <4> QED BY <1>6, <3>1, <3>3, <4>1 DEF Backlog, B, L
    <3>4. i \in Touches(pool)
      BY <2>2, OwnSwaps
    <3> QED BY <1>2, <3>2, <3>3, <3>4
  <2> QED BY <2>1, <2>2 DEF Accounted
<1>9. /\ l.newestSig <= Len(chain)
      /\ \A i \in Touches(pool) : i <= l.newestSig
  BY <1>1, <1>6, NewestSigCorrect, ChainTyped
<1> QED BY <1>6, <1>7, <1>8, <1>9 DEF UpToDate, Tracked, l

\* Fetching keeps account of what was tried, missed and given up.
LEMMA FetchedTracked ==
  ASSUME TypeOK, NEW pool \in Pools, NEW l, UpToDate(l, pool),
         NEW tried \in SUBSET l.pending, NEW misses \in SUBSET tried,
         pool = "damm" => build.dammPool
  PROVE  /\ UpToDate(Fetched(l, tried, misses), pool)
         /\ Fetched(l, tried, misses).final = l.final
<1> DEFINE f == Fetched(l, tried, misses)
           merged == l.events \cup EventsOf(tried \ misses)
           left == (l.pending \ tried) \cup (misses \ GivenUp(l, misses))
           attempts == [i \in Txs |-> IF i \in misses \cap left THEN l.attempts[i] + 1
                                      ELSE IF i \in left THEN l.attempts[i] ELSE 0]
           cut == \/ l.capped
                  \/ GivenUp(l, misses) # {}
                  \/ Cardinality(merged) > MaxEvents
<1>1. /\ l \in History /\ WithinLimits(l)
      /\ l.newestSig <= Len(chain) /\ Accounted(l, pool)
      /\ \A i \in Touches(pool) : i <= l.newestSig
  BY DEF UpToDate, Tracked
<1>2. /\ l.events \in SUBSET Txs /\ l.pending \in SUBSET Txs
      /\ l.capped \in BOOLEAN
      /\ l.attempts \in [Txs -> 0..(MaxAttempts - 1)]
  BY <1>1 DEF History
<1>3. /\ merged \in SUBSET Txs /\ left \in SUBSET l.pending
      /\ merged \cap left = {}
      /\ merged \subseteq l.events \cup l.pending
  BY <1>1, <1>2 DEF EventsOf, Accounted
<1>4. attempts \in [Txs -> 0..(MaxAttempts - 1)]
  <2>1. \A i \in misses \cap left : l.attempts[i] + 1 < MaxAttempts
    <3> TAKE i \in misses \cap left
    <3>1. i \in misses /\ i \notin GivenUp(l, misses)
      OBVIOUS
    <3>2. ~(l.attempts[i] + 1 >= MaxAttempts)
      BY <3>1 DEF GivenUp
    <3>3. l.attempts[i] \in Nat
      BY <1>2, <3>1
    <3> QED BY <3>2, <3>3, ConstantsTyped
  <2>2. \A i \in Txs : l.attempts[i] \in 0..(MaxAttempts - 1)
    BY <1>2
  <2> HIDE DEF left
  <2> QED BY <2>1, <2>2, ConstantsTyped
<1>5. /\ Newest(merged, MaxEvents) \subseteq merged
      /\ Cardinality(Newest(merged, MaxEvents)) <= MaxEvents
      /\ Cardinality(merged) <= MaxEvents => Newest(merged, MaxEvents) = merged
  <2> HIDE DEF merged
  <2> QED BY <1>3, ConstantsTyped, NewestBounded, NewestWhole
<1>6. /\ f \in History
      /\ f.events = Newest(merged, MaxEvents) /\ f.pending = left
      /\ f.newestSig = l.newestSig /\ f.capped = cut /\ f.final = l.final
      /\ f.attempts = attempts
  <2>1. f = [l EXCEPT !.events = Newest(merged, MaxEvents), !.pending = left,
                      !.attempts = attempts, !.capped = cut]
    BY DEF Fetched
  <2>2. cut \in BOOLEAN
    BY <1>2
  <2>3. Newest(merged, MaxEvents) \in SUBSET Txs /\ left \in SUBSET Txs
    BY <1>2, <1>3, <1>5
  <2> HIDE DEF f, merged, left, attempts, cut
  <2> QED BY <1>1, <1>4, <2>1, <2>2, <2>3 DEF History
<1>7. WithinLimits(f)
  <2>1. Cardinality(left) <= MaxSignatures
    <3>1. IsFiniteSet(l.pending) /\ Cardinality(l.pending) <= MaxSignatures
      BY <1>1, <1>2, TxsFinite DEF WithinLimits
    <3>2. Cardinality(left) <= Cardinality(l.pending)
      <4> HIDE DEF left
      <4> QED BY <1>3, <3>1, FS_Subset
    <3>3. left \in SUBSET Txs
      BY <1>2, <1>3
    <3>4. Cardinality(left) \in Nat /\ Cardinality(l.pending) \in Nat
      <4> HIDE DEF left
      <4> QED BY <1>2, <3>3, TxsFinite
    <3> QED BY <3>1, <3>2, <3>4, ConstantsTyped
  <2>2. \A i \in Txs \ left : attempts[i] = 0
    <3> HIDE DEF left
    <3> QED OBVIOUS
  <2> HIDE DEF f, left, attempts, merged
  <2> QED BY <1>5, <1>6, <2>1, <2>2 DEF WithinLimits
<1>8. Accounted(f, pool)
  <2>1. /\ f.pending \cap f.events = {}
        /\ \A i \in f.pending \cup f.events : i <= f.newestSig
    <3>1. \A i \in l.pending \cup l.events : i <= l.newestSig
      BY <1>1 DEF Accounted
    <3> HIDE DEF f, left, merged
    <3> QED BY <1>3, <1>5, <1>6, <3>1
  <2>2. ASSUME ~f.capped, NEW i \in SwapsOn(pool), i <= f.newestSig
        PROVE  i \in f.pending \cup f.events
    <3>1. /\ ~l.capped /\ GivenUp(l, misses) = {}
          /\ ~(Cardinality(merged) > MaxEvents)
      BY <1>6, <2>2
    <3>2. f.events = merged
      <4>1. Cardinality(merged) <= MaxEvents
        <5>1. Cardinality(merged) \in Nat
          <6> HIDE DEF merged
          <6> QED BY <1>3, TxsFinite
        <5> HIDE DEF merged
        <5> QED BY <3>1, <5>1, ConstantsTyped
      <4> QED BY <1>5, <1>6, <4>1
    <3>3. i \in l.pending \cup l.events
      BY <1>1, <1>6, <2>2, <3>1 DEF Accounted
    <3>4. f.pending = (l.pending \ tried) \cup misses
      BY <1>6, <3>1
    <3> HIDE DEF f
    <3>5. i \in Swaps /\ (i \in SwapsOn("damm") => build.dammPool)
      BY <2>2 DEF Swaps, SwapsOn
    <3> QED BY <3>2, <3>3, <3>4, <3>5 DEF EventsOf
  <2> QED BY <2>1, <2>2 DEF Accounted
<1> QED
  <2> HIDE DEF f
  <2>1. UpToDate(f, pool) /\ f.final = l.final
    BY <1>1, <1>6, <1>7, <1>8 DEF UpToDate, Tracked
  <2> QED BY <2>1 DEF f

-----------------------------------------------------------------------------
(* The inductive invariant.  FullChartIsFull alone is not inductive: the     *)
(* answer joins a history read now with one kept from an earlier step, so    *)
(* the build in progress must carry what its parts account for.              *)

\* There is no trade on the DAMM pool before the migration.
ChainOK == \A i \in DOMAIN chain : VenueOf(chain[i]) = "damm" => Migrated

HistoriesOK == \A pool \in Pools : Tracked(histories[pool], pool)

FinalOK ==
  /\ histories["dbc"].final => Migrated
  /\ FinalIsComplete

\* h accounts for every trade of a venue among the first n transactions.
Shown(h, venue, n) ==
  ~h.capped =>
    \A i \in DOMAIN chain :
      i <= n /\ VenueOf(chain[i]) = venue => i \in h.pending \cup h.events

NoDammTrade(n) == \A i \in DOMAIN chain : i <= n => VenueOf(chain[i]) # "damm"

BuildOK ==
  /\ build.asOf <= Len(chain)
  /\ build.dammPool => Migrated
  /\ build.pc = "dbc" /\ ~build.dammPool => NoDammTrade(build.asOf)
  /\ build.pc = "damm" => build.dammPool /\ Shown(build.dbc, "dbc", build.asOf)

CacheOK ==
  /\ cache.asOf <= Len(chain)
  /\ FullChartIsFull

IInv == TypeOK /\ ChainOK /\ HistoriesOK /\ FinalOK /\ BuildOK /\ CacheOK

LEMMA UpToDateShows ==
  ASSUME TypeOK, NEW pool \in Pools, NEW h, UpToDate(h, pool), NEW n
  PROVE  Shown(h, pool, n)
<1> SUFFICES ASSUME ~h.capped, NEW i \in DOMAIN chain, VenueOf(chain[i]) = pool
             PROVE  i \in h.pending \cup h.events
  BY DEF Shown
<1>1. i \in SwapsOn(pool)
  BY DEF SwapsOn
<1>2. i \in Touches(pool)
  BY <1>1, OwnSwaps
<1> QED BY <1>1, <1>2 DEF UpToDate, Tracked, Accounted

\* An answer made of two complete histories shows what both account for.
LEMMA BodyFull ==
  ASSUME TypeOK, NEW dbc \in History, NEW damm \in History,
         Shown(dbc, "dbc", build.asOf), Shown(damm, "damm", build.asOf),
         ~Body(dbc, damm).partial, NEW i \in Swaps, i <= build.asOf
  PROVE  i \in dbc.events \cup damm.events
<1>1. Complete(dbc) /\ Complete(damm)
  BY DEF Body
<1>2. VenueOf(chain[i]) \in {"dbc", "damm"} /\ i \in DOMAIN chain
  BY DEF Swaps, SwapsOn, Pools
<1> QED BY <1>1, <1>2 DEF Complete, Shown

LEMMA EmptyTyped ==
  /\ EmptyHistory \in History /\ WithinLimits(EmptyHistory)
  /\ EmptyHistory.newestSig = 0 /\ ~EmptyHistory.final
  /\ EmptyHistory.pending = {} /\ EmptyHistory.events = {}
<1>1. [i \in Txs |-> 0] \in [Txs -> 0..(MaxAttempts - 1)]
  BY ConstantsTyped
<1>2. 0 \in 0..MaxTxs
  BY ConstantsTyped
<1>3. Cardinality({}) = 0
  BY FS_EmptySet
<1>4. EmptyHistory \in History
  BY <1>1, <1>2 DEF EmptyHistory, History
<1>5. WithinLimits(EmptyHistory)
  BY <1>3, ConstantsTyped DEF EmptyHistory, WithinLimits
<1> QED BY <1>4, <1>5 DEF EmptyHistory

\* A history nothing is known of accounts for the empty part of the chain.
LEMMA EmptyTracked ==
  ASSUME TypeOK, NEW pool \in Pools
  PROVE  Tracked(EmptyHistory, pool)
<1>1. \A i \in SwapsOn(pool) : ~(i <= 0)
  BY ChainTyped DEF SwapsOn
<1>2. 0 <= Len(chain)
  BY ChainTyped
<1> QED BY <1>1, <1>2, EmptyTyped DEF Tracked, Accounted

\* What a history accounts for stays accounted for while the chain grows.
LEMMA TrackedGrows ==
  ASSUME TypeOK, TypeOK', NEW pool \in Pools, NEW h, Tracked(h, pool),
         Len(chain) <= Len(chain'),
         \A i \in 1..Len(chain) : chain'[i] = chain[i]
  PROVE  Tracked(h, pool)'
<1>1. /\ Len(chain) \in Nat /\ Len(chain') \in Nat
      /\ DOMAIN chain = 1..Len(chain) /\ DOMAIN chain' = 1..Len(chain')
  BY DEF TypeOK
<1>2. h \in History /\ WithinLimits(h) /\ h.newestSig <= Len(chain) /\ Accounted(h, pool)
  BY DEF Tracked
<1>3. h.newestSig \in Nat
  BY <1>2 DEF History
<1>4. ASSUME NEW i \in SwapsOn(pool)', i <= h.newestSig
      PROVE  i \in SwapsOn(pool)
  <2>1. i \in 1..Len(chain')
    BY <1>1 DEF Swaps, SwapsOn
  <2>2. i \in 1..Len(chain)
    BY <1>1, <1>2, <1>3, <1>4, <2>1
  <2>3. chain'[i] = chain[i]
    BY <2>2
  <2> QED BY <1>1, <1>4, <2>2, <2>3 DEF Swaps, SwapsOn, Touches
<1>5. Accounted(h, pool)'
  BY <1>2, <1>4 DEF Accounted
<1>6. h.newestSig <= Len(chain')
  BY <1>1, <1>2, <1>3
<1> QED BY <1>2, <1>5, <1>6 DEF Tracked, WithinLimits

-----------------------------------------------------------------------------
(* The steps.                                                               *)

LEMMA InitIInv == Init => IInv
<1> SUFFICES ASSUME Init PROVE IInv
  OBVIOUS
<1>1. DOMAIN chain = {} /\ Len(chain) = 0 /\ chain \in Seq(Kinds)
  BY DEF Init
<1>2. TypeOK
  <2>1. Idle \in [pc : {"idle", "launch", "dbc", "damm"}, dammPool : BOOLEAN,
                  dbc : History, asOf : 0..MaxTxs]
    BY EmptyTyped, ConstantsTyped DEF Idle
  <2>2. NoBody \in [kind : {"none", "chain", "error"}, partial : BOOLEAN,
                    dbc : SUBSET Txs, damm : SUBSET Txs, asOf : 0..MaxTxs]
    BY ConstantsTyped DEF NoBody
  <2>3. /\ histories \in [Pools -> History]
        /\ \A pool \in Pools : WithinLimits(histories[pool])
    BY EmptyTyped DEF Init
  <2>4. Len(chain) <= MaxTxs /\ evictions \in 0..MaxEvictions
    BY <1>1, ConstantsTyped DEF Init
  <2>6. missed \in BOOLEAN
    BY DEF Init
  <2>5. build = Idle /\ cache = NoBody
    BY DEF Init
  <2> QED BY <1>1, <2>1, <2>2, <2>3, <2>4, <2>5, <2>6 DEF TypeOK
<1>3. HistoriesOK
  BY <1>2, EmptyTracked DEF Init, HistoriesOK
<1>4. FinalOK
  BY EmptyTyped DEF Init, FinalOK, FinalIsComplete, Pools
<1>5. ChainOK /\ BuildOK /\ CacheOK
  BY <1>1 DEF Init, ChainOK, BuildOK, CacheOK, FullChartIsFull, Idle, NoBody
<1> QED BY <1>2, <1>3, <1>4, <1>5 DEF IInv

LEMMA LandStep ==
  ASSUME IInv, NEW kind \in Landing, Land(kind)
  PROVE  IInv'
<1>1. /\ chain \in Seq(Kinds) /\ Len(chain) < MaxTxs /\ Len(chain) \in Nat
      /\ chain' = Append(chain, kind)
      /\ UNCHANGED <<histories, build, cache, missed, evictions>>
  BY DEF IInv, TypeOK, Land
<1>2. kind \in Kinds
  BY HistoryAssumption DEF Kinds, Touched
<1>3. /\ chain' \in Seq(Kinds) /\ Len(chain') = Len(chain) + 1
      /\ DOMAIN chain = 1..Len(chain) /\ DOMAIN chain' = 1..(Len(chain) + 1)
      /\ \A i \in 1..Len(chain) : chain'[i] = chain[i]
      /\ chain'[Len(chain) + 1] = kind
  BY <1>1, <1>2
<1>4. TypeOK'
  BY <1>1, <1>3, ConstantsTyped DEF IInv, TypeOK, WithinLimits
<1>5. HistoriesOK'
  <2> SUFFICES ASSUME NEW pool \in Pools PROVE Tracked(histories[pool], pool)'
    BY DEF HistoriesOK
  <2>1. Tracked(histories[pool], pool)
    BY DEF IInv, HistoriesOK
  <2>2. Tracked(histories[pool], pool)' <=> \A h : h = histories[pool] => Tracked(h, pool)'
    BY <1>1
  <2> QED BY <1>1, <1>3, <1>4, <2>1, <2>2, TrackedGrows DEF IInv
<1>6. Migrated => Migrated'
  BY <1>1, <1>3 DEF Migrated
<1>7. ChainOK'
  <2> SUFFICES ASSUME NEW i \in DOMAIN chain', VenueOf(chain'[i]) = "damm"
               PROVE  Migrated'
    BY DEF ChainOK
  <2>1. CASE i \in 1..Len(chain)
    BY <1>3, <1>6, <2>1 DEF IInv, ChainOK
  <2>2. CASE i = Len(chain) + 1
    <3>1. kind \in {"trade", "migrateAndTrade", "harvestAndTrade"}
      BY <1>3, <2>2 DEF VenueOf
    <3>2. kind = "migrateAndTrade" => Migrated'
      BY <1>1, <1>3 DEF Migrated, Migrations
    <3> QED BY <1>6, <3>1, <3>2 DEF Land
  <2> QED BY <1>1, <1>3, <2>1, <2>2
<1>8. FinalOK'
  <2> SUFFICES ASSUME histories["dbc"].final, NEW i \in SwapsOn("dbc")',
                      ~histories["dbc"].capped
               PROVE  i \in histories["dbc"].events
    BY <1>1, <1>6 DEF IInv, FinalOK, FinalIsComplete
  <2>1. Migrated
    BY DEF IInv, FinalOK
  <2>2. i # Len(chain) + 1
    <3>1. VenueOf(kind) # "dbc"
      BY <2>1 DEF Land, VenueOf
    <3>2. VenueOf(chain'[i]) = "dbc"
      BY DEF SwapsOn
    <3> QED BY <1>3, <3>1, <3>2
  <2>3. i \in 1..Len(chain) /\ chain'[i] = chain[i]
    BY <1>1, <1>3, <2>2 DEF SwapsOn
  <2>4. i \in SwapsOn("dbc")
    BY <1>3, <2>3 DEF SwapsOn
  <2> QED BY <2>4 DEF IInv, FinalOK, FinalIsComplete
<1>9. BuildOK'
  <2>1. build.asOf \in Nat
    BY DEF IInv, TypeOK
  <2>2. \A i \in DOMAIN chain' : i <= build.asOf => i \in DOMAIN chain /\ chain'[i] = chain[i]
    BY <1>1, <1>3, <2>1 DEF IInv, BuildOK
  <2>3. build.asOf <= Len(chain')
    BY <1>1, <1>3, <2>1 DEF IInv, BuildOK
  <2> QED BY <1>1, <1>6, <2>2, <2>3 DEF IInv, BuildOK, NoDammTrade, Shown
<1>10. CacheOK'
  <2>1. cache.asOf \in Nat
    BY DEF IInv, TypeOK
  <2>2. \A i \in Swaps' : i <= cache.asOf => i \in Swaps
    BY <1>1, <1>3, <2>1 DEF IInv, CacheOK, Swaps, SwapsOn
  <2>3. cache.asOf <= Len(chain')
    BY <1>1, <1>3, <2>1 DEF IInv, CacheOK
  <2> QED BY <1>1, <2>2, <2>3 DEF IInv, CacheOK, FullChartIsFull
<1> QED BY <1>4, <1>5, <1>7, <1>8, <1>9, <1>10 DEF IInv

\* While the chain stands still, what is known of it does too.
LEMMA SameChain ==
  ASSUME UNCHANGED chain
  PROVE  /\ ChainOK' <=> ChainOK
         /\ Migrated' <=> Migrated
         /\ \A h, pool : Tracked(h, pool)' <=> Tracked(h, pool)
         /\ \A h, venue, n : Shown(h, venue, n)' <=> Shown(h, venue, n)
         /\ \A n : NoDammTrade(n)' <=> NoDammTrade(n)
BY DEF ChainOK, Migrated, Tracked, WithinLimits, Accounted, Swaps, SwapsOn, Touches, Shown,
       NoDammTrade

\* A build that has ended or not yet read the launch promises nothing.
LEMMA IdleOK ==
  /\ Idle \in [pc : {"idle", "launch", "dbc", "damm"}, dammPool : BOOLEAN,
               dbc : History, asOf : 0..MaxTxs]
  /\ Idle.pc = "idle" /\ Idle.asOf = 0 /\ Idle.dammPool = FALSE
BY EmptyTyped, ConstantsTyped DEF Idle

LEMMA BodiesTyped ==
  /\ \A body \in {NoBody, ErrorBody} :
        /\ body \in [kind : {"none", "chain", "error"}, partial : BOOLEAN,
                     dbc : SUBSET Txs, damm : SUBSET Txs, asOf : 0..MaxTxs]
        /\ body.kind # "chain" /\ body.asOf = 0
  /\ TypeOK => \A dbc, damm \in History :
        Body(dbc, damm) \in [kind : {"none", "chain", "error"}, partial : BOOLEAN,
                             dbc : SUBSET Txs, damm : SUBSET Txs, asOf : 0..MaxTxs]
<1>1. \A body \in {NoBody, ErrorBody} :
        /\ body \in [kind : {"none", "chain", "error"}, partial : BOOLEAN,
                     dbc : SUBSET Txs, damm : SUBSET Txs, asOf : 0..MaxTxs]
        /\ body.kind # "chain" /\ body.asOf = 0
  <2>1. 0 \in 0..MaxTxs /\ {} \in SUBSET Txs
    BY ConstantsTyped
  <2>2. /\ NoBody \in [kind : {"none", "chain", "error"}, partial : BOOLEAN,
                       dbc : SUBSET Txs, damm : SUBSET Txs, asOf : 0..MaxTxs]
        /\ NoBody.kind # "chain" /\ NoBody.asOf = 0
    BY <2>1 DEF NoBody
  <2>3. /\ ErrorBody \in [kind : {"none", "chain", "error"}, partial : BOOLEAN,
                          dbc : SUBSET Txs, damm : SUBSET Txs, asOf : 0..MaxTxs]
        /\ ErrorBody.kind # "chain" /\ ErrorBody.asOf = 0
    BY <2>1 DEF ErrorBody
  <2> QED BY <2>2, <2>3
<1>2. ASSUME TypeOK, NEW dbc \in History, NEW damm \in History
      PROVE  Body(dbc, damm) \in [kind : {"none", "chain", "error"}, partial : BOOLEAN,
                                  dbc : SUBSET Txs, damm : SUBSET Txs, asOf : 0..MaxTxs]
  BY <1>2 DEF TypeOK, Body, Complete, History
<1> QED BY <1>1, <1>2

\* Steps that touch neither chain nor histories, and answer nothing from the chain.
LEMMA QuietStep ==
  ASSUME IInv, UNCHANGED <<chain, histories, evictions>>,
         cache' \in {cache, NoBody, ErrorBody},
         \/ build' \in {build, Idle}
         \/ build.pc = "idle" /\ build' = [build EXCEPT !.pc = "launch"],
         missed' \in BOOLEAN
  PROVE  IInv'
<1>1. Len(chain) \in Nat /\ Len(chain') = Len(chain)
  BY ChainTyped DEF IInv
<1>2. build' \in [pc : {"idle", "launch", "dbc", "damm"}, dammPool : BOOLEAN,
                  dbc : History, asOf : 0..MaxTxs]
  BY IdleOK DEF IInv, TypeOK
<1>3. TypeOK'
  BY <1>2, BodiesTyped DEF IInv, TypeOK, WithinLimits
<1>4. BuildOK'
  <2>1. /\ build'.asOf <= Len(chain)
        /\ build'.dammPool => Migrated
        /\ build'.pc \in {"dbc", "damm"} => build' = build
    BY <1>1, IdleOK DEF IInv, TypeOK, BuildOK
  <2> QED BY <1>1, <2>1, SameChain DEF IInv, BuildOK
<1>5. CacheOK'
  <2>1. cache'.asOf <= Len(chain) /\ (cache'.kind = "chain" => cache' = cache)
    BY <1>1, BodiesTyped DEF IInv, CacheOK
  <2> QED BY <1>1, <2>1 DEF IInv, CacheOK, FullChartIsFull, Swaps, SwapsOn
<1>6. ChainOK' /\ HistoriesOK'
  BY SameChain DEF IInv, HistoriesOK
<1>7. FinalOK'
  BY SameChain DEF IInv, FinalOK, FinalIsComplete, Swaps, SwapsOn
<1> QED BY <1>3, <1>4, <1>5, <1>6, <1>7 DEF IInv

LEMMA QuietSteps ==
  ASSUME IInv, Request \/ LaunchUnreadable \/ ListingFails \/ Expire \/ UNCHANGED vars
  PROVE  IInv'
<1>1. missed \in BOOLEAN
  BY DEF IInv, TypeOK
<1> QED BY <1>1, QuietStep DEF Request, LaunchUnreadable, ListingFails, Expire, vars

LEMMA ReadLaunchStep ==
  ASSUME IInv, ReadLaunch
  PROVE  IInv'
<1>1. CASE chain = <<>>
  BY <1>1, QuietStep DEF ReadLaunch
<1>2. CASE chain # <<>>
  <2>1. /\ build' = [build EXCEPT !.pc = "dbc", !.dammPool = Migrated, !.asOf = Len(chain)]
        /\ UNCHANGED <<chain, histories, cache, missed, evictions>>
    BY <1>2 DEF ReadLaunch
  <2>2. Len(chain) \in 0..MaxTxs /\ Len(chain) <= Len(chain)
    BY ChainTyped DEF IInv
  <2>3. build'.pc = "dbc" /\ build'.dammPool = Migrated /\ build'.asOf = Len(chain)
    BY <2>1 DEF IInv, TypeOK
  <2>4. TypeOK'
    <3>1. Migrated \in BOOLEAN
      BY DEF Migrated
    <3> QED BY <2>1, <2>2, <3>1 DEF IInv, TypeOK, WithinLimits
  <2>5. BuildOK'
    <3>1. ~Migrated => NoDammTrade(Len(chain))
      BY DEF IInv, ChainOK, NoDammTrade
    <3> QED BY <2>1, <2>2, <2>3, <3>1, SameChain DEF BuildOK
  <2>6. ChainOK' /\ HistoriesOK'
    BY <2>1, SameChain DEF IInv, HistoriesOK
  <2>7. FinalOK' /\ CacheOK'
    BY <2>1, SameChain DEF IInv, FinalOK, FinalIsComplete, Swaps, SwapsOn, CacheOK, FullChartIsFull
  <2> QED BY <2>4, <2>5, <2>6, <2>7 DEF IInv
<1> QED BY <1>1, <1>2

LEMMA EvictStep ==
  ASSUME IInv, NEW evicted \in Pools, Evict(evicted)
  PROVE  IInv'
<1>1. /\ histories' = [histories EXCEPT ![evicted] = EmptyHistory]
      /\ evictions < MaxEvictions /\ evictions' = evictions + 1
      /\ UNCHANGED <<chain, build, cache, missed>>
  BY DEF Evict
<1>2. \A pool \in Pools : histories'[pool] \in {histories[pool], EmptyHistory}
  BY <1>1 DEF IInv, TypeOK
<1>3. TypeOK'
  <2>1. /\ histories' \in [Pools -> History]
        /\ \A pool \in Pools : WithinLimits(histories'[pool])
    BY <1>1, <1>2, EmptyTyped DEF IInv, TypeOK
  <2>2. evictions' \in 0..MaxEvictions
    BY <1>1, ConstantsTyped DEF IInv, TypeOK
  <2> QED BY <1>1, <2>1, <2>2 DEF IInv, TypeOK, WithinLimits
<1>4. HistoriesOK'
  <2> SUFFICES ASSUME NEW pool \in Pools PROVE Tracked(histories'[pool], pool)
    BY <1>1, SameChain DEF HistoriesOK
  <2> QED BY <1>2, EmptyTracked DEF IInv, HistoriesOK
<1>5. FinalOK'
  <2>1. histories'["dbc"].final => histories'["dbc"] = histories["dbc"]
    BY <1>2, EmptyTyped DEF Pools
  <2> QED BY <1>1, <2>1, SameChain DEF IInv, FinalOK, FinalIsComplete, Swaps, SwapsOn
<1>6. ChainOK' /\ BuildOK' /\ CacheOK'
  BY <1>1, SameChain DEF IInv, BuildOK, CacheOK, FullChartIsFull, Swaps, SwapsOn
<1> QED BY <1>3, <1>4, <1>5, <1>6 DEF IInv

\* What both kinds of refresh keep: a new history of one pool that tracks the
\* chain, with the others unchanged.
LEMMA HistoriesReplaced ==
  ASSUME IInv, UNCHANGED chain, NEW pool \in Pools, NEW h, Tracked(h, pool),
         histories' = [histories EXCEPT ![pool] = h]
  PROVE  /\ histories' \in [Pools -> History]
         /\ \A p \in Pools : WithinLimits(histories'[p])
         /\ HistoriesOK'
<1>1. h \in History /\ WithinLimits(h)
  BY DEF Tracked
<1>2. /\ histories' \in [Pools -> History]
      /\ \A p \in Pools : histories'[p] = IF p = pool THEN h ELSE histories[p]
  BY <1>1 DEF IInv, TypeOK
<1>3. \A p \in Pools : Tracked(histories'[p], p)
  BY <1>2 DEF IInv, HistoriesOK
<1>4. HistoriesOK'
  BY <1>3, SameChain DEF HistoriesOK
<1> QED BY <1>2, <1>3, <1>4 DEF Tracked

\* The curve's part of an answer: what follows once dbc is known.
LEMMA CurveDoneStep ==
  ASSUME IInv, UNCHANGED chain, build.pc = "dbc", NEW dbc \in History, CurveDone(dbc),
         Shown(dbc, "dbc", build.asOf)
  PROVE  /\ build' \in [pc : {"idle", "launch", "dbc", "damm"}, dammPool : BOOLEAN,
                        dbc : History, asOf : 0..MaxTxs]
         /\ cache' \in [kind : {"none", "chain", "error"}, partial : BOOLEAN,
                        dbc : SUBSET Txs, damm : SUBSET Txs, asOf : 0..MaxTxs]
         /\ BuildOK' /\ CacheOK'
<1>1. CASE build.dammPool
  <2>1. /\ build' = [build EXCEPT !.pc = "damm", !.dbc = dbc]
        /\ cache' = cache
    BY <1>1 DEF CurveDone
  <2>2. /\ build'.pc = "damm" /\ build'.dammPool = build.dammPool
        /\ build'.dbc = dbc /\ build'.asOf = build.asOf
    BY <2>1 DEF IInv, TypeOK
  <2>3. BuildOK'
    BY <1>1, <2>2, SameChain DEF IInv, BuildOK
  <2>4. CacheOK'
    BY <2>1 DEF IInv, CacheOK, FullChartIsFull, Swaps, SwapsOn
  <2> QED BY <2>1, <2>3, <2>4 DEF IInv, TypeOK
<1>2. CASE ~build.dammPool
  <2>1. build' = Idle /\ cache' = Body(dbc, EmptyHistory)
    BY <1>2 DEF CurveDone
  <2>2. Shown(EmptyHistory, "damm", build.asOf)
    BY <1>2 DEF IInv, BuildOK, NoDammTrade, Shown
  <2>3. BuildOK'
    BY <2>1, IdleOK, ChainTyped DEF IInv, BuildOK
  <2>4. CacheOK'
    <3>1. /\ cache'.asOf = build.asOf
          /\ cache'.dbc = dbc.events /\ cache'.damm = EmptyHistory.events
          /\ cache'.partial = Body(dbc, EmptyHistory).partial
      BY <2>1 DEF Body
    <3>2. \A i \in Swaps : i <= build.asOf /\ ~Body(dbc, EmptyHistory).partial =>
            i \in dbc.events \cup EmptyHistory.events
      BY <2>2, EmptyTyped, BodyFull DEF IInv
    <3> QED BY <3>1, <3>2 DEF IInv, BuildOK, CacheOK, FullChartIsFull, Swaps, SwapsOn
  <2> QED BY <2>1, <2>3, <2>4, IdleOK, EmptyTyped, BodiesTyped DEF IInv
<1> QED BY <1>1, <1>2

LEMMA RefreshCurveStep ==
  ASSUME IInv, RefreshSomeCurve
  PROVE  IInv'
<1> DEFINE h == histories["dbc"]
           l == Listed(h, "dbc")
<1>0. PICK tried \in Tries(l) : \E misses \in SUBSET tried : RefreshCurve(l, tried, misses)
  BY DEF RefreshSomeCurve
<1>1. PICK misses \in SUBSET tried : RefreshCurve(l, tried, misses)
  BY <1>0
<1>2. "dbc" \in Pools
  BY DEF Pools
<1>3. /\ UpToDate(l, "dbc") /\ l.final = h.final
  BY <1>2, ListedTracked DEF IInv, HistoriesOK
<1>4. tried \in SUBSET l.pending
  BY DEF Tries, Newest
<1> DEFINE f == Fetched(l, tried, misses)
           dbc == Frozen(f)
<1>5. UpToDate(f, "dbc") /\ f.final = h.final /\ f \in History
  <2> HIDE DEF h, l
  <2>1. UpToDate(f, "dbc") /\ f.final = l.final
    BY <1>2, <1>3, <1>4, FetchedTracked DEF IInv
  <2> QED BY <1>3, <2>1 DEF UpToDate, Tracked
<1>6. /\ dbc \in History
      /\ dbc.events = f.events /\ dbc.pending = f.pending /\ dbc.attempts = f.attempts
      /\ dbc.newestSig = f.newestSig /\ dbc.capped = f.capped
      /\ dbc.final = (f.final \/ (build.dammPool /\ f.pending = {}))
  <2> HIDE DEF f
  <2> QED BY <1>5 DEF Frozen, History, IInv, TypeOK
<1>7. UpToDate(dbc, "dbc")
  <2> HIDE DEF f, dbc
  <2> QED BY <1>5, <1>6 DEF UpToDate, Tracked, WithinLimits, Accounted
<1>8. /\ ~h.final /\ build.pc = "dbc"
      /\ histories' = [histories EXCEPT !["dbc"] = dbc]
      /\ CurveDone(dbc)
      /\ UNCHANGED <<chain, missed, evictions>>
  BY <1>1 DEF RefreshSomeCurve, RefreshCurve
<1> HIDE DEF l, f, dbc
<1>9. Shown(dbc, "dbc", build.asOf)
  BY <1>2, <1>7, UpToDateShows DEF IInv
<1>10. /\ histories' \in [Pools -> History]
       /\ \A p \in Pools : WithinLimits(histories'[p])
       /\ HistoriesOK'
  BY <1>2, <1>7, <1>8, HistoriesReplaced DEF UpToDate
<1>11. /\ build' \in [pc : {"idle", "launch", "dbc", "damm"}, dammPool : BOOLEAN,
                       dbc : History, asOf : 0..MaxTxs]
       /\ cache' \in [kind : {"none", "chain", "error"}, partial : BOOLEAN,
                       dbc : SUBSET Txs, damm : SUBSET Txs, asOf : 0..MaxTxs]
       /\ BuildOK' /\ CacheOK'
  BY <1>6, <1>8, <1>9, CurveDoneStep
<1>12. TypeOK'
  BY <1>8, <1>10, <1>11 DEF IInv, TypeOK, WithinLimits
<1>13. FinalOK'
  <2>1. histories'["dbc"] = dbc
    BY <1>2, <1>8 DEF IInv, TypeOK
  <2>2. dbc.final => Migrated /\ dbc.pending = {}
    BY <1>5, <1>6, <1>8 DEF IInv, BuildOK
  <2>3. ASSUME dbc.final, ~dbc.capped, NEW i \in SwapsOn("dbc")
        PROVE  i \in dbc.events
    <3>1. i \in Touches("dbc")
      BY <1>2, <2>3, OwnSwaps DEF IInv
    <3> QED BY <1>7, <2>2, <2>3, <3>1 DEF UpToDate, Tracked, Accounted
  <2> QED BY <1>8, <2>1, <2>2, <2>3, SameChain DEF FinalOK, FinalIsComplete, Swaps, SwapsOn
<1>14. ChainOK'
  BY <1>8, SameChain DEF IInv
<1> QED BY <1>10, <1>11, <1>12, <1>13, <1>14 DEF IInv

LEMMA SkipFinalCurveStep ==
  ASSUME IInv, SkipFinalCurve
  PROVE  IInv'
<1> DEFINE h == histories["dbc"]
<1>1. /\ build.pc = "dbc" /\ h.final /\ CurveDone(h)
      /\ UNCHANGED <<chain, histories, missed, evictions>>
  BY DEF SkipFinalCurve
<1>2. h \in History
  BY DEF IInv, TypeOK, Pools
<1>3. Shown(h, "dbc", build.asOf)
  BY <1>1 DEF IInv, FinalOK, FinalIsComplete, Shown, Swaps, SwapsOn
<1>4. /\ build' \in [pc : {"idle", "launch", "dbc", "damm"}, dammPool : BOOLEAN,
                      dbc : History, asOf : 0..MaxTxs]
      /\ cache' \in [kind : {"none", "chain", "error"}, partial : BOOLEAN,
                      dbc : SUBSET Txs, damm : SUBSET Txs, asOf : 0..MaxTxs]
      /\ BuildOK' /\ CacheOK'
  <2> HIDE DEF h
  <2> QED BY <1>1, <1>2, <1>3, CurveDoneStep
<1>5. TypeOK'
  BY <1>1, <1>4 DEF IInv, TypeOK, WithinLimits
<1>6. ChainOK' /\ HistoriesOK' /\ FinalOK'
  BY <1>1, SameChain DEF IInv, HistoriesOK, FinalOK, FinalIsComplete, Swaps, SwapsOn
<1> QED BY <1>4, <1>5, <1>6 DEF IInv

LEMMA RefreshDammStep ==
  ASSUME IInv, RefreshSomeDamm
  PROVE  IInv'
<1> DEFINE h == histories["damm"]
           l == Listed(h, "damm")
<1>1. PICK tried \in Tries(l) : \E misses \in SUBSET tried : RefreshDamm(l, tried, misses)
  BY DEF RefreshSomeDamm
<1>2. PICK misses \in SUBSET tried : RefreshDamm(l, tried, misses)
  BY <1>1
<1> DEFINE damm == Fetched(l, tried, misses)
<1>3. "damm" \in Pools
  BY DEF Pools
<1>4. UpToDate(l, "damm")
  BY <1>3, ListedTracked DEF IInv, HistoriesOK
<1>5. tried \in SUBSET l.pending
  BY DEF Tries, Newest
<1>6. UpToDate(damm, "damm") /\ damm \in History
  <2> HIDE DEF l
  <2>1. build.dammPool
    BY DEF IInv, BuildOK, RefreshSomeDamm
  <2>2. UpToDate(damm, "damm")
    BY <1>3, <1>4, <1>5, <2>1, FetchedTracked DEF IInv
  <2> QED BY <2>2 DEF UpToDate, Tracked
<1>7. /\ build.pc = "damm"
      /\ histories' = [histories EXCEPT !["damm"] = damm]
      /\ cache' = Body(build.dbc, damm)
      /\ build' = Idle
      /\ UNCHANGED <<chain, missed, evictions>>
  BY <1>2 DEF RefreshSomeDamm, RefreshDamm
<1> HIDE DEF l, damm
<1>8. /\ histories' \in [Pools -> History]
      /\ \A p \in Pools : WithinLimits(histories'[p])
      /\ HistoriesOK'
  BY <1>3, <1>6, <1>7, HistoriesReplaced DEF UpToDate
<1>9. build.dbc \in History
  BY DEF IInv, TypeOK
<1>10. TypeOK'
  BY <1>6, <1>7, <1>8, <1>9, IdleOK, BodiesTyped DEF IInv, TypeOK, WithinLimits
<1>11. CacheOK'
  <2>1. Shown(build.dbc, "dbc", build.asOf)
    BY <1>7 DEF IInv, BuildOK
  <2>2. Shown(damm, "damm", build.asOf)
    BY <1>3, <1>6, UpToDateShows DEF IInv
  <2>3. \A i \in Swaps : i <= build.asOf /\ ~Body(build.dbc, damm).partial =>
          i \in build.dbc.events \cup damm.events
    BY <1>6, <1>9, <2>1, <2>2, BodyFull DEF IInv
  <2>4. /\ cache'.asOf = build.asOf /\ cache'.partial = Body(build.dbc, damm).partial
        /\ cache'.dbc = build.dbc.events /\ cache'.damm = damm.events
    BY <1>7 DEF Body
  <2> QED BY <1>7, <2>3, <2>4 DEF IInv, BuildOK, CacheOK, FullChartIsFull, Swaps, SwapsOn
<1>12. FinalOK'
  <2>1. histories'["dbc"] = histories["dbc"]
    BY <1>7 DEF IInv, TypeOK, Pools
  <2> QED BY <1>7, <2>1, SameChain DEF IInv, FinalOK, FinalIsComplete, Swaps, SwapsOn
<1>13. ChainOK' /\ BuildOK'
  BY <1>7, SameChain, IdleOK, ChainTyped DEF IInv, BuildOK
<1> QED BY <1>8, <1>10, <1>11, <1>12, <1>13 DEF IInv

LEMMA NextIInv == IInv /\ [Next]_vars => IInv'
<1> SUFFICES ASSUME IInv, [Next]_vars PROVE IInv'
  OBVIOUS
<1>1. ASSUME NEW kind \in Landing, Land(kind) PROVE IInv'
  BY <1>1, LandStep
<1>2. CASE Request \/ LaunchUnreadable \/ ListingFails \/ Expire \/ UNCHANGED vars
  BY <1>2, QuietSteps
<1>3. CASE ReadLaunch
  BY <1>3, ReadLaunchStep
<1>4. CASE RefreshSomeCurve
  BY <1>4, RefreshCurveStep
<1>5. CASE SkipFinalCurve
  BY <1>5, SkipFinalCurveStep
<1>6. CASE RefreshSomeDamm
  BY <1>6, RefreshDammStep
<1>7. ASSUME NEW pool \in Pools, Evict(pool) PROVE IInv'
  BY <1>7, EvictStep
<1> QED BY <1>1, <1>2, <1>3, <1>4, <1>5, <1>6, <1>7 DEF Next

LEMMA InductiveInvariant == Spec => []IInv
BY InitIInv, NextIInv, PTL DEF Spec

-----------------------------------------------------------------------------
(* The theorems.                                                            *)

(***************************************************************************)
(* Whatever is listed, missed, retried, given up or evicted, a history     *)
(* stays within the limits that bound the service's memory.                *)
(***************************************************************************)
THEOREM HistoryTypes == Spec => []TypeOK
<1>1. IInv => TypeOK
  BY DEF IInv
<1> QED BY <1>1, InductiveInvariant, PTL

(***************************************************************************)
(* refreshPoolHistory loses no swap without saying so: below the newest    *)
(* signature listed, a history that is not capped accounts for them all.   *)
(***************************************************************************)
THEOREM NothingLostTheorem == Spec => []NothingLost
<1>1. IInv => NothingLost
  BY DEF IInv, HistoriesOK, Tracked, NothingLost
<1> QED BY <1>1, InductiveInvariant, PTL

(***************************************************************************)
(* A chart that is not marked partial shows every swap confirmed when its  *)
(* launch was read.                                                        *)
(***************************************************************************)
THEOREM FullChartTheorem == Spec => []FullChartIsFull
<1>1. IInv => FullChartIsFull
  BY DEF IInv, CacheOK
<1> QED BY <1>1, InductiveInvariant, PTL

(***************************************************************************)
(* The curve history that is never refreshed again misses no curve trade   *)
(* that it does not know to be missing.                                    *)
(***************************************************************************)
THEOREM FinalTheorem == Spec => []FinalIsComplete
<1>1. IInv => FinalIsComplete
  BY DEF IInv, FinalOK
<1> QED BY <1>1, InductiveInvariant, PTL

=============================================================================
