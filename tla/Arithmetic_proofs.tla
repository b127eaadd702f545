------------------------- MODULE Arithmetic_proofs -------------------------
(***************************************************************************)
(* Facts about the program's arithmetic, for every vault, supply, amount   *)
(* and threshold, and about sums over finite sets.                         *)
(***************************************************************************)
EXTENDS FloorMath, Functions, FiniteSetTheorems, WellFoundedInduction, TLAPS

\* Integer division, in the two forms the provers need below.
LEMMA DivBounds ==
  ASSUME NEW a \in Nat, NEW b \in Nat, b > 0
  PROVE  /\ a \div b \in Nat
         /\ (a \div b) * b <= a
         /\ a < (a \div b) * b + b
  OBVIOUS

LEMMA MulMonotone ==
  ASSUME NEW a \in Nat, NEW b \in Nat, NEW c \in Nat, a <= b
  PROVE  a * c <= b * c /\ a * c \in Nat /\ b * c \in Nat
  OBVIOUS

LEMMA MulCancel ==
  ASSUME NEW a \in Nat, NEW b \in Nat, NEW c \in Nat, c > 0, a * c <= b * c
  PROVE  a <= b
<1> SUFFICES ASSUME b + 1 <= a PROVE FALSE
  OBVIOUS
<1>1. (b + 1) * c <= a * c
  BY MulMonotone
<1>2. (b + 1) * c = b * c + c
  OBVIOUS
<1> QED BY <1>1, <1>2

\* pro_rata_floor rounds down and never exceeds the value it takes a share of.
LEMMA ProRataBounds ==
  ASSUME NEW v \in Nat, NEW n \in Nat, NEW d \in Nat, d > 0, n <= d
  PROVE  /\ ProRataFloor(v, n, d) \in Nat
         /\ ProRataFloor(v, n, d) * d <= v * n
         /\ ProRataFloor(v, n, d) <= v
<1> DEFINE q == ProRataFloor(v, n, d)
<1>1. v * n \in Nat /\ v * n <= v * d /\ v * d \in Nat
  OBVIOUS
<1>2. q \in Nat /\ q * d <= v * n
  BY <1>1, DivBounds DEF ProRataFloor
<1>3. q <= v
  <2> HIDE DEF q
  <2>1. q * d <= v * d
    BY <1>1, <1>2
  <2> QED BY <1>2, <2>1, MulCancel
<1> QED BY <1>2, <1>3

\* fee_ceil never exceeds the amount it is charged on.
LEMMA FeeBounds ==
  ASSUME NEW g \in Nat, NEW bps \in Nat, bps <= BpsDenominator
  PROVE  FeeCeil(g, bps) \in Nat /\ FeeCeil(g, bps) <= g
<1> DEFINE x == g * bps + 9999
<1>1. g * bps \in Nat /\ g * bps <= g * 10000
  BY DEF BpsDenominator
<1>2. x \in Nat /\ x <= g * 10000 + 9999
  BY <1>1
<1>3. FeeCeil(g, bps) = x \div 10000
  BY <1>1 DEF FeeCeil, BpsDenominator
<1>4. x \div 10000 \in Nat /\ x \div 10000 <= g
  <2> HIDE DEF x
  <2> QED BY <1>2
<1> QED BY <1>3, <1>4

\* A redemption quote pays at most the exact pro-rata share of the vault.
LEMMA RedeemQuoteBounds ==
  ASSUME NEW v \in Nat, NEW s \in Nat, NEW a \in Nat, NEW bps \in Nat,
         s > 0, a <= s, bps <= BpsDenominator
  PROVE  /\ Gross(v, s, a) \in Nat
         /\ Gross(v, s, a) <= v
         /\ Gross(v, s, a) * s <= v * a
         /\ Fee(v, s, a, bps) \in Nat
         /\ Fee(v, s, a, bps) <= Gross(v, s, a)
         /\ Net(v, s, a, bps) \in Nat
         /\ Net(v, s, a, bps) <= v
         /\ Net(v, s, a, bps) * s <= v * a
<1> DEFINE g == Gross(v, s, a)
           f == Fee(v, s, a, bps)
           n == Net(v, s, a, bps)
<1>1. g \in Nat /\ g <= v /\ g * s <= v * a
  BY ProRataBounds DEF Gross
<1>2. f \in Nat /\ f <= g
  BY <1>1, FeeBounds DEF Fee
<1>3. n = g - f
  BY DEF Net
<1> HIDE DEF g, f, n
<1>4. n \in Nat /\ n <= g
  BY <1>1, <1>2, <1>3
<1>5. n * s <= g * s
  BY <1>1, <1>4, MulMonotone
<1>6. n * s <= v * a
  <2>1. n * s \in Nat /\ g * s \in Nat /\ v * a \in Nat
    BY <1>1, <1>4
  <2> QED BY <2>1, <1>1, <1>5
<1> QED BY <1>1, <1>2, <1>4, <1>6 DEF g, f, n

(***************************************************************************)
(* math.rs / architecture.md "Monotonicity": a redemption never lowers the *)
(* floor.  The run-time check FloorDecreased of handle_redeem therefore    *)
(* never fires; no premise of this theorem mentions it.                    *)
(***************************************************************************)
THEOREM RedeemKeepsFloor ==
  ASSUME NEW v \in Nat, NEW s \in Nat, NEW a \in Nat, NEW bps \in Nat,
         Redeemable(v, s, a, bps)
  PROVE  FloorNotDecreased(v, s, v - Net(v, s, a, bps), s - a)
<1> DEFINE n == Net(v, s, a, bps)
<1>1. a > 0 /\ s > 0 /\ a <= s /\ bps <= BpsDenominator
  BY DEF Redeemable
<1>2. n \in Nat /\ n <= v /\ n * s <= v * a
  BY <1>1, RedeemQuoteBounds
<1> HIDE DEF n
<1>3. (v - n) * s = v * s - n * s
  BY <1>2
<1>4. v * (s - a) = v * s - v * a
  OBVIOUS
<1>5. (v - n) * s >= v * (s - a)
  <2>1. n * s \in Int /\ v * a \in Int /\ v * s \in Int
    BY <1>2
  <2> QED BY <2>1, <1>2, <1>3, <1>4
<1> QED BY <1>1, <1>5 DEF FloorNotDecreased, n

\* Quote added to the vault (a harvest or a donation) and base burned outside
\* redeem both leave the floor at least where it was.
LEMMA InflowKeepsFloor ==
  ASSUME NEW v0 \in Nat, NEW s0 \in Nat, NEW v1 \in Nat, NEW s1 \in Nat,
         v0 <= v1, s1 <= s0, s0 > 0
  PROVE  FloorNotDecreased(v0, s0, v1, s1)
<1>1. v0 * s1 <= v0 * s0 /\ v0 * s0 <= v1 * s0
  OBVIOUS
<1>2. v0 * s1 \in Int /\ v0 * s0 \in Int /\ v1 * s0 \in Int
  OBVIOUS
<1> QED BY <1>1, <1>2 DEF FloorNotDecreased

LEMMA BpsBounds ==
  ASSUME NEW x \in Nat, NEW bps \in Nat, bps <= BpsDenominator
  PROVE  BpsFloor(x, bps) \in Nat /\ BpsFloor(x, bps) <= x
BY ProRataBounds DEF BpsFloor, BpsDenominator

\* Every unit of the graduation fee goes to exactly one of the three payees.
LEMMA GraduationSplitExact ==
  ASSUME NEW t \in Nat, NEW received \in Nat
  PROVE  LET split == GraduationSplit(t, received)
         IN  /\ split \in [platform : Nat, creator : Nat, vault : Nat]
             /\ SplitTotal(split) = received
<1> DEFINE cut == BpsFloor(t, 500)
<1>1. cut \in Nat
  BY BpsBounds DEF BpsDenominator
<1> HIDE DEF cut
<1>2. GraduationSplit(t, received) =
        LET platform == SmallerOf(cut, received)
            rest     == received - platform
            creator  == SmallerOf(cut, rest)
        IN  [platform |-> platform, creator |-> creator, vault |-> rest - creator]
  BY DEF GraduationSplit, cut, PlatformGraduationFeeBps, CreatorGraduationBonusBps
<1> QED BY <1>1, <1>2 DEF SmallerOf, SplitTotal

\* The same for LP fees: the creator's half and the platform's fifth never
\* exceed what came in, so the vault's part is a natural number.
LEMMA LpFeeSplitExact ==
  ASSUME NEW received \in Nat
  PROVE  LET split == LpFeeSplit(received)
         IN  /\ split \in [platform : Nat, creator : Nat, vault : Nat]
             /\ SplitTotal(split) = received
<1> DEFINE c == BpsFloor(received, 5000)
           p == BpsFloor(received, 2000)
<1>1. c \in Nat /\ p \in Nat /\ c + p <= received
  BY DEF BpsFloor, ProRataFloor, BpsDenominator
<1> HIDE DEF c, p
<1>2. LpFeeSplit(received) =
        [platform |-> p, creator |-> c, vault |-> received - c - p]
  BY DEF LpFeeSplit, c, p, LpFeeCreatorBps, LpFeePlatformBps
<1> QED BY <1>1, <1>2 DEF SplitTotal

\* The partner migration fee is a part of the raise.
LEMMA PartnerFeeBounds ==
  ASSUME NEW t \in Nat, NEW pct \in 0..100
  PROVE  PartnerMigrationFee(t, pct) \in 0..t
<1>1. t * (100 - pct) + 99 \in Nat
  OBVIOUS
<1> DEFINE q == (t * (100 - pct) + 99) \div 100
<1>2. q \in Nat
  BY <1>1
<1> HIDE DEF q
<1>3. PartnerMigrationFee(t, pct) = t - SmallerOf(q, t)
  BY DEF PartnerMigrationFee, q
<1> QED BY <1>2, <1>3 DEF SmallerOf

\* A quotient that does not fall, rounded down to a fixed point, does not fall either.
LEMMA QuotientMonotone ==
  ASSUME NEW v \in Nat, NEW s \in Nat \ {0}, NEW v1 \in Nat, NEW s1 \in Nat \ {0},
         NEW one \in Nat, v * s1 <= v1 * s
  PROVE  (v * one) \div s <= (v1 * one) \div s1
<1> DEFINE q == (v * one) \div s
           q1 == (v1 * one) \div s1
<1>1. /\ v * one \in Nat /\ v1 * one \in Nat
      /\ q \in Nat /\ q * s <= v * one
      /\ q1 \in Nat /\ v1 * one < q1 * s1 + s1
  BY DivBounds
<1> HIDE DEF q, q1
<1>2. (q * s) * s1 <= (v * one) * s1
  BY <1>1, MulMonotone
<1>3. (v * s1) * one <= (v1 * s) * one
  BY MulMonotone
<1>4. /\ (q * s) * s1 = (q * s1) * s /\ (v * one) * s1 = (v * s1) * one
      /\ (v1 * s) * one = (v1 * one) * s
  BY <1>1
<1>5. (q * s1) * s <= (v1 * one) * s
  <2>1. /\ (q * s1) * s \in Nat /\ (v * s1) * one \in Nat /\ (v1 * one) * s \in Nat
    BY <1>1
  <2> QED BY <1>2, <1>3, <1>4, <2>1
<1>6. q * s1 <= v1 * one
  <2>1. q * s1 \in Nat
    BY <1>1
  <2> QED BY <1>1, <1>5, <2>1, MulCancel
<1>7. q1 * s1 + s1 = (q1 + 1) * s1
  BY <1>1
<1>8. q * s1 \in Nat /\ (q1 + 1) * s1 \in Nat /\ q * s1 < (q1 + 1) * s1
  BY <1>1, <1>6, <1>7
<1>9. CASE q1 + 1 <= q
  <2>1. (q1 + 1) * s1 <= q * s1
    BY <1>1, <1>9, MulMonotone
  <2> QED BY <1>8, <2>1
<1>10. CASE q <= q1
  BY <1>10 DEF q, q1
<1> QED BY <1>1, <1>9, <1>10

-----------------------------------------------------------------------------
(***************************************************************************)
(* Sums over finite sets.  FoldFunctionOnSet takes the elements in some    *)
(* order of its own; the sum does not depend on it.  The induction is over *)
(* the number of elements, as a set of numbers without a least one left    *)
(* out (NatSetInduction).                                                  *)
(***************************************************************************)

\* The sum of f over S, with the elements taken in the order CHOOSE gives.
Sum(f, S) == FoldFunctionOnSet(+, 0, f, S)

Pick(s) == CHOOSE x \in s : TRUE
Summed(f, g, s) == IF s = {} THEN 0 ELSE f[Pick(s)] + g[s \ {Pick(s)}]
IsPartial(f, g, S) == g = [s \in SUBSET S |-> Summed(f, g, s)]
\* The recursive function behind it, on the subsets of S.
Partial(f, S) == CHOOSE g : g = [s \in SUBSET S |-> IF s = {} THEN 0 ELSE f[CHOOSE x \in s : TRUE] + g[s \ {CHOOSE x \in s : TRUE}]]

\* Any numbers have a least one.
LEMMA LeastOf ==
  ASSUME NEW F \in SUBSET Nat, F # {}
  PROVE  (CHOOSE i \in F : \A j \in F : i <= j) \in F
<1>1. IsWellFoundedOn(OpToRel(<,Nat), Nat)
  BY NatLessThanWellFounded
<1> DEFINE R == OpToRel(<,Nat)
<1>2. \A x, y \in Nat : <<y, x>> \in R <=> y < x
  BY DEF OpToRel
<1> HIDE DEF R
<1>3. \E x \in F : \A y \in F : ~(<<y, x>> \in R)
  BY <1>1, WFMin DEF R
<1>4. \E x \in F : \A y \in F : x <= y
  <2>1. PICK x \in F : \A y \in F : ~(<<y, x>> \in R)
    BY <1>3
  <2>2. \A y \in F : ~(y < x)
    BY <1>2, <2>1
  <2>3. \A y \in F : y \in Nat /\ x \in Nat
    OBVIOUS
  <2>4. \A y \in F : x <= y
    BY <2>2, <2>3
  <2> QED BY <2>4
<1> QED BY <1>4

LEMMA NatSetInduction ==
  ASSUME NEW P, 0 \in P, \A n \in Nat : n \in P => n + 1 \in P
  PROVE  Nat \subseteq P
<1> DEFINE T == Nat \ P
<1> SUFFICES ASSUME T # {} PROVE FALSE
  OBVIOUS
<1>1. IsWellFoundedOn(OpToRel(<,Nat), Nat)
  BY NatLessThanWellFounded
<1>2. T \subseteq Nat
  OBVIOUS
<1> DEFINE R == OpToRel(<,Nat)
<1>3. \A x, y \in Nat : <<y, x>> \in R <=> y < x
  BY DEF OpToRel
<1> HIDE DEF R, T
<1>4. \E x \in T : \A y \in T : ~(<<y, x>> \in R)
  BY <1>1, <1>2, WFMin DEF R
<1>5. PICK x \in T : \A y \in T : ~(<<y, x>> \in R)
  BY <1>4
<1>6. x \in Nat /\ x # 0
  BY <1>2 DEF T
<1>7. x - 1 \in Nat /\ x - 1 < x /\ x = (x - 1) + 1
  BY <1>6
<1>8. x - 1 \notin T
  BY <1>2, <1>3, <1>5, <1>7
<1> QED BY <1>5, <1>7, <1>8 DEF T

LEMMA PickIn == ASSUME NEW s, s # {} PROVE Pick(s) \in s
  BY DEF Pick

LEMMA Removed ==
  ASSUME NEW S, IsFiniteSet(S), NEW s \in SUBSET S, NEW x \in s
  PROVE  /\ IsFiniteSet(s) /\ s \ {x} \in SUBSET S
         /\ Cardinality(s) \in Nat /\ Cardinality(s \ {x}) \in Nat
         /\ Cardinality(s \ {x}) = Cardinality(s) - 1
<1>1. IsFiniteSet(s)
  BY FS_Subset
<1> QED BY <1>1, FS_RemoveElement, FS_CardinalityType

\* There is such a function on the sets of at most n elements, and so on all.
LEMMA PartialExists ==
  ASSUME NEW S, IsFiniteSet(S), NEW f
  PROVE  \E g : IsPartial(f, g, S)
<1> DEFINE D(n) == {s \in SUBSET S : Cardinality(s) <= n}
           P == {n \in Nat : \E g : g = [s \in D(n) |-> Summed(f, g, s)]}
<1>1. 0 \in P
  <2> DEFINE g == [s \in D(0) |-> 0]
  <2>1. \A s \in D(0) : s = {}
    BY FS_EmptySet, FS_Subset, FS_CardinalityType
  <2>2. g = [s \in D(0) |-> Summed(f, g, s)]
    BY <2>1 DEF Summed
  <2> QED BY <2>2
<1>2. ASSUME NEW n \in Nat, n \in P PROVE n + 1 \in P
  <2>1. PICK g : g = [s \in D(n) |-> Summed(f, g, s)]
    BY <1>2
  <2> DEFINE h == [s \in D(n + 1) |-> Summed(f, g, s)]
  <2>2. D(n) \subseteq D(n + 1)
    <3>1. \A s \in SUBSET S : Cardinality(s) \in Nat
      BY FS_Subset, FS_CardinalityType
    <3> QED BY <3>1
  <2>3. \A s \in D(n) : h[s] = g[s]
    <3> HIDE DEF D
    <3> QED BY <2>1, <2>2
  <2>4. ASSUME NEW s \in D(n + 1) PROVE Summed(f, h, s) = Summed(f, g, s)
    <3>1. CASE s = {}
      BY <3>1 DEF Summed
    <3>2. CASE s # {}
      <4>1. Pick(s) \in s
        BY <3>2, PickIn
      <4>2. s \ {Pick(s)} \in D(n)
        BY <2>4, <4>1, Removed
      <4>3. h[s \ {Pick(s)}] = g[s \ {Pick(s)}]
        BY <2>3, <4>2
      <4> HIDE DEF h
      <4> QED BY <4>3 DEF Summed
    <3> QED BY <3>1, <3>2
  <2>5. h = [s \in D(n + 1) |-> Summed(f, h, s)]
    <3> HIDE DEF D
    <3>1. \A s \in D(n + 1) : Summed(f, h, s) = Summed(f, g, s)
      BY <2>4
    <3> QED BY <3>1
  <2> HIDE DEF D, h
  <2>6. \E k : k = [s \in D(n + 1) |-> Summed(f, k, s)]
    BY <2>5
  <2> QED BY <2>6
<1> HIDE DEF P
<1>3. Nat \subseteq P
  BY <1>1, <1>2, NatSetInduction
<1>4. Cardinality(S) \in Nat
  BY FS_CardinalityType
<1>5. D(Cardinality(S)) = SUBSET S
  BY FS_Subset
<1>6. \E g : g = [s \in D(Cardinality(S)) |-> Summed(f, g, s)]
  BY <1>3, <1>4 DEF P
<1> QED BY <1>5, <1>6 DEF IsPartial

LEMMA PartialEquation ==
  ASSUME NEW S, IsFiniteSet(S), NEW f
  PROVE  /\ Partial(f, S)[{}] = 0
         /\ \A s \in SUBSET S : s # {} => Partial(f, S)[s] = f[Pick(s)] + Partial(f, S)[s \ {Pick(s)}]
<1>1. PICK g : IsPartial(f, g, S)
  BY PartialExists
<1>2. g = [s \in SUBSET S |-> IF s = {} THEN 0 ELSE f[CHOOSE x \in s : TRUE] + g[s \ {CHOOSE x \in s : TRUE}]]
  BY <1>1 DEF IsPartial, Summed, Pick
<1>3. Partial(f, S) = [s \in SUBSET S |-> IF s = {} THEN 0 ELSE f[CHOOSE x \in s : TRUE]
                          + Partial(f, S)[s \ {CHOOSE x \in s : TRUE}]]
  BY <1>2 DEF Partial
<1>4. Partial(f, S) = [s \in SUBSET S |-> IF s = {} THEN 0 ELSE f[Pick(s)] + Partial(f, S)[s \ {Pick(s)}]]
  BY <1>3 DEF Pick
<1> HIDE DEF Partial
<1> DEFINE p == Partial(f, S)
<1>5. p = [s \in SUBSET S |-> IF s = {} THEN 0 ELSE f[Pick(s)] + p[s \ {Pick(s)}]]
  BY <1>4
<1> HIDE DEF p
<1>6. /\ p[{}] = 0
      /\ \A s \in SUBSET S : s # {} => p[s] = f[Pick(s)] + p[s \ {Pick(s)}]
  BY <1>5
<1> QED BY <1>6 DEF p

\* On a subset the function does not depend on the set it is defined over.
LEMMA PartialAgree ==
  ASSUME NEW S, IsFiniteSet(S), NEW f, NEW T \in SUBSET S
  PROVE  \A s \in SUBSET T : Partial(f, S)[s] = Partial(f, T)[s]
<1> DEFINE P == {n \in Nat : \A s \in SUBSET T : Cardinality(s) = n => Partial(f, S)[s] = Partial(f, T)[s]}
<1>0. IsFiniteSet(T)
  BY FS_Subset
<1>1. 0 \in P
  <2>1. \A s \in SUBSET T : Cardinality(s) = 0 => s = {}
    BY <1>0, FS_EmptySet, FS_Subset
  <2>2. Partial(f, S)[{}] = 0 /\ Partial(f, T)[{}] = 0
    BY <1>0, PartialEquation
  <2> QED BY <2>1, <2>2
<1>2. ASSUME NEW n \in Nat, n \in P PROVE n + 1 \in P
  <2>1. ASSUME NEW s \in SUBSET T, Cardinality(s) = n + 1
        PROVE  Partial(f, S)[s] = Partial(f, T)[s]
    <3>1. s # {}
      BY <2>1, FS_EmptySet
    <3>2. Pick(s) \in s
      BY <3>1, PickIn
    <3>3. s \ {Pick(s)} \in SUBSET T /\ Cardinality(s \ {Pick(s)}) = n
      <4> HIDE DEF P
      <4>1. /\ s \ {Pick(s)} \in SUBSET T
            /\ Cardinality(s \ {Pick(s)}) = Cardinality(s) - 1
        BY <1>0, <3>2, Removed
      <4> QED BY <2>1, <4>1
    <3>4. Partial(f, S)[s \ {Pick(s)}] = Partial(f, T)[s \ {Pick(s)}]
      BY <1>2, <3>3
    <3>5. s \in SUBSET S
      OBVIOUS
    <3> QED BY <1>0, <3>1, <3>4, <3>5, PartialEquation
  <2> QED BY <2>1
<1> HIDE DEF P
<1>3. Nat \subseteq P
  BY <1>1, <1>2, NatSetInduction
<1>4. \A s \in SUBSET T : Cardinality(s) \in Nat
  BY <1>0, FS_Subset, FS_CardinalityType
<1> QED BY <1>3, <1>4 DEF P

LEMMA SumIsPartial == ASSUME NEW f, NEW S PROVE Sum(f, S) = Partial(f, S)[S]
BY DEF Sum, FoldFunctionOnSet, MapThenFoldSet, Partial

LEMMA SumEmpty == ASSUME NEW f PROVE Sum(f, {}) = 0
<1>1. IsFiniteSet({})
  BY FS_EmptySet
<1>2. Sum(f, {}) = Partial(f, {})[{}]
  BY SumIsPartial
<1> QED BY <1>1, <1>2, PartialEquation

LEMMA SumPick ==
  ASSUME NEW S, IsFiniteSet(S), S # {}, NEW f
  PROVE  Sum(f, S) = f[Pick(S)] + Sum(f, S \ {Pick(S)})
<1> DEFINE T == S \ {Pick(S)}
<1>1. Sum(f, S) = f[Pick(S)] + Partial(f, S)[T]
  BY SumIsPartial, PartialEquation
<1>2. Partial(f, S)[T] = Partial(f, T)[T]
  <2>1. T \in SUBSET S /\ T \in SUBSET T
    OBVIOUS
  <2> HIDE DEF T
  <2> QED BY <2>1, PartialAgree
<1>3. Sum(f, T) = Partial(f, T)[T]
  BY SumIsPartial
<1> QED BY <1>1, <1>2, <1>3

\* The sum does not depend on the order: any element can be taken out first.
LEMMA SumInvariant ==
  ASSUME NEW S, IsFiniteSet(S), NEW f, \A x \in S : f[x] \in Int
  PROVE  /\ Sum(f, S) \in Int
         /\ \A x \in S : Sum(f, S) = f[x] + Sum(f, S \ {x})
<1> DEFINE Holds(s) == Sum(f, s) \in Int /\ \A x \in s : Sum(f, s) = f[x] + Sum(f, s \ {x})
           P == {n \in Nat : \A s \in SUBSET S : Cardinality(s) <= n => Holds(s)}
<1>0. Holds({})
  BY SumEmpty
<1>1. 0 \in P
  <2>1. \A s \in SUBSET S : Cardinality(s) <= 0 => s = {}
    BY FS_EmptySet, FS_Subset, FS_CardinalityType
  <2> HIDE DEF Holds
  <2> QED BY <1>0, <2>1
<1>2. ASSUME NEW n \in Nat, n \in P PROVE n + 1 \in P
  <2>1. ASSUME NEW s \in SUBSET S, Cardinality(s) <= n + 1, s # {} PROVE Holds(s)
    <3> DEFINE c == Pick(s)
    <3> HIDE DEF Holds, P
    <3>1. c \in s /\ IsFiniteSet(s)
      BY <2>1, PickIn, FS_Subset
    <3>2. \A y \in s : s \ {y} \in SUBSET S /\ Cardinality(s \ {y}) <= n
      BY <2>1, Removed
    <3>3. \A t \in SUBSET S : Cardinality(t) <= n => Holds(t)
      BY <1>2 DEF P
    <3>4. \A y \in s : Holds(s \ {y})
      BY <3>2, <3>3
    <3>5. Sum(f, s) = f[c] + Sum(f, s \ {c})
      BY <2>1, <3>1, SumPick
    <3>6. Sum(f, s) \in Int
      BY <3>1, <3>4, <3>5 DEF Holds
    <3>7. ASSUME NEW x \in s PROVE Sum(f, s) = f[x] + Sum(f, s \ {x})
      <4>1. CASE x = c
        BY <3>5, <4>1
      <4>2. CASE x # c
        <5> DEFINE r == (s \ {c}) \ {x}
        <5>1. r = (s \ {x}) \ {c} /\ x \in s \ {c} /\ c \in s \ {x}
          BY <3>1, <4>2
        <5>2. Sum(f, s \ {c}) = f[x] + Sum(f, r)
          BY <3>1, <3>4, <5>1 DEF Holds
        <5>3. Sum(f, s \ {x}) = f[c] + Sum(f, r)
          BY <3>4, <5>1 DEF Holds
        <5>4. Holds(r)
          <6>1. s \ {c} \in SUBSET S /\ Cardinality(s \ {c}) <= n
            BY <3>1, <3>2
          <6>2. r \in SUBSET S /\ Cardinality(r) <= n
            BY <5>1, <6>1, Removed
          <6> QED BY <3>3, <6>2
        <5>5. f[x] \in Int /\ f[c] \in Int /\ Sum(f, r) \in Int
          BY <3>1, <5>4 DEF Holds
        <5> QED BY <3>5, <5>2, <5>3, <5>5
      <4> QED BY <4>1, <4>2
    <3> QED BY <3>6, <3>7 DEF Holds
  <2> HIDE DEF Holds
  <2> QED BY <1>0, <2>1
<1> HIDE DEF P
<1>3. Nat \subseteq P
  BY <1>1, <1>2, NatSetInduction
<1>4. Cardinality(S) \in Nat /\ S \in SUBSET S
  BY FS_CardinalityType
<1>5. Holds(S)
  <2> HIDE DEF Holds
  <2> QED BY <1>3, <1>4 DEF P
<1> QED BY <1>5

LEMMA SumTakeOut ==
  ASSUME NEW S, IsFiniteSet(S), NEW f, \A y \in S : f[y] \in Int, NEW x \in S
  PROVE  Sum(f, S) \in Int /\ Sum(f, S \ {x}) \in Int /\ Sum(f, S) = f[x] + Sum(f, S \ {x})
<1>1. IsFiniteSet(S \ {x})
  BY FS_RemoveElement
<1> QED BY <1>1, SumInvariant

\* Functions that agree on S, or are ordered on it, have sums that are.
LEMMA SumOrdered ==
  ASSUME NEW S, IsFiniteSet(S), NEW f, NEW g,
         \A x \in S : f[x] \in Int /\ g[x] \in Int /\ f[x] <= g[x]
  PROVE  Sum(f, S) <= Sum(g, S)
<1> DEFINE P == {n \in Nat : \A s \in SUBSET S : Cardinality(s) = n => Sum(f, s) <= Sum(g, s)}
<1>1. 0 \in P
  <2>1. \A s \in SUBSET S : Cardinality(s) = 0 => s = {}
    BY FS_EmptySet, FS_Subset
  <2>2. Sum(f, {}) <= Sum(g, {})
    BY SumEmpty
  <2> QED BY <2>1, <2>2
<1>2. ASSUME NEW n \in Nat, n \in P PROVE n + 1 \in P
  <2>1. ASSUME NEW s \in SUBSET S, Cardinality(s) = n + 1 PROVE Sum(f, s) <= Sum(g, s)
    <3>1. s # {} /\ IsFiniteSet(s)
      BY <2>1, FS_EmptySet, FS_Subset
    <3>2. PICK x \in s : TRUE
      BY <3>1
    <3>3. s \ {x} \in SUBSET S /\ Cardinality(s \ {x}) = n
      <4> HIDE DEF P
      <4> QED BY <2>1, <3>2, Removed
    <3>4. Sum(f, s \ {x}) <= Sum(g, s \ {x})
      BY <1>2, <3>3
    <3>5. Sum(f, s \ {x}) \in Int /\ Sum(f, s) = f[x] + Sum(f, s \ {x})
      BY <3>1, SumTakeOut
    <3>6. Sum(g, s \ {x}) \in Int /\ Sum(g, s) = g[x] + Sum(g, s \ {x})
      BY <3>1, SumTakeOut
    <3>7. f[x] \in Int /\ g[x] \in Int /\ f[x] <= g[x]
      OBVIOUS
    <3> HIDE DEF P
    <3> QED BY <3>4, <3>5, <3>6, <3>7
  <2> QED BY <2>1
<1> HIDE DEF P
<1>3. Nat \subseteq P
  BY <1>1, <1>2, NatSetInduction
<1>4. Cardinality(S) \in Nat /\ S \in SUBSET S
  BY FS_CardinalityType
<1> QED BY <1>3, <1>4 DEF P

LEMMA SumAgree ==
  ASSUME NEW S, IsFiniteSet(S), NEW f, NEW g, \A x \in S : f[x] \in Int /\ g[x] = f[x]
  PROVE  Sum(f, S) = Sum(g, S)
<1>1. \A x \in S : g[x] \in Int /\ f[x] <= g[x] /\ g[x] <= f[x]
  OBVIOUS
<1>2. Sum(f, S) <= Sum(g, S)
  BY <1>1, SumOrdered
<1>3. Sum(g, S) <= Sum(f, S)
  BY <1>1, SumOrdered
<1>4. Sum(f, S) \in Int /\ Sum(g, S) \in Int
  BY <1>1, SumInvariant
<1> QED BY <1>2, <1>3, <1>4

LEMMA SumZero ==
  ASSUME NEW S, IsFiniteSet(S), NEW f, \A x \in S : f[x] = 0
  PROVE  Sum(f, S) = 0
<1> DEFINE P == {n \in Nat : \A s \in SUBSET S : Cardinality(s) = n => Sum(f, s) = 0}
<1>1. 0 \in P
  <2>1. \A s \in SUBSET S : Cardinality(s) = 0 => s = {}
    BY FS_EmptySet, FS_Subset
  <2>2. Sum(f, {}) = 0
    BY SumEmpty
  <2> QED BY <2>1, <2>2
<1>2. ASSUME NEW n \in Nat, n \in P PROVE n + 1 \in P
  <2>1. ASSUME NEW s \in SUBSET S, Cardinality(s) = n + 1 PROVE Sum(f, s) = 0
    <3>1. s # {} /\ IsFiniteSet(s)
      BY <2>1, FS_EmptySet, FS_Subset
    <3>2. Pick(s) \in s
      BY <3>1, PickIn
    <3>3. s \ {Pick(s)} \in SUBSET S /\ Cardinality(s \ {Pick(s)}) = n
      <4> HIDE DEF P
      <4> QED BY <2>1, <3>2, Removed
    <3>4. Sum(f, s \ {Pick(s)}) = 0
      BY <1>2, <3>3
    <3>5. Sum(f, s) = f[Pick(s)] + Sum(f, s \ {Pick(s)})
      BY <3>1, SumPick
    <3>6. f[Pick(s)] = 0
      BY <3>2
    <3> HIDE DEF P
    <3> QED BY <3>4, <3>5, <3>6
  <2> QED BY <2>1
<1> HIDE DEF P
<1>3. Nat \subseteq P
  BY <1>1, <1>2, NatSetInduction
<1>4. Cardinality(S) \in Nat /\ S \in SUBSET S
  BY FS_CardinalityType
<1> QED BY <1>3, <1>4 DEF P

LEMMA SumNat ==
  ASSUME NEW S, IsFiniteSet(S), NEW f, \A x \in S : f[x] \in Nat
  PROVE  Sum(f, S) \in Nat /\ \A x \in S : f[x] <= Sum(f, S)
<1> DEFINE zero == [x \in S |-> 0]
<1>1. \A x \in S : f[x] \in Int /\ zero[x] \in Int /\ zero[x] <= f[x]
  OBVIOUS
<1>2. \A T \in SUBSET S : Sum(f, T) \in Nat
  <2> TAKE T \in SUBSET S
  <2>1. IsFiniteSet(T)
    BY FS_Subset
  <2>2. Sum(zero, T) = 0
    BY <2>1, SumZero
  <2>3. Sum(zero, T) <= Sum(f, T)
    <3> HIDE DEF zero
    <3> QED BY <1>1, <2>1, SumOrdered
  <2>4. Sum(f, T) \in Int
    BY <1>1, <2>1, SumInvariant
  <2> HIDE DEF zero
  <2> QED BY <2>2, <2>3, <2>4
<1>3. ASSUME NEW x \in S PROVE f[x] <= Sum(f, S)
  <2>1. Sum(f, S) = f[x] + Sum(f, S \ {x})
    BY <1>1, SumTakeOut
  <2>2. Sum(f, S \ {x}) \in Nat /\ f[x] \in Nat
    BY <1>2
  <2> QED BY <2>1, <2>2
<1> QED BY <1>2, <1>3

\* f and g are integers that differ at x only.
SameBut(f, g, S, x) ==
    \A y \in S : f[y] \in Int /\ g[y] \in Int /\ (y # x => g[y] = f[y])

\* One value changed changes the sum by as much.
LEMMA SumChanged ==
  ASSUME NEW S, IsFiniteSet(S), NEW f, NEW g, NEW x \in S, SameBut(f, g, S, x)
  PROVE  Sum(g, S) = Sum(f, S) - f[x] + g[x] /\ Sum(f, S) \in Int /\ Sum(g, S) \in Int
<1> USE DEF SameBut
<1>1. Sum(f, S) \in Int /\ Sum(f, S \ {x}) \in Int /\ Sum(f, S) = f[x] + Sum(f, S \ {x})
  BY SumTakeOut
<1>2. Sum(g, S) \in Int /\ Sum(g, S) = g[x] + Sum(g, S \ {x})
  BY SumTakeOut
<1>3. Sum(f, S \ {x}) = Sum(g, S \ {x})
  <2>1. IsFiniteSet(S \ {x})
    BY FS_RemoveElement
  <2> QED BY <2>1, SumAgree
<1> QED BY <1>1, <1>2, <1>3

\* h is f and g together.
Together(f, g, h, S) == \A x \in S : f[x] \in Int /\ g[x] \in Int /\ h[x] = f[x] + g[x]

LEMMA SumTogether ==
  ASSUME NEW S, IsFiniteSet(S), NEW f, NEW g, NEW h, Together(f, g, h, S)
  PROVE  Sum(h, S) = Sum(f, S) + Sum(g, S)
<1> DEFINE P == {n \in Nat : \A s \in SUBSET S : Cardinality(s) = n => Sum(h, s) = Sum(f, s) + Sum(g, s)}
<1>1. 0 \in P
  <2>1. \A s \in SUBSET S : Cardinality(s) = 0 => s = {}
    BY FS_EmptySet, FS_Subset
  <2>2. Sum(h, {}) = Sum(f, {}) + Sum(g, {})
    BY SumEmpty
  <2> QED BY <2>1, <2>2
<1>2. ASSUME NEW n \in Nat, n \in P PROVE n + 1 \in P
  <2>1. ASSUME NEW s \in SUBSET S, Cardinality(s) = n + 1 PROVE Sum(h, s) = Sum(f, s) + Sum(g, s)
    <3>1. s # {} /\ IsFiniteSet(s)
      BY <2>1, FS_EmptySet, FS_Subset
    <3>2. PICK x \in s : TRUE
      BY <3>1
    <3>3. s \ {x} \in SUBSET S /\ Cardinality(s \ {x}) = n
      <4> HIDE DEF P
      <4> QED BY <2>1, <3>2, Removed
    <3>4. Sum(h, s \ {x}) = Sum(f, s \ {x}) + Sum(g, s \ {x})
      BY <1>2, <3>3
    <3>5. \A y \in s : f[y] \in Int /\ g[y] \in Int /\ h[y] \in Int /\ h[y] = f[y] + g[y]
      BY DEF Together
    <3>6. Sum(f, s \ {x}) \in Int /\ Sum(f, s) = f[x] + Sum(f, s \ {x})
      BY <3>1, <3>5, SumTakeOut
    <3>7. Sum(g, s \ {x}) \in Int /\ Sum(g, s) = g[x] + Sum(g, s \ {x})
      BY <3>1, <3>5, SumTakeOut
    <3>8. Sum(h, s) = h[x] + Sum(h, s \ {x})
      BY <3>1, <3>5, SumTakeOut
    <3> HIDE DEF P
    <3> QED BY <3>4, <3>5, <3>6, <3>7, <3>8
  <2> QED BY <2>1
<1> HIDE DEF P
<1>3. Nat \subseteq P
  BY <1>1, <1>2, NatSetInduction
<1>4. Cardinality(S) \in Nat /\ S \in SUBSET S
  BY FS_CardinalityType
<1> QED BY <1>3, <1>4 DEF P

\* A sum over two sets apart.
LEMMA SumApart ==
  ASSUME NEW A, IsFiniteSet(A), NEW B, IsFiniteSet(B), A \cap B = {}, NEW f,
         \A x \in A \cup B : f[x] \in Int
  PROVE  Sum(f, A \cup B) = Sum(f, A) + Sum(f, B)
<1> DEFINE P == {n \in Nat : \A s \in SUBSET B : Cardinality(s) = n => Sum(f, A \cup s) = Sum(f, A) + Sum(f, s)}
<1>1. 0 \in P
  <2>1. \A s \in SUBSET B : Cardinality(s) = 0 => s = {}
    BY FS_EmptySet, FS_Subset
  <2>2. A \cup {} = A /\ Sum(f, {}) = 0 /\ Sum(f, A) \in Int
    BY SumEmpty, SumInvariant
  <2>3. Sum(f, A) + 0 = Sum(f, A)
    BY <2>2
  <2>4. Sum(f, A \cup {}) = Sum(f, A) + Sum(f, {})
    BY <2>2, <2>3, Zenon
  <2>5. \A s \in SUBSET B : Cardinality(s) = 0 => Sum(f, A \cup s) = Sum(f, A) + Sum(f, s)
    BY <2>1, <2>4, Zenon
  <2> QED BY <2>5
<1>2. ASSUME NEW n \in Nat, n \in P PROVE n + 1 \in P
  <2>1. ASSUME NEW s \in SUBSET B, Cardinality(s) = n + 1 PROVE Sum(f, A \cup s) = Sum(f, A) + Sum(f, s)
    <3>0. s # {} /\ IsFiniteSet(s)
      BY <2>1, FS_EmptySet, FS_Subset
    <3>1. s # {} /\ IsFiniteSet(s) /\ IsFiniteSet(A \cup s)
      BY <3>0, FS_Union
    <3>2. PICK x \in s : TRUE
      BY <3>1
    <3>3. s \ {x} \in SUBSET B /\ Cardinality(s \ {x}) = n
      <4> HIDE DEF P
      <4> QED BY <2>1, <3>2, Removed
    <3>4. Sum(f, A \cup (s \ {x})) = Sum(f, A) + Sum(f, s \ {x})
      BY <1>2, <3>3
    <3>5. x \in A \cup s /\ (A \cup s) \ {x} = A \cup (s \ {x}) /\ \A y \in A \cup s : f[y] \in Int
      BY <3>2
    <3>6. Sum(f, A \cup s) = f[x] + Sum(f, (A \cup s) \ {x})
      BY <3>1, <3>5, SumTakeOut
    <3>7. Sum(f, s \ {x}) \in Int /\ Sum(f, s) = f[x] + Sum(f, s \ {x}) /\ f[x] \in Int
      <4>1. \A y \in s : f[y] \in Int
        BY <3>5
      <4> QED BY <3>1, <3>2, <4>1, SumTakeOut
    <3>8. Sum(f, A) \in Int
      BY SumInvariant
    <3>9. Sum(f, A \cup s) = f[x] + (Sum(f, A) + Sum(f, s \ {x}))
      BY ONLY <3>4, <3>5, <3>6, Zenon
    <3>10. PICK a, b, c, d : a = Sum(f, A \cup s) /\ b = Sum(f, A) /\ c = Sum(f, s \ {x}) /\ d = Sum(f, s)
      OBVIOUS
    <3>11. a = f[x] + (b + c) /\ d = f[x] + c /\ b \in Int /\ c \in Int /\ f[x] \in Int
      BY ONLY <3>7, <3>8, <3>9, <3>10, Zenon
    <3>12. a = b + d
      BY ONLY <3>11
    <3> QED BY ONLY <3>10, <3>12, Zenon
  <2> QED BY <2>1
<1> HIDE DEF P
<1>3. Nat \subseteq P
  BY <1>1, <1>2, NatSetInduction
<1>4. Cardinality(B) \in Nat /\ B \in SUBSET B
  BY FS_CardinalityType
<1> QED BY <1>3, <1>4 DEF P

\* A sum over more is no less.
LEMMA SumGrows ==
  ASSUME NEW S, IsFiniteSet(S), NEW A \in SUBSET S, NEW f, \A x \in S : f[x] \in Nat
  PROVE  Sum(f, A) <= Sum(f, S) /\ Sum(f, A) \in Nat /\ Sum(f, S) \in Nat
<1>1. IsFiniteSet(A) /\ IsFiniteSet(S \ A) /\ A \cup (S \ A) = S /\ A \cap (S \ A) = {}
  BY FS_Subset
<1>2. \A x \in A \cup (S \ A) : f[x] \in Int
  OBVIOUS
<1>3. Sum(f, A \cup (S \ A)) = Sum(f, A) + Sum(f, S \ A)
  BY ONLY <1>1, <1>2, SumApart, ZenonT(30)
<1>4. Sum(f, A) \in Nat
  BY <1>1, SumNat
<1>5. Sum(f, S \ A) \in Nat
  BY <1>1, SumNat
<1>6. PICK a, b, c : a = Sum(f, S) /\ b = Sum(f, A) /\ c = Sum(f, S \ A)
  OBVIOUS
<1>7. a = b + c /\ b \in Nat /\ c \in Nat
  BY ONLY <1>1, <1>3, <1>4, <1>5, <1>6, Zenon
<1>8. b <= a /\ b \in Nat /\ a \in Nat
  BY ONLY <1>7
<1> QED BY ONLY <1>6, <1>8, Zenon

=============================================================================
