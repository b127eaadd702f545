----------------------------- MODULE MCSdk_proofs ---------------------------
(***************************************************************************)
(* Of the redemptions: no run of them, however split, beats one fee-free   *)
(* redemption of the same tokens.  Of the pages, the form, the amounts and *)
(* the accounts: what is shown is what is there and what gets signed, for  *)
(* every value of the constants.  Of the configs: the program refuses none *)
(* the SDK has built.  Each part has an inductive invariant of its own;    *)
(* SdkInv says that the part that is exercised keeps it.                   *)
(***************************************************************************)
EXTENDS MCSdk, Arithmetic_proofs, SequenceTheorems

(***************************************************************************)
(* RedeemSplits.                                                           *)
(***************************************************************************)

LEMMA DivGreatest ==
  ASSUME NEW q \in Nat, NEW x \in Nat, NEW d \in Nat, d > 0, q * d <= x
  PROVE  q <= x \div d
<1> DEFINE k == x \div d
<1>1. k \in Nat /\ x < k * d + d
  BY DivBounds
<1> HIDE DEF k
<1>2. (k + 1) * d = k * d + d
  BY <1>1
<1> SUFFICES ASSUME k + 1 <= q PROVE FALSE
  BY <1>1 DEF k
<1>3. (k + 1) * d <= q * d
  BY <1>1, MulMonotone
<1>4. q * d \in Int /\ k * d \in Int
  BY <1>1
<1> QED BY <1>1, <1>2, <1>3, <1>4

\* Floors are transitive as long as the supply in the middle is not empty.
LEMMA FloorTransitive ==
  ASSUME NEW v0 \in Nat, NEW s0 \in Nat, NEW v1 \in Nat, NEW s1 \in Nat,
         NEW v2 \in Nat, NEW s2 \in Nat, s1 > 0,
         v0 * s1 <= v1 * s0, v1 * s2 <= v2 * s1
  PROVE  v0 * s2 <= v2 * s0
<1> DEFINE x == v0 * s2
           y == v2 * s0
<1>1. x \in Nat /\ y \in Nat
  OBVIOUS
<1>2. (v0 * s1) * s2 <= (v1 * s0) * s2
  <2>1. v0 * s1 \in Nat /\ v1 * s0 \in Nat
    OBVIOUS
  <2> QED BY <2>1, MulMonotone
<1>3. (v1 * s2) * s0 <= (v2 * s1) * s0
  <2>1. v1 * s2 \in Nat /\ v2 * s1 \in Nat
    OBVIOUS
  <2> QED BY <2>1, MulMonotone
<1>4. /\ (v0 * s1) * s2 = x * s1
      /\ (v1 * s0) * s2 = (v1 * s2) * s0
      /\ (v2 * s1) * s0 = y * s1
  OBVIOUS
<1> HIDE DEF x, y
<1>5. x * s1 <= y * s1
  BY <1>1, <1>2, <1>3, <1>4
<1>6. x <= y
  BY <1>1, <1>5, MulCancel
<1> QED BY <1>6 DEF x, y

(***************************************************************************)
(* Inductive: the first floor, compared with the present one, survives     *)
(* every redemption because each redemption keeps the floor it finds.      *)
(***************************************************************************)
IInv ==
  /\ TypeOK
  /\ supply <= start.supply
  /\ vault <= start.vault
  /\ start.vault * supply <= vault * start.supply

LEMMA StartTypes ==
  ASSUME TypeOK
  PROVE  /\ start.vault \in Nat
         /\ start.supply \in Nat /\ start.supply > 0
         /\ start.bps \in Nat
<1>1. start.vault \in Vaults /\ start.supply \in Supplies /\ start.bps \in FeeChoices
  BY DEF TypeOK
<1>2. Vaults \subseteq Nat /\ Supplies \subseteq Nat \ {0} /\ FeeChoices \subseteq Nat
  BY SplitsAssumption DEF MaxExitFeeBps
<1>3. start.vault \in Nat /\ start.supply \in Nat \ {0} /\ start.bps \in Nat
  BY <1>1, <1>2, Zenon
<1> QED BY <1>3

LEMMA InitIInv == Init => IInv
<1> SUFFICES ASSUME Init PROVE IInv
  OBVIOUS
<1>1. TypeOK
  BY SplitsAssumption DEF Init, TypeOK
<1> QED BY <1>1, StartTypes DEF Init, IInv

LEMMA NextIInv == IInv /\ [Next]_vars => IInv'
<1> SUFFICES ASSUME IInv, [Next]_vars PROVE IInv'
  OBVIOUS
<1>0. TypeOK /\ vault \in Nat /\ supply \in Nat
  BY DEF IInv, TypeOK
<1>1. CASE UNCHANGED vars
  BY <1>1 DEF IInv, TypeOK, vars
<1>2. CASE Next
  <2>1. PICK a \in 1..supply : ApplyRedeem(a)
    BY <1>2 DEF Next
  <2>2. a \in Nat /\ a <= supply /\ supply > 0
    BY <1>0, <2>1
  <2> DEFINE n == Net(vault, supply, a, start.bps)
  <2>3. Redeemable(vault, supply, a, start.bps)
    BY <2>1 DEF ApplyRedeem
  <2>4. vault' = vault - n /\ supply' = supply - a /\ start' = start
    BY <2>1 DEF ApplyRedeem
  <2>5. n \in Nat /\ n <= vault
    BY <1>0, <2>2, <2>3, StartTypes, RedeemQuoteBounds DEF Redeemable
  <2>6. FloorNotDecreased(vault, supply, vault - n, supply - a)
    BY <1>0, <2>2, <2>3, StartTypes, RedeemKeepsFloor
  <2> HIDE DEF n
  <2>7. vault' \in Nat /\ supply' \in Nat /\ vault' <= vault /\ supply' <= supply
    BY <1>0, <2>2, <2>4, <2>5
  <2>8. vault * supply' <= vault' * supply
    <3>1. CASE supply' = 0
      <4>1. vault * supply' = 0
        BY <1>0, <3>1
      <4>2. vault' * supply \in Nat
        BY <1>0, <2>7, MulMonotone
      <4> QED BY <4>1, <4>2
    <3>2. CASE supply' # 0
      BY <1>0, <2>4, <2>6, <2>7, <3>2 DEF FloorNotDecreased
    <3> QED BY <3>1, <3>2
  <2>9. start.vault * supply' <= vault' * start.supply
    BY <1>0, <2>2, <2>7, <2>8, StartTypes, FloorTransitive DEF IInv
  <2> QED
    BY <1>0, <2>4, <2>7, <2>9, StartTypes DEF IInv, TypeOK
<1> QED BY <1>1, <1>2

LEMMA IInvImplies == IInv => TypeOK /\ FloorOutlastsRun /\ NoSplitBeatsOne
<1> SUFFICES ASSUME IInv PROVE FloorOutlastsRun /\ NoSplitBeatsOne
  BY DEF IInv
<1> DEFINE v0 == start.vault
           s0 == start.supply
<1>1. /\ v0 \in Nat /\ s0 \in Nat /\ s0 > 0 /\ vault \in Nat /\ supply \in Nat
      /\ supply <= s0 /\ vault <= v0 /\ v0 * supply <= vault * s0
  BY StartTypes DEF IInv, TypeOK
<1>2. FloorOutlastsRun
  BY <1>1 DEF FloorOutlastsRun, FloorNotDecreased
<1>3. v0 - vault <= ProRataFloor(v0, s0 - supply, s0)
  <2> HIDE DEF v0, s0
  <2>1. (v0 - vault) * s0 = v0 * s0 - vault * s0
    BY <1>1
  <2>2. v0 * (s0 - supply) = v0 * s0 - v0 * supply
    BY <1>1
  <2>3. /\ v0 * s0 \in Int /\ vault * s0 \in Int /\ v0 * supply \in Int
        /\ v0 - vault \in Nat /\ s0 - supply \in Nat /\ v0 * (s0 - supply) \in Nat
    BY <1>1
  <2>4. (v0 - vault) * s0 <= v0 * (s0 - supply)
    BY <1>1, <2>1, <2>2, <2>3
  <2> QED BY <1>1, <2>3, <2>4, DivGreatest DEF ProRataFloor
<1> QED BY <1>2, <1>3 DEF NoSplitBeatsOne, Paid, Burned

(***************************************************************************)
(* The floor after any run of redemptions is at least the first one, and   *)
(* together they were paid at most one fee-free redemption of the same     *)
(* amount (math.rs apply_redeem; architecture.md section 5, "Splits").     *)
(***************************************************************************)
THEOREM SplitsNeverWin == Spec => [](TypeOK /\ FloorOutlastsRun /\ NoSplitBeatsOne)
BY InitIInv, NextIInv, IInvImplies, PTL DEF Spec

\* A fee on a positive amount is at least one unit.
LEMMA FeePositive ==
  ASSUME NEW g \in Nat, NEW bps \in Nat, g > 0, bps > 0
  PROVE  FeeCeil(g, bps) >= 1
<1> DEFINE x == g * bps
           q == (x + 9999) \div 10000
<1>1. x \in Nat /\ x >= 1
  OBVIOUS
<1> HIDE DEF x
<1>2. q \in Nat /\ q >= 1
  BY <1>1
<1>3. FeeCeil(g, bps) = q
  BY DEF FeeCeil, BpsDenominator, x
<1> QED BY <1>2, <1>3

\* The unit kept is what the floor of the others rises by.
LEMMA KeptFeeRaises ==
  ASSUME NEW v \in Nat, NEW s \in Nat, NEW a \in Nat, NEW bps \in Nat,
         Redeemable(v, s, a, bps), bps > 0, a < s
  PROVE  (v - Net(v, s, a, bps)) * s > v * (s - a)
<1> DEFINE g == Gross(v, s, a)
           fee == Fee(v, s, a, bps)
           n == Net(v, s, a, bps)
<1>1. /\ g \in Nat /\ g <= v /\ g * s <= v * a /\ fee \in Nat
      /\ s > 0 /\ n > 0 /\ n = g - fee
  BY RedeemQuoteBounds DEF Redeemable, Net
<1>2. fee >= 1
  <2>1. g > 0
    BY <1>1
  <2> QED BY <1>1, <2>1, FeePositive DEF Fee
<1> HIDE DEF g, fee, n
<1>3. n \in Nat /\ n + 1 <= g
  BY <1>1, <1>2
<1>4. (n + 1) * s <= g * s
  BY <1>1, <1>3, MulMonotone
<1>5. (n + 1) * s = n * s + s
  BY <1>3
<1>6. /\ (v - n) * s = v * s - n * s /\ v * (s - a) = v * s - v * a
      /\ v * s \in Int /\ n * s \in Int /\ v * a \in Int /\ g * s \in Int
  BY <1>1, <1>3
<1>7. n * s < v * a
  BY <1>1, <1>4, <1>5, <1>6
<1> QED BY <1>6, <1>7 DEF n

(***************************************************************************)
(* A redemption that keeps a fee strictly raises the floor of the tokens   *)
(* that remain (math.rs floor_increased).                                  *)
(***************************************************************************)
THEOREM KeptFeeTheorem == Spec => KeptFeeRaisesFloor
<1>1. IInv /\ [Next]_vars => [(start.bps > 0 /\ supply' > 0) => vault' * supply > vault * supply']_vars
  <2> SUFFICES ASSUME IInv, Next, start.bps > 0, supply' > 0
               PROVE  vault' * supply > vault * supply'
    OBVIOUS
  <2>1. vault \in Nat /\ supply \in Nat /\ TypeOK
    BY DEF IInv, TypeOK
  <2>2. PICK a \in 1..supply : ApplyRedeem(a)
    BY DEF Next
  <2>3. a \in Nat /\ a < supply
    BY <2>1, <2>2 DEF ApplyRedeem
  <2>4. (vault - Net(vault, supply, a, start.bps)) * supply > vault * (supply - a)
    BY <2>1, <2>2, <2>3, StartTypes, KeptFeeRaises DEF ApplyRedeem
  <2> QED BY <2>2, <2>4 DEF ApplyRedeem
<1> QED BY <1>1, InitIInv, NextIInv, PTL DEF Spec, KeptFeeRaisesFloor

\* A redemption pays no more than there is, and the floor of the others does not fall.
LEMMA RedemptionRaises ==
  ASSUME NEW v \in Nat, NEW s \in Nat, NEW a \in Nat, NEW bps \in Nat, s > 0, a <= s, bps <= 10000
  PROVE  LET n == Net(v, s, a, bps)
         IN  n \in Nat /\ n <= v /\ v * (s - a) <= (v - n) * s
<1> DEFINE g == Gross(v, s, a)
           n == Net(v, s, a, bps)
<1>1. /\ g \in Nat /\ g <= v /\ g * s <= v * a
      /\ Fee(v, s, a, bps) \in Nat /\ Fee(v, s, a, bps) <= g
  BY RedeemQuoteBounds DEF BpsDenominator
<1>2. n \in Nat /\ n <= v /\ n <= g
  BY <1>1 DEF Net
<1> HIDE DEF g, n
<1>3. n * s <= g * s /\ g * s \in Nat /\ n * s \in Nat
  BY <1>1, <1>2, MulMonotone
<1>4. v * (s - a) = v * s - v * a /\ (v - n) * s = v * s - n * s
  BY <1>2
<1>5. v * s \in Int /\ v * a \in Int
  OBVIOUS
<1>6. v * (s - a) <= (v - n) * s
  BY <1>1, <1>3, <1>4, <1>5
<1> QED BY <1>2, <1>6 DEF n

(***************************************************************************)
(* QuoteAmounts.                                                           *)
(***************************************************************************)

\* The loss a page computed from a vault and a supply it had read, told whole: the ratio
\* of what is missing of the price to the price.
LossFrom(loss, paid, tokens, v, s) ==
  \/ loss.n = 0 /\ loss.d = 1 /\ paid * s <= v * tokens
  \/ \E k \in Nat \ {0} : loss.d = k * (paid * s) /\ loss.n = k * (paid * s - v * tokens)

\* What the form holds.
Entered(form, held) ==
  \/ /\ form.is = "amount" /\ form.ui \in Nat
     /\ \A m \in Multipliers : form.max = {m} => form.ui = (held * m) \div 2
  \/ /\ form.is = "tokens" /\ form.paid \in Nat /\ form.tokens \in Nat \ {0}
     /\ \E v \in Nat, s \in Nat \ {0} :
           /\ v * quoteSupply <= quoteVault * s
           /\ LossFrom(form.loss, form.paid, form.tokens, v, s)
  \/ /\ form.is = "launch"
     /\ form.of \in Multipliers /\ form.multiplier \in Multipliers
     /\ form.raw = Quotes!Threshold(Quotes!JupiterPrice(form.of), form.multiplier)

\* Inductive: what a page has read is a floor that has only risen since, and what was
\* computed from it is told in terms of that floor.
AmountsInv ==
  /\ now \in 0..MaxTime
  /\ quoteVault \in Nat /\ quoteSupply \in Nat \ {0} /\ balance \in Nat
  /\ config \in [multiplier : Multipliers, newMultiplier : Multipliers, at : 0..MaxTime]
  /\ price \in [of : Multipliers, at : 0..MaxTime]
  /\ seen \in [vault : Nat, supply : Nat \ {0}, multiplier : Multipliers, of : Multipliers]
  /\ seen.vault * quoteSupply <= quoteVault * seen.supply
  /\ Entered(typed, balance)

LEMMA InForceType ==
  ASSUME AmountsInv
  PROVE  Quotes!InForce \in Multipliers
BY DEF AmountsInv, Quotes!InForce, Quotes!EffectiveMultiplier

LEMMA AmountsInit == Quotes!Init => AmountsInv
<1> SUFFICES ASSUME Quotes!Init PROVE AmountsInv
  OBVIOUS
<1>1. PICK m \in Multipliers :
         /\ config = [multiplier |-> m, newMultiplier |-> m, at |-> 0]
         /\ price = [of |-> m, at |-> 0]
         /\ seen = [vault |-> 5, supply |-> 3, multiplier |-> m, of |-> m]
  BY DEF Quotes!Init
<1>2. now = 0 /\ quoteVault = 5 /\ quoteSupply = 3 /\ balance = 3 /\ 0 \in 0..MaxTime
  BY SdkAssumption DEF Quotes!Init
<1>3. Entered(typed, balance)
  <2>1. typed = [is |-> "amount", ui |-> 0, max |-> {}]
    BY DEF Quotes!Init, Quotes!NoAmount, Quotes!Typed
  <2>2. \A n \in Multipliers : typed.max # {n}
    BY <2>1
  <2> QED BY <2>1, <2>2 DEF Entered
<1> QED BY <1>1, <1>2, <1>3 DEF AmountsInv

\* Rounded up, the threshold is worth what was asked; a raw unit less is not.
LEMMA ThresholdWorth ==
  ASSUME NEW m \in Nat \ {0}
  PROVE  LET raw == Quotes!Threshold(Quotes!JupiterPrice(m), m)
         IN  raw \in Nat /\ raw * 7 >= 50 /\ (raw - 1) * 7 < 50
<1> DEFINE d == 14 * m
           n == 100 * m
           raw == (n + d - 1) \div d
<1>1. d \in Nat /\ d > 0 /\ n \in Nat /\ n + d - 1 \in Nat
  OBVIOUS
<1>2. raw \in Nat /\ raw * d <= n + d - 1 /\ n + d - 1 < raw * d + d
  BY <1>1, DivBounds
<1>3. Quotes!Threshold(Quotes!JupiterPrice(m), m) = raw
  <2>1. Quotes!Threshold(Quotes!JupiterPrice(m), m) = Quotes!Ceil(5 * 10 * m * 2, (7 * 2) * m)
    BY DEF Quotes!Threshold, Quotes!JupiterPrice, Quotes!UsdToQuoteRaw
  <2>2. 5 * 10 * m * 2 = n /\ (7 * 2) * m = d
    OBVIOUS
  <2> QED BY <2>1, <2>2 DEF Quotes!Ceil
<1> HIDE DEF raw
<1>4. raw * d = (raw * 14) * m
  BY <1>2
<1>5. 100 * m < (raw * 14) * m + 1 /\ (raw * 14) * m <= 100 * m + 14 * m - 1
  BY <1>1, <1>2, <1>4
<1>6. raw * 14 >= 100
  <2> SUFFICES ASSUME raw * 14 + 1 <= 100 PROVE FALSE
    BY <1>2
  <2>1. (raw * 14 + 1) * m <= 100 * m
    BY <1>2, MulMonotone
  <2>2. (raw * 14 + 1) * m = (raw * 14) * m + m
    BY <1>2
  <2> QED BY <1>2, <1>5, <2>1, <2>2
<1>7. raw * 14 < 114
  <2> SUFFICES ASSUME 114 <= raw * 14 PROVE FALSE
    BY <1>2
  <2>1. 114 * m <= (raw * 14) * m
    BY <1>2, MulMonotone
  <2> QED BY <1>2, <1>5, <2>1
<1> QED BY <1>2, <1>3, <1>6, <1>7

\* What is shown of a balance is never more than it, and less than a digit and a unit short.
LEMMA ShownRaw ==
  ASSUME NEW b \in Nat, NEW m \in Nat \ {0}
  PROVE  LET ui == (b * m) \div 2
             raw == (ui * 2) \div m
         IN  ui \in Nat /\ raw \in Nat /\ raw <= b /\ (b - raw - 1) * m < 2
<1> DEFINE x == b * m
           ui == x \div 2
           y == ui * 2
           raw == y \div m
<1>1. x \in Nat /\ ui \in Nat /\ y \in Nat /\ y <= x /\ x < y + 2
  BY DivBounds
<1> HIDE DEF ui
<1>2. raw \in Nat /\ raw * m <= y /\ y < raw * m + m
  BY <1>1, DivBounds
<1> HIDE DEF raw
<1>3. raw * m <= b * m
  BY <1>1, <1>2
<1>4. raw <= b
  BY <1>2, <1>3, MulCancel
<1>5. (b - raw - 1) * m = b * m - raw * m - m
  BY <1>2
<1>6. b * m \in Nat /\ raw * m \in Nat
  BY <1>2
<1>7. (b - raw - 1) * m < 2
  BY <1>1, <1>2, <1>5, <1>6
<1> QED BY <1>1, <1>2, <1>4, <1>7 DEF ui, raw

\* The label of a buy, in terms of the floor the page had read.
LEMMA RiskIsLoss ==
  ASSUME NEW paid \in Nat, NEW tokens \in Nat \ {0}, NEW v \in Nat, NEW s \in Nat \ {0},
         NEW m \in Nat \ {0}, NEW of \in Nat \ {0},
         seen = [vault |-> v, supply |-> s, multiplier |-> m, of |-> of]
  PROVE  LossFrom(Quotes!BuyRisk([paid |-> paid, tokens |-> tokens]), paid, tokens, v, s)
<1> DEFINE buy == [paid |-> paid, tokens |-> tokens]
           p == [n |-> paid * m * (7 * 2), d |-> tokens * 10 * 2 * of]
           f == [n |-> v * m * (7 * 2), d |-> s * 10 * 2 * of]
           k == (m * (7 * 2)) * (10 * 2 * of)
           a == paid * s
           c == v * tokens
<1>1. Quotes!BuyRisk(buy) = Quotes!MaxLossFraction(p, f)
  BY DEF Quotes!BuyRisk, Quotes!BuyAveragePriceUsd, Quotes!LaunchFloorUsd, Quotes!QuoteRawToUsd, Quotes!JupiterPrice
<1>2. k \in Nat \ {0} /\ a \in Nat /\ c \in Nat
  OBVIOUS
<1>3. p.n * f.d = k * a
  OBVIOUS
<1>4. f.n * p.d = k * c
  OBVIOUS
<1>5. Quotes!MaxLossFraction(p, f) =
        IF k * a <= k * c THEN [n |-> 0, d |-> 1] ELSE [n |-> k * a - k * c, d |-> k * a]
  BY <1>3, <1>4 DEF Quotes!MaxLossFraction
<1> HIDE DEF p, f, k
<1>6. k * a = a * k /\ k * c = c * k /\ k * (a - c) = k * a - k * c
  BY <1>2
<1>7. CASE k * a <= k * c
  <2>1. a <= c
    BY <1>2, <1>6, <1>7, MulCancel
  <2> QED BY <1>1, <1>5, <1>7, <2>1 DEF LossFrom
<1>8. CASE ~(k * a <= k * c)
  <2>1. Quotes!BuyRisk(buy) = [n |-> k * (a - c), d |-> k * a]
    BY <1>1, <1>5, <1>6, <1>8
  <2> HIDE DEF a, c
  <2>2. Quotes!BuyRisk(buy).d = k * a /\ Quotes!BuyRisk(buy).n = k * (a - c)
    BY <2>1
  <2> QED BY <1>2, <2>2 DEF LossFrom, a, c
<1> QED BY <1>7, <1>8

\* Whatever the vault and the supply have become, as long as the floor has not fallen, the
\* loss told at most misses the exit fee and a raw unit.
LEMMA LossStaysBound ==
  ASSUME NEW paid \in Nat, NEW tokens \in Nat \ {0}, NEW v \in Nat, NEW s \in Nat \ {0},
         NEW v1 \in Nat, NEW s1 \in Nat \ {0}, v * s1 <= v1 * s,
         NEW loss, LossFrom(loss, paid, tokens, v, s)
  PROVE  LET gross == ProRataFloor(v1, tokens, s1)
         IN  (paid - gross - 1) * loss.d <= loss.n * paid
<1> DEFINE gross == (v1 * tokens) \div s1
           early == (v * tokens) \div s
<1>1. /\ v * tokens \in Nat /\ v1 * tokens \in Nat /\ gross \in Nat /\ early \in Nat
      /\ v * tokens < early * s + s
  BY DivBounds
<1>2. early <= gross
  BY QuotientMonotone
<1>3. early * s + s = (early + 1) * s /\ (early + 1) * s <= (gross + 1) * s
  BY <1>1, <1>2, MulMonotone
<1>4. ProRataFloor(v1, tokens, s1) = gross
  BY DEF ProRataFloor
<1> HIDE DEF gross, early
<1> DEFINE short == paid - gross - 1
           a == paid * s
           c == v * tokens
<1>5. a \in Nat /\ c \in Nat /\ c <= (gross + 1) * s /\ (gross + 1) * s \in Nat
  BY <1>1, <1>3
<1>6. short * s = a - (gross + 1) * s /\ short \in Int
  BY <1>1
<1>7. short * s <= a - c
  BY <1>5, <1>6
<1> HIDE DEF short, a, c
<1>8. CASE loss.n = 0 /\ loss.d = 1 /\ a <= c
  <2>1. short * s \in Int /\ short * s <= 0
    <3> DEFINE x == short * s
    <3>1. x \in Int /\ x <= a - c
      BY <1>6, <1>7
    <3> HIDE DEF x
    <3>2. x <= 0
      BY <1>5, <1>8, <3>1
    <3> QED BY <3>1, <3>2 DEF x
  <2>2. short <= 0
    <3> SUFFICES ASSUME 1 <= short PROVE FALSE
      BY <1>6
    <3>1. 1 * s <= short * s /\ 1 * s = s
      BY <1>6, MulMonotone
    <3> DEFINE x == short * s
    <3>2. x \in Int /\ x <= 0 /\ s <= x
      BY <2>1, <3>1
    <3> HIDE DEF x
    <3> QED BY <3>2
  <2>3. short * loss.d = short /\ loss.n * paid = 0
    BY <1>6, <1>8
  <2> QED BY <1>4, <2>2, <2>3 DEF short
<1>9. CASE \E k \in Nat \ {0} : loss.d = k * a /\ loss.n = k * (a - c)
  <2>1. PICK k \in Nat \ {0} : loss.d = k * a /\ loss.n = k * (a - c)
    BY <1>9
  <2>2. short * (k * a) = (short * s) * (k * paid)
    BY <1>6 DEF a
  <2>3. (k * (a - c)) * paid = (a - c) * (k * paid)
    BY <1>5
  <2>4. k * paid \in Nat /\ short * s \in Int /\ a - c \in Int
    BY <1>5, <1>6
  <2>5. (short * s) * (k * paid) <= (a - c) * (k * paid)
    <3> DEFINE x == short * s
               y == a - c
               z == k * paid
    <3>1. x \in Int /\ y \in Int /\ z \in Nat /\ x <= y
      BY <1>7, <2>4
    <3> HIDE DEF x, y, z
    <3>2. (y - x) * z \in Nat /\ (y - x) * z = y * z - x * z /\ x * z \in Int /\ y * z \in Int
      BY <3>1
    <3>3. x * z <= y * z
      BY <3>2
    <3> QED BY <3>3 DEF x, y, z
  <2> QED BY <1>4, <2>1, <2>2, <2>3, <2>5 DEF short
<1> QED BY <1>8, <1>9 DEF LossFrom, a, c
\* Others move the vault and the supply, and the floor never falls.
LEMMA FloorRises ==
  ASSUME AmountsInv, quoteVault' \in Nat, quoteSupply' \in Nat \ {0},
         quoteVault * quoteSupply' <= quoteVault' * quoteSupply,
         UNCHANGED <<now, config, price, seen, balance, typed>>
  PROVE  AmountsInv'
<1>1. \A v \in Nat, s \in Nat \ {0} :
         v * quoteSupply <= quoteVault * s => v * quoteSupply' <= quoteVault' * s
  <2>1. quoteVault \in Nat /\ quoteSupply \in Nat /\ quoteSupply > 0 /\ quoteSupply' \in Nat
    BY DEF AmountsInv
  <2> SUFFICES ASSUME NEW v \in Nat, NEW s \in Nat \ {0}, v * quoteSupply <= quoteVault * s
               PROVE  v * quoteSupply' <= quoteVault' * s
    OBVIOUS
  <2> QED BY <2>1, FloorTransitive
<1>2. seen'.vault * quoteSupply' <= quoteVault' * seen'.supply
  BY <1>1 DEF AmountsInv
<1>3. Entered(typed, balance)'
  <2>1. typed' = typed /\ balance' = balance /\ Entered(typed, balance)
    BY DEF AmountsInv
  <2>2. CASE typed.is = "tokens"
    <3>1. PICK v \in Nat, s \in Nat \ {0} :
             v * quoteSupply <= quoteVault * s /\ LossFrom(typed.loss, typed.paid, typed.tokens, v, s)
      BY <2>1, <2>2 DEF Entered
    <3>2. v * quoteSupply' <= quoteVault' * s
      BY <1>1, <3>1
    <3>3. typed.paid \in Nat /\ typed.tokens \in Nat \ {0}
      BY <2>1, <2>2 DEF Entered
    <3> QED BY <2>1, <2>2, <3>1, <3>2, <3>3 DEF Entered
  <2>3. CASE typed.is # "tokens"
    BY <2>1, <2>3 DEF Entered
  <2> QED BY <2>2, <2>3
<1> QED BY <1>2, <1>3 DEF AmountsInv

LEMMA RedeemOneRaises == AmountsInv /\ Quotes!RedeemOne => AmountsInv'
<1> SUFFICES ASSUME AmountsInv, Quotes!RedeemOne PROVE AmountsInv'
  OBVIOUS
<1> DEFINE v == quoteVault
           s == quoteSupply
           n == Net(v, s, 1, 500)
<1>1. v \in Nat /\ s \in Nat /\ s > 2 /\ AmountsInv
  BY DEF AmountsInv, Quotes!RedeemOne
<1>2. /\ quoteVault' = v - n /\ quoteSupply' = s - 1
      /\ UNCHANGED <<now, config, price, seen, balance, typed>>
  BY DEF Quotes!RedeemOne, Quotes!ProRataFloor, Quotes!FeeCeil, Quotes!BpsDenominator,
         Net, Gross, Fee, ProRataFloor, FeeCeil, BpsDenominator
<1>3. n \in Nat /\ n <= v /\ v * (s - 1) <= (v - n) * s
  BY <1>1, RedemptionRaises
<1> HIDE DEF n
<1>4. v - n \in Nat /\ s - 1 \in Nat \ {0}
  BY <1>1, <1>3
<1> QED BY <1>1, <1>2, <1>3, <1>4, FloorRises

LEMMA AmountsNext == AmountsInv /\ [Quotes!Next]_amountVars => AmountsInv'
<1> SUFFICES ASSUME AmountsInv, [Quotes!Next]_amountVars PROVE AmountsInv'
  OBVIOUS
<1>0. Multipliers \subseteq Nat \ {0} /\ MaxTime \in Nat
  BY SdkAssumption
<1>1. CASE UNCHANGED amountVars
  BY <1>1 DEF AmountsInv, Entered, LossFrom, amountVars
<1>2. CASE Quotes!Tick
  <2>1. now' = now + 1 /\ now < MaxTime /\ UNCHANGED <<config, price, quoteVault, quoteSupply, seen, balance, typed>>
    BY <1>2 DEF Quotes!Tick
  <2>2. now' \in 0..MaxTime
    BY <1>0, <2>1 DEF AmountsInv
  <2>3. Entered(typed, balance)'
    BY <2>1 DEF AmountsInv, Entered
  <2> QED BY <2>1, <2>2, <2>3 DEF AmountsInv
<1>3. CASE Quotes!UpdateMultiplier
  <2>1. UNCHANGED <<now, price, quoteVault, quoteSupply, seen, balance, typed>>
    BY <1>3 DEF Quotes!UpdateMultiplier
  <2>2. config' \in [multiplier : Multipliers, newMultiplier : Multipliers, at : 0..MaxTime]
    <3>1. PICK m \in Multipliers, at \in now..MaxTime :
             config' = [multiplier |-> Quotes!InForce, newMultiplier |-> m, at |-> at]
      BY <1>3 DEF Quotes!UpdateMultiplier
    <3>2. at \in 0..MaxTime
      BY <1>0 DEF AmountsInv
    <3> QED BY <3>1, <3>2, InForceType
  <2>3. Entered(typed, balance)'
    BY <2>1 DEF AmountsInv, Entered
  <2> QED BY <2>1, <2>2, <2>3 DEF AmountsInv
<1>4. CASE Quotes!Harvest
  <2>1. quoteVault' = quoteVault + 1 /\ UNCHANGED <<now, config, price, quoteSupply, seen, balance, typed>>
    BY <1>4 DEF Quotes!Harvest
  <2>2. quoteVault \in Nat /\ quoteSupply \in Nat \ {0} /\ quoteVault' \in Nat
    BY <2>1 DEF AmountsInv
  <2>3. quoteVault * quoteSupply <= quoteVault' * quoteSupply
    BY <2>1, <2>2, MulMonotone
  <2> QED BY <2>1, <2>2, <2>3, FloorRises
<1>5. CASE Quotes!RedeemOne
  BY <1>5, RedeemOneRaises
<1>6. CASE Quotes!GetQuoteMarkets
  <2>1. UNCHANGED <<now, config, quoteVault, quoteSupply, balance, typed>>
    BY <1>6 DEF Quotes!GetQuoteMarkets
  <2>2. price' \in [of : Multipliers, at : 0..MaxTime]
    BY <1>6, InForceType DEF Quotes!GetQuoteMarkets, AmountsInv
  <2>3. seen' = [vault |-> quoteVault, supply |-> quoteSupply, multiplier |-> Quotes!InForce, of |-> price'.of]
    BY <1>6 DEF Quotes!GetQuoteMarkets
  <2>4. seen' \in [vault : Nat, supply : Nat \ {0}, multiplier : Multipliers, of : Multipliers]
    BY <2>2, <2>3, InForceType DEF AmountsInv
  <2>5. seen'.vault * quoteSupply' <= quoteVault' * seen'.supply
    BY <2>1, <2>3 DEF AmountsInv
  <2>6. Entered(typed, balance)'
    BY <2>1 DEF AmountsInv, Entered
  <2> QED BY <2>1, <2>2, <2>4, <2>5, <2>6 DEF AmountsInv
<1>7. CASE Quotes!Type
  <2>1. UNCHANGED <<now, config, price, quoteVault, quoteSupply, seen, balance>>
    BY <1>7 DEF Quotes!Type
  <2>2. PICK ui \in 1..Quotes!FormatTokenAmount(balance, seen.multiplier) :
           typed' = [is |-> "amount", ui |-> ui, max |-> {}]
    BY <1>7 DEF Quotes!Type, Quotes!Typed
  <2>3. ui \in Nat /\ \A m : typed'.max # {m}
    BY <2>2
  <2>4. Entered(typed, balance)'
    BY <2>2, <2>3 DEF Entered
  <2> QED BY <2>1, <2>4 DEF AmountsInv
<1>8. CASE Quotes!Max
  <2>1. UNCHANGED <<now, config, price, quoteVault, quoteSupply, seen, balance>>
    BY <1>8 DEF Quotes!Max
  <2> DEFINE m == seen.multiplier
  <2>2. typed' = [is |-> "amount", ui |-> (balance * m) \div 2, max |-> {m}]
    BY <1>8 DEF Quotes!Max, Quotes!Typed, Quotes!FormatTokenAmount
  <2>3. m \in Nat \ {0} /\ balance \in Nat
    BY <1>0 DEF AmountsInv
  <2>4. (balance * m) \div 2 \in Nat
    BY <2>3, ShownRaw
  <2>5. Entered(typed, balance)'
    BY <2>1, <2>2, <2>4 DEF Entered
  <2> QED BY <2>1, <2>5 DEF AmountsInv
<1>9. CASE Quotes!Pay
  <2>1. UNCHANGED <<now, config, price, quoteVault, quoteSupply, seen>>
    BY <1>9 DEF Quotes!Pay
  <2>2. typed' = [is |-> "amount", ui |-> 0, max |-> {}] /\ balance' = balance - Quotes!AmountRaw
    BY <1>9 DEF Quotes!Pay, Quotes!NoAmount, Quotes!Typed
  <2>3. Quotes!AmountRaw \in Int /\ Quotes!AmountRaw > 0 /\ ~(Quotes!AmountRaw > balance)
    <3>1. typed.ui \in Nat /\ seen.multiplier \in Nat \ {0}
      BY <1>0, <1>9 DEF AmountsInv, Entered, Quotes!Pay
    <3>2. Quotes!AmountRaw \in Nat
      <4>1. typed.ui * 2 \in Nat
        BY <3>1
      <4> QED BY <3>1, <4>1, DivBounds DEF Quotes!AmountRaw, Quotes!UiToRaw
    <3> QED BY <1>9, <3>2 DEF Quotes!Pay, Quotes!InputError
  <2>4. balance' \in Nat
    BY <2>2, <2>3 DEF AmountsInv
  <2>5. \A m : typed'.max # {m}
    BY <2>2
  <2>6. Entered(typed, balance)'
    BY <2>2, <2>5 DEF Entered
  <2> QED BY <2>1, <2>4, <2>6 DEF AmountsInv
<1>10. CASE Quotes!Buy
  <2>1. UNCHANGED <<now, config, price, quoteVault, quoteSupply, seen, balance>>
    BY <1>10 DEF Quotes!Buy
  <2>2. PICK buy \in {[paid |-> 4, tokens |-> 1], [paid |-> 9, tokens |-> 2]} :
           typed' = [is |-> "tokens", paid |-> buy.paid, tokens |-> buy.tokens, loss |-> Quotes!BuyRisk(buy)]
    BY <1>10 DEF Quotes!Buy
  <2>3. buy.paid \in Nat /\ buy.tokens \in Nat \ {0} /\ buy = [paid |-> buy.paid, tokens |-> buy.tokens]
    OBVIOUS
  <2>4. /\ seen.vault \in Nat /\ seen.supply \in Nat \ {0}
        /\ seen.multiplier \in Nat \ {0} /\ seen.of \in Nat \ {0}
        /\ seen = [vault |-> seen.vault, supply |-> seen.supply, multiplier |-> seen.multiplier, of |-> seen.of]
        /\ seen.vault * quoteSupply <= quoteVault * seen.supply
    BY <1>0 DEF AmountsInv
  <2>5. LossFrom(Quotes!BuyRisk(buy), buy.paid, buy.tokens, seen.vault, seen.supply)
    BY <2>3, <2>4, RiskIsLoss
  <2>6. Entered(typed, balance)'
    BY <2>1, <2>2, <2>3, <2>4, <2>5 DEF Entered
  <2> QED BY <2>1, <2>6 DEF AmountsInv
<1>11. CASE Quotes!PrepareLaunch
  <2>1. UNCHANGED <<now, config, price, quoteVault, quoteSupply, seen, balance>>
    BY <1>11 DEF Quotes!PrepareLaunch
  <2>2. typed' = [is |-> "launch", raw |-> Quotes!Threshold(Quotes!JupiterPrice(seen.of), Quotes!InForce),
                  of |-> seen.of, multiplier |-> Quotes!InForce]
    BY <1>11 DEF Quotes!PrepareLaunch
  <2>3. Entered(typed, balance)'
    BY <2>2, InForceType DEF Entered, AmountsInv
  <2> QED BY <2>1, <2>3 DEF AmountsInv
<1>12. CASE Quotes!Done
  <2>1. UNCHANGED <<now, config, price, quoteVault, quoteSupply, seen, balance>>
    BY <1>12 DEF Quotes!Done
  <2>2. typed' = [is |-> "amount", ui |-> 0, max |-> {}]
    BY <1>12 DEF Quotes!Done, Quotes!NoAmount, Quotes!Typed
  <2>3. \A m : typed'.max # {m}
    BY <2>2
  <2>4. Entered(typed, balance)'
    BY <2>2, <2>3 DEF Entered
  <2> QED BY <2>1, <2>4 DEF AmountsInv
<1> QED
  BY <1>1, <1>2, <1>3, <1>4, <1>5, <1>6, <1>7, <1>8, <1>9, <1>10, <1>11, <1>12 DEF Quotes!Next

AmountsHold == Quotes!TypeOK /\ Quotes!MaxIsHeld /\ Quotes!ThresholdAsked /\ Quotes!LossBound

LEMMA AmountsInvImplies == AmountsInv => AmountsHold
<1> SUFFICES ASSUME AmountsInv PROVE AmountsHold
  OBVIOUS
<1>0. Multipliers \subseteq Nat \ {0} /\ balance \in Nat /\ seen.multiplier \in Multipliers
  BY SdkAssumption DEF AmountsInv
<1>1. Quotes!TypeOK
  BY DEF AmountsInv, Quotes!TypeOK
<1>2. Quotes!MaxIsHeld
  <2>1. ASSUME typed.is = "amount", typed.max = {seen.multiplier}
        PROVE  ~Quotes!InputError /\ (balance - Quotes!AmountRaw - 1) * seen.multiplier < 2
    <3>1. typed.ui = (balance * seen.multiplier) \div 2
      BY <1>0, <2>1 DEF AmountsInv, Entered
    <3>2. Quotes!AmountRaw = (((balance * seen.multiplier) \div 2) * 2) \div seen.multiplier
      BY <3>1 DEF Quotes!AmountRaw, Quotes!UiToRaw
    <3>3. /\ Quotes!AmountRaw \in Nat /\ Quotes!AmountRaw <= balance
          /\ (balance - Quotes!AmountRaw - 1) * seen.multiplier < 2
      BY <1>0, <3>2, ShownRaw
    <3> QED BY <1>0, <3>3 DEF Quotes!InputError
  <2>2. \A m \in Multipliers : Quotes!UiToRaw(Quotes!FormatTokenAmount(balance, m), m) <= balance
    BY <1>0, ShownRaw DEF Quotes!UiToRaw, Quotes!FormatTokenAmount
  <2> QED BY <2>1, <2>2 DEF Quotes!MaxIsHeld
<1>3. Quotes!ThresholdAsked
  <2> SUFFICES ASSUME typed.is = "launch", typed.of = typed.multiplier
               PROVE  typed.raw * 7 >= 5 * 10 /\ (typed.raw - 1) * 7 < 5 * 10
    BY DEF Quotes!ThresholdAsked
  <2>1. /\ typed.of \in Nat \ {0}
        /\ typed.raw = Quotes!Threshold(Quotes!JupiterPrice(typed.of), typed.of)
    BY <1>0 DEF AmountsInv, Entered
  <2>2. typed.raw \in Nat /\ typed.raw * 7 >= 50 /\ (typed.raw - 1) * 7 < 50
    BY <2>1, ThresholdWorth
  <2> QED BY <2>2
<1>4. Quotes!LossBound
  <2> SUFFICES ASSUME typed.is = "tokens"
               PROVE  (typed.paid - ProRataFloor(quoteVault, typed.tokens, quoteSupply) - 1) * typed.loss.d
                        <= typed.loss.n * typed.paid
    BY DEF Quotes!LossBound, Quotes!ProRataFloor, ProRataFloor
  <2>1. PICK v \in Nat, s \in Nat \ {0} :
           v * quoteSupply <= quoteVault * s /\ LossFrom(typed.loss, typed.paid, typed.tokens, v, s)
    BY DEF AmountsInv, Entered
  <2>2. typed.paid \in Nat /\ typed.tokens \in Nat \ {0} /\ quoteVault \in Nat /\ quoteSupply \in Nat \ {0}
    BY DEF AmountsInv, Entered
  <2> QED BY <2>1, <2>2, LossStaysBound
<1> QED BY <1>1, <1>2, <1>3, <1>4 DEF AmountsHold

(***************************************************************************)
(* TokenPage.                                                              *)
(***************************************************************************)

States == [phase : Page!Phases, paused : BOOLEAN, rate : Rates, left : 0..2, vault : Nat, supply : Nat]
Purses == [base : Nat, quote : Nat, usdc : Nat]
Venues == {"none", "dbc", "damm", "vault"}
Quoted == [venue : Venues, in : Nat, out : Nat, partial : BOOLEAN]
Calls ==
  [kind : {"trade", "redeem", "none"}, view : {"presale", "market", "none"}, side : {"buy", "sell", "none"},
   pay : {"quote", "usdc", "none"}, amount : Nat, shown : [venue : Venues, min : Nat],
   pc : {"begin", "route", "again", "build", "send", "after", "return", "lost", "over"},
   state : States \cup {Page!Unread}, before : Purses \cup {Page!Unread}, quote : Quoted, min : Nat,
   spent : Nat, received : Nat, alone : BOOLEAN]

\* What holds of a call when the chain is c and the purse is p.  A redemption showed what
\* it would pay at a floor that has only risen since.
Sound(call, c, p) ==
  /\ call \in Calls
  /\ call.pc # "over" => call.kind \in {"trade", "redeem"} /\ call.side \in {"buy", "sell"}
  /\ call.pc \in {"route", "again", "return"} => call.kind = "trade"
  /\ call.pc \in {"route", "build", "send"} => call.state \in States
  /\ call.pc = "send" =>
        IF call.kind = "redeem" THEN call.quote.venue = "vault"
        ELSE call.quote.venue # "vault" /\ call.min >= call.shown.min
  /\ call.kind = "redeem" /\ call.pc # "over" =>
        /\ c.phase = "redeemable" /\ call.side = "sell"
        /\ \E v \in Nat, s \in Nat \ {0} :
              v * c.supply <= c.vault * s /\ call.shown.min = Net(v, s, call.amount, 200)
  /\ call.pc = "send" /\ call.alone => call.before = p
  /\ call.pc = "after" /\ call.alone =>
        call.received = IF call.side = "buy" THEN p.base - call.before.base ELSE p.quote - call.before.quote
  /\ call.pc \in {"begin", "route", "again", "build", "send"} => call.spent = 0
  /\ call.spent > 0 => call.received >= call.shown.min /\ call.spent <= call.amount

\* Inductive: the copy on the page is an earlier chain, and every call is sound.
PageInv ==
  /\ chain \in States /\ page \in States /\ purse \in Purses
  /\ pending \in [trade : BOOLEAN, redeem : BOOLEAN]
  /\ page.phase = "redeemable" => chain.phase = "redeemable"
  /\ page.vault * chain.supply <= chain.vault * page.supply
  /\ presses \in Seq(Calls)
  /\ \A k \in DOMAIN presses : Sound(presses[k], chain, purse)

LEMMA RatesMax == Page!Max(Rates) \in Rates
BY SdkAssumption DEF Page!Max

\* The arithmetic of the page is that of the program.
LEMMA PageArithmetic ==
  /\ \A v, s, a : Page!Net(v, s, a, 200) = Net(v, s, a, 200)
  /\ \A v, s, a : Page!Redeemable(v, s, a, 200) <=> Redeemable(v, s, a, 200)
BY DEF Page!Net, Page!Gross, Page!Fee, Page!FeeCeil, Page!ProRataFloor, Page!BpsDenominator, Page!Redeemable,
       Net, Gross, Fee, FeeCeil, ProRataFloor, BpsDenominator, Redeemable

LEMMA MinOutNat == ASSUME NEW x \in Nat PROVE Page!MinOut(x) \in Nat
<1>1. 3 * x \in Nat
  OBVIOUS
<1> QED BY <1>1, DivBounds DEF Page!MinOut

\* A higher gross never nets less.
LEMMA NetOfGross ==
  ASSUME NEW g \in Nat, NEW h \in Nat, g <= h
  PROVE  g - FeeCeil(g, 200) <= h - FeeCeil(h, 200)
<1> DEFINE x == g * 200 + 9999
           y == h * 200 + 9999
<1>1. x \in Nat /\ y \in Nat
  OBVIOUS
<1>2. /\ x \div 10000 \in Nat /\ y \div 10000 \in Nat
      /\ x < (x \div 10000) * 10000 + 10000 /\ (y \div 10000) * 10000 <= y
  BY <1>1, DivBounds
<1>3. FeeCeil(g, 200) = x \div 10000 /\ FeeCeil(h, 200) = y \div 10000
  BY DEF FeeCeil, BpsDenominator
<1> DEFINE e == x \div 10000
           f == y \div 10000
<1> HIDE DEF e, f
<1>4. e \in Nat /\ f \in Nat /\ g * 200 + 9999 < e * 10000 + 10000 /\ f * 10000 <= h * 200 + 9999
  BY <1>2 DEF e, f
<1>5. f - e <= h - g
  BY <1>4
<1> QED BY <1>3, <1>4, <1>5 DEF e, f

\* Nor does a higher floor.
LEMMA NetOfFloor ==
  ASSUME NEW v \in Nat, NEW s \in Nat \ {0}, NEW v1 \in Nat, NEW s1 \in Nat \ {0}, NEW a \in Nat,
         v * s1 <= v1 * s
  PROVE  Net(v, s, a, 200) <= Net(v1, s1, a, 200)
<1>1. (v * a) \div s <= (v1 * a) \div s1
  BY QuotientMonotone
<1>2. v * a \in Nat /\ v1 * a \in Nat
  OBVIOUS
<1>3. (v * a) \div s \in Nat /\ (v1 * a) \div s1 \in Nat
  BY <1>2, DivBounds
<1> QED BY <1>1, <1>3, NetOfGross DEF Net, Gross, Fee, ProRataFloor

\* No quote takes more than is offered, or more than the curve still takes.
LEMMA QuoteTradeType ==
  ASSUME NEW state \in States, NEW side, NEW amount \in Nat
  PROVE  LET q == Page!QuoteTrade(state, side, amount)
         IN  /\ q \in Quoted /\ q.in <= amount /\ q.venue # "vault"
             /\ q.venue = "dbc" /\ side = "buy" => q.in <= state.left
             /\ q.venue = "dbc" => state.phase = "presale"
<1> DEFINE q == Page!QuoteTrade(state, side, amount)
<1>1. state.rate \in Nat \ {0} /\ state.left \in Nat
  <2>1. Rates \subseteq Nat \ {0}
    BY SdkAssumption
  <2>2. state.rate \in Rates /\ state.left \in 0..2
    BY DEF States
  <2>3. state.rate \in Nat \ {0}
    BY <2>1, <2>2, Zenon
  <2> QED BY <2>2, <2>3
<1>2. amount \div state.rate \in Nat /\ amount * state.rate \in Nat
  BY <1>1, DivBounds
<1>3. CASE state.phase = "presale" /\ side = "buy"
  <2> DEFINE in == Page!SmallerOf(amount, state.left)
  <2>1. in \in Nat /\ in <= amount /\ in <= state.left
    BY <1>1 DEF Page!SmallerOf
  <2>2. q = [venue |-> "dbc", in |-> in, out |-> in * state.rate, partial |-> amount > state.left]
    BY <1>3 DEF Page!QuoteTrade
  <2> HIDE DEF in
  <2>3. in * state.rate \in Nat
    BY <1>1, <2>1
  <2>4. q \in Quoted
    BY <2>1, <2>2, <2>3 DEF Quoted, Venues
  <2>5. q.in = in /\ q.venue = "dbc"
    BY <2>2
  <2> HIDE DEF q
  <2> QED BY <1>3, <2>1, <2>4, <2>5 DEF q
<1>4. CASE state.phase = "presale" /\ side = "sell"
  <2>1. q = [venue |-> "dbc", in |-> amount, out |-> amount \div state.rate, partial |-> FALSE]
    BY <1>4 DEF Page!QuoteTrade
  <2>2. side # "buy"
    BY <1>4
  <2>3. q \in Quoted
    BY <1>2, <2>1 DEF Quoted, Venues
  <2>4. q.in = amount /\ q.venue = "dbc"
    BY <2>1
  <2> QED BY <1>4, <2>2, <2>3, <2>4
<1>5. CASE state.phase = "graduating"
  <2>1. q = [venue |-> "none", in |-> 0, out |-> 0, partial |-> FALSE]
    BY <1>5 DEF Page!QuoteTrade, Page!NoQuote
  <2> QED BY <2>1 DEF Quoted, Venues
<1>6. CASE /\ ~(state.phase = "presale" /\ side = "buy") /\ ~(state.phase = "presale" /\ side = "sell")
           /\ state.phase # "graduating"
  <2>1. q = [venue |-> "damm", in |-> amount, partial |-> FALSE,
             out |-> IF side = "buy" THEN amount * state.rate ELSE amount \div state.rate]
    BY <1>6 DEF Page!QuoteTrade
  <2> QED BY <1>2, <2>1 DEF Quoted, Venues
<1> QED BY <1>3, <1>4, <1>5, <1>6

LEMMA PageInit == Page!Init => PageInv
<1> SUFFICES ASSUME Page!Init PROVE PageInv
  OBVIOUS
<1>1. PICK phase \in {"presale", "graduated", "redeemable"} :
         chain = [phase |-> phase, paused |-> FALSE, rate |-> Page!Max(Rates), left |-> 2,
                  vault |-> IF phase = "redeemable" THEN 9 ELSE 1, supply |-> 80]
  BY DEF Page!Init, Page!Supply
<1>2. chain \in States
  BY <1>1, RatesMax DEF States, Page!Phases
<1>3. page = chain /\ presses = <<>> /\ purse \in Purses
  BY DEF Page!Init, Purses
<1>4. pending \in [trade : BOOLEAN, redeem : BOOLEAN]
  BY DEF Page!Init
<1> QED BY <1>2, <1>3, <1>4 DEF PageInv, States

LEMMA FloorStays ==
  ASSUME NEW v \in Nat, NEW s \in Nat, NEW v0 \in Nat, NEW s0 \in Nat, NEW v1 \in Nat, NEW s1 \in Nat,
         v * s0 <= v0 * s, v0 * s1 <= v1 * s0, s0 = 0 => s1 = 0
  PROVE  v * s1 <= v1 * s
<1>1. CASE s0 > 0
  BY <1>1, FloorTransitive
<1>2. CASE s0 = 0
  <2>1. s1 = 0 /\ v * 0 = 0 /\ v1 * s \in Nat
    BY <1>2
  <2> QED BY <2>1
<1> QED BY <1>1, <1>2

\* A call stays sound when the floor rises and the redemption stays open.
LEMMA SoundAsFloorRises ==
  ASSUME NEW call, NEW c, NEW d, NEW p, Sound(call, c, p),
         c.vault \in Nat, c.supply \in Nat, d.vault \in Nat, d.supply \in Nat,
         c.phase = "redeemable" => d.phase = "redeemable",
         c.supply = 0 => d.supply = 0, c.vault * d.supply <= d.vault * c.supply
  PROVE  Sound(call, d, p)
<1>1. CASE call.kind = "redeem" /\ call.pc # "over"
  <2>1. PICK v \in Nat, s \in Nat \ {0} :
           v * c.supply <= c.vault * s /\ call.shown.min = Net(v, s, call.amount, 200)
    BY <1>1 DEF Sound
  <2>2. v * d.supply <= d.vault * s
    BY <2>1, FloorStays
  <2> QED BY <1>1, <2>1, <2>2 DEF Sound
<1>2. CASE ~(call.kind = "redeem" /\ call.pc # "over")
  BY <1>2 DEF Sound
<1> QED BY <1>1, <1>2
\* When another transaction of the wallet lands, a call in flight is not alone any more.
LEMMA SoundBeside ==
  ASSUME NEW call, NEW c, NEW p, NEW q, Sound(call, c, p)
  PROVE  Sound(IF call.pc \in {"send", "after"} THEN [call EXCEPT !.alone = FALSE] ELSE call, c, q)
<1>1. CASE call.pc \in {"send", "after"}
  <2> DEFINE b == [call EXCEPT !.alone = FALSE]
  <2>0. call \in Calls
    BY DEF Sound
  <2>1. b \in Calls
    BY <2>0 DEF Calls
  <2>2. /\ b.pc = call.pc /\ b.kind = call.kind /\ b.side = call.side /\ b.state = call.state
        /\ b.quote = call.quote /\ b.min = call.min /\ b.shown = call.shown /\ b.amount = call.amount
        /\ b.spent = call.spent /\ b.received = call.received /\ b.alone = FALSE
    BY <2>0 DEF Calls
  <2> HIDE DEF b
  <2>3. Sound(b, c, q)
    BY <2>1, <2>2 DEF Sound
  <2> QED BY <1>1, <2>3 DEF b
<1>2. CASE call.pc \notin {"send", "after"}
  BY <1>2 DEF Sound
<1> QED BY <1>1, <1>2

LEMMA ViewType == \A state : Page!View(state) \in {"presale", "market"}
BY DEF Page!View

LEMMA NothingType == Page!Nothing = [venue |-> "none", min |-> 0] /\ Page!NoQuote \in Quoted
BY DEF Page!Nothing, Page!Expected, Page!NoQuote, Page!MinOut, Quoted, Venues

\* A call that begins.
LEMMA CallType ==
  ASSUME NEW kind \in {"trade", "redeem", "none"}, NEW entry, NEW shown \in [venue : Venues, min : Nat],
         entry.side \in {"buy", "sell", "none"}, entry.pay \in {"quote", "usdc", "none"}, entry.amount \in Nat
  PROVE  LET call == Page!Call(kind, entry, shown)
         IN  /\ call \in Calls /\ call.kind = kind /\ call.side = entry.side /\ call.amount = entry.amount
             /\ call.shown = shown /\ call.pc = "begin" /\ call.spent = 0
<1> DEFINE call == Page!Call(kind, entry, shown)
<1>1. call = [kind |-> kind, view |-> Page!View(page), side |-> entry.side, pay |-> entry.pay, amount |-> entry.amount,
              shown |-> shown, pc |-> "begin", state |-> Page!Unread, before |-> Page!Unread,
              quote |-> Page!NoQuote, min |-> 0, spent |-> 0, received |-> 0, alone |-> TRUE]
  BY DEF Page!Call
<1>2. Page!View(page) \in {"presale", "market", "none"} /\ Page!NoQuote \in Quoted
  BY ViewType, NothingType
<1> HIDE DEF call
<1>3. call \in Calls
  BY <1>1, <1>2 DEF Calls
<1> QED BY <1>1, <1>3 DEF call

LEMMA OverSound == \A c, p : Sound(Page!Over, c, p)
<1> DEFINE o == Page!Over
           begun == Page!Call("none", [side |-> "none", pay |-> "none", amount |-> 0], Page!Nothing)
<1>1. begun \in Calls /\ begun.kind = "none" /\ begun.spent = 0
  <2>1. Page!Nothing \in [venue : Venues, min : Nat]
    BY NothingType DEF Venues
  <2> DEFINE entry == [side |-> "none", pay |-> "none", amount |-> 0]
  <2>2. entry.side = "none" /\ entry.pay = "none" /\ entry.amount = 0
    OBVIOUS
  <2> QED BY <2>1, <2>2, CallType
<1>2. o = [begun EXCEPT !.view = "none", !.pc = "over"]
  BY DEF Page!Over
<1> HIDE DEF o, begun
<1>3. o \in Calls /\ o.pc = "over" /\ o.kind = "none" /\ o.spent = 0
  BY <1>1, <1>2 DEF Calls
<1> QED BY <1>3 DEF Sound, o

\* One call goes on, and nothing else moves but its panel.
LEMMA CallGoes ==
  ASSUME PageInv, NEW k \in DOMAIN presses, NEW call,
         presses' = [presses EXCEPT ![k] = call], Sound(call, chain, purse),
         pending' \in [trade : BOOLEAN, redeem : BOOLEAN], UNCHANGED <<chain, purse, page>>
  PROVE  PageInv'
<1>1. call \in Calls
  BY DEF Sound
<1>2. presses' \in Seq(Calls) /\ DOMAIN presses' = DOMAIN presses
  BY <1>1 DEF PageInv
<1>3. \A j \in DOMAIN presses' : Sound(presses'[j], chain', purse')
  BY <1>2 DEF PageInv
<1> QED BY <1>2, <1>3 DEF PageInv

LEMMA CallReturns ==
  ASSUME PageInv, NEW k \in DOMAIN presses, NEW call, Page!Returns(k, call), UNCHANGED <<chain, purse, page>>
  PROVE  PageInv'
<1>1. pending' \in [trade : BOOLEAN, redeem : BOOLEAN]
  BY DEF Page!Returns, PageInv
<1>2. presses' = [presses EXCEPT ![k] = Page!Over]
  BY DEF Page!Returns
<1> QED BY <1>1, <1>2, OverSound, CallGoes

\* Others move the chain, but neither a floor down nor a redemption shut.
LEMMA ChainMoves ==
  ASSUME PageInv, chain' \in States, chain.phase = "redeemable" => chain'.phase = "redeemable",
         chain.vault * chain'.supply <= chain'.vault * chain.supply, chain.supply = 0 => chain'.supply = 0,
         UNCHANGED <<purse, page, pending, presses>>
  PROVE  PageInv'
<1>1. /\ chain.vault \in Nat /\ chain.supply \in Nat /\ chain'.vault \in Nat /\ chain'.supply \in Nat
      /\ page.vault \in Nat /\ page.supply \in Nat
  BY DEF PageInv, States
<1>2. page.vault * chain'.supply <= chain'.vault * page.supply
  <2>1. page.vault * chain.supply <= chain.vault * page.supply
    BY DEF PageInv
  <2> QED BY <1>1, <2>1, FloorStays
<1>3. \A k \in DOMAIN presses : Sound(presses[k], chain', purse)
  BY <1>1, SoundAsFloorRises DEF PageInv
<1> QED BY <1>2, <1>3 DEF PageInv

LEMMA OthersKeep ==
  ASSUME PageInv, Page!Others PROVE PageInv'
<1>0. UNCHANGED <<purse, page, pending, presses>>
  BY DEF Page!Others
<1>1. /\ chain \in States /\ chain.vault \in Nat /\ chain.supply \in Nat /\ chain.left \in 0..2
      /\ purse.base \in Nat
  BY DEF PageInv, States, Purses
<1>2. chain.vault * chain.supply \in Nat
  BY <1>1
<1>3. CASE Page!Trades
  <2>1. /\ chain' \in States /\ chain'.vault = chain.vault /\ chain'.supply = chain.supply
        /\ chain.phase = "redeemable" => chain'.phase = "redeemable"
    <3>1. CASE \E rate \in Rates \ {chain.rate} : chain' = [chain EXCEPT !.rate = rate]
      BY <1>1, <3>1 DEF States
    <3>2. CASE /\ chain.phase = "presale" /\ chain.left > 0
               /\ chain' = [chain EXCEPT !.left = @ - 1, !.phase = IF chain.left = 1 THEN "graduating" ELSE @]
      <4>1. chain.left - 1 \in 0..2
        BY <1>1, <3>2
      <4>2. chain' \in States
        BY <1>1, <3>2, <4>1 DEF States, Page!Phases
      <4> QED BY <1>1, <3>2, <4>2 DEF States
    <3> QED BY <1>3, <3>1, <3>2 DEF Page!Trades
  <2> QED BY <1>0, <1>2, <2>1, ChainMoves
<1>4. CASE Page!Cranks
  <2>1. /\ chain' \in States /\ chain'.vault \in Nat /\ chain'.vault >= chain.vault /\ chain'.supply = chain.supply
        /\ chain.phase = "redeemable" => chain'.phase = "redeemable"
    <3>1. CASE chain.phase = "graduating" /\ chain' = [chain EXCEPT !.phase = "graduated"]
      BY <1>1, <3>1 DEF States, Page!Phases
    <3>2. CASE chain.phase = "graduated" /\ chain' = [chain EXCEPT !.phase = "redeemable", !.vault = chain.vault + 8]
      <4>1. chain.vault + 8 \in Nat
        BY <1>1
      <4>2. chain' \in States
        BY <1>1, <3>2, <4>1 DEF States, Page!Phases
      <4>3. chain'.vault = chain.vault + 8 /\ chain'.supply = chain.supply
        BY <1>1, <3>2 DEF States
      <4> QED BY <1>1, <3>2, <4>1, <4>2, <4>3
    <3>3. CASE chain.phase = "redeemable" /\ chain' = [chain EXCEPT !.vault = chain.vault + 1]
      BY <1>1, <3>3 DEF States, Page!Phases
    <3> QED BY <1>4, <3>1, <3>2, <3>3 DEF Page!Cranks
  <2>2. chain.vault * chain.supply <= chain'.vault * chain.supply
    BY <1>1, <2>1, MulMonotone
  <2> QED BY <1>0, <2>1, <2>2, ChainMoves
<1>5. CASE Page!Redeems
  <2> DEFINE v == chain.vault
             s == chain.supply
             n == Page!Net(v, s, 20, 200)
  <2>1. s >= 20 /\ chain.phase = "redeemable" /\ chain' = [chain EXCEPT !.supply = s - 20, !.vault = v - n]
    BY <1>1, <1>5 DEF Page!Redeems, Page!RedeemOpen, Page!ExitFeeBps
  <2>2. v \in Nat /\ s \in Nat /\ s - 20 \in Nat
    BY <1>1, <2>1
  <2>3. n = Net(v, s, 20, 200)
    BY PageArithmetic
  <2>4. s >= 20
    BY <2>1
  <2> HIDE DEF v, s, n
  <2>5. n \in Nat /\ n <= v /\ v * (s - 20) <= (v - n) * s
    BY <2>2, <2>3, <2>4, RedemptionRaises
  <2>7. v - n \in Nat
    BY <2>2, <2>5
  <2>8. chain' \in States /\ chain'.vault = v - n /\ chain'.supply = s - 20 /\ chain'.phase = chain.phase
    BY <1>1, <2>1, <2>2, <2>7 DEF States, v, s
  <2>9. s = 0 => s - 20 = 0
    BY <2>4
  <2> QED BY <1>0, <2>1, <2>2, <2>5, <2>8, <2>9, ChainMoves DEF v, s
<1>6. CASE Page!Pauses
  <2>1. /\ chain' \in States /\ chain'.vault = chain.vault /\ chain'.supply = chain.supply
        /\ chain'.phase = chain.phase
    BY <1>1, <1>6 DEF States, Page!Pauses
  <2> QED BY <1>0, <1>2, <2>1, ChainMoves
<1> QED BY <1>3, <1>4, <1>5, <1>6 DEF Page!Others

\* One call moves what the wallet holds, and maybe the chain; those beside it are told.
LEMMA WalletMoves ==
  ASSUME PageInv, NEW k \in DOMAIN presses, NEW call,
         presses' = [j \in DOMAIN presses |->
            IF j = k THEN call
            ELSE IF presses[j].pc \in {"send", "after"} THEN [presses[j] EXCEPT !.alone = FALSE] ELSE presses[j]],
         Sound(call, chain', purse'), purse' \in Purses,
         chain' \in States, chain.phase = "redeemable" => chain'.phase = "redeemable",
         chain.vault * chain'.supply <= chain'.vault * chain.supply, chain.supply = 0 => chain'.supply = 0,
         UNCHANGED <<page, pending>>
  PROVE  PageInv'
<1>1. /\ chain.vault \in Nat /\ chain.supply \in Nat /\ chain'.vault \in Nat /\ chain'.supply \in Nat
      /\ page.vault \in Nat /\ page.supply \in Nat
  BY DEF PageInv, States
<1>2. page.vault * chain'.supply <= chain'.vault * page.supply
  <2>1. page.vault * chain.supply <= chain.vault * page.supply
    BY DEF PageInv
  <2> QED BY <1>1, <2>1, FloorStays
<1>3. DOMAIN presses' = DOMAIN presses
  OBVIOUS
<1>4. ASSUME NEW j \in DOMAIN presses PROVE Sound(presses'[j], chain', purse')
  <2> DEFINE aside == IF presses[j].pc \in {"send", "after"} THEN [presses[j] EXCEPT !.alone = FALSE] ELSE presses[j]
  <2>1. Sound(presses[j], chain, purse)
    BY DEF PageInv
  <2>2. Sound(aside, chain, purse')
    BY <2>1, SoundBeside
  <2> HIDE DEF aside
  <2>3. Sound(aside, chain', purse')
    BY <1>1, <2>2, SoundAsFloorRises
  <2>4. presses'[j] = IF j = k THEN call ELSE aside
    BY DEF aside
  <2> QED BY <2>3, <2>4
<1>5. presses' \in Seq(Calls)
  <2>1. \A j \in DOMAIN presses : presses'[j] \in Calls
    BY <1>4 DEF Sound
  <2>2. Len(presses) \in Nat /\ DOMAIN presses = 1..Len(presses)
    BY DEF PageInv
  <2>3. presses' \in [1..Len(presses) -> Calls]
    <3> DEFINE N == 1..Len(presses)
               P == presses'
    <3>1. P = [j \in N |-> P[j]]
      BY <2>2
    <3>2. \A j \in N : P[j] \in Calls
      BY <2>1, <2>2
    <3> HIDE DEF N, P
    <3>3. P \in [N -> Calls]
      BY <3>1, <3>2
    <3> QED BY <3>3 DEF N, P
  <2> QED BY <2>2, <2>3
<1> QED BY <1>2, <1>3, <1>4, <1>5 DEF PageInv

LEMMA BeginKeeps ==
  ASSUME PageInv, NEW k \in DOMAIN presses, Page!BeginTrade(k) \/ Page!BeginRedeem(k) PROVE PageInv'
<1> DEFINE call == presses[k]
           trade(pc) == [call EXCEPT !.state = chain, !.pc = pc]
<1>1. call \in Calls /\ Sound(call, chain, purse) /\ chain \in States /\ pending \in [trade : BOOLEAN, redeem : BOOLEAN]
  BY DEF PageInv, Sound
<1>2. UNCHANGED <<chain, purse, page>> /\ call.pc = "begin" /\ call.kind \in {"trade", "redeem"}
  BY DEF Page!BeginTrade, Page!BeginRedeem
<1> HIDE DEF call
<1>3. ASSUME NEW pc \in {"build", "route"}, pc = "route" => call.kind = "trade",
             presses' = [presses EXCEPT ![k] = trade(pc)], UNCHANGED pending
      PROVE  PageInv'
  <2> DEFINE b == trade(pc)
  <2>1. b \in Calls
    BY <1>1 DEF Calls
  <2>2. /\ b.pc = pc /\ b.state = chain /\ b.kind = call.kind /\ b.side = call.side /\ b.shown = call.shown
        /\ b.amount = call.amount /\ b.spent = call.spent /\ b.received = call.received
    BY <1>1 DEF Calls
  <2>3. presses' = [presses EXCEPT ![k] = b]
    BY <1>3
  <2> HIDE DEF b
  <2>4. Sound(b, chain, purse)
    BY <1>1, <1>2, <1>3, <2>1, <2>2 DEF Sound
  <2> QED BY <1>1, <1>2, <1>3, <2>3, <2>4, CallGoes
<1>4. CASE Page!BeginTrade(k)
  <2>1. CASE Page!Returns(k, call)
    BY <1>2, <2>1, CallReturns
  <2>2. CASE ~Page!Returns(k, call)
    <3>1. PICK pc \in {"build", "route"} : presses' = [presses EXCEPT ![k] = trade(pc)] /\ UNCHANGED pending
      BY <1>4, <2>2 DEF Page!BeginTrade, Page!Goes, call
    <3>2. call.kind = "trade"
      BY <1>4 DEF Page!BeginTrade, call
    <3> QED BY <1>3, <3>1, <3>2
  <2> QED BY <2>1, <2>2
<1>5. CASE Page!BeginRedeem(k)
  <2>1. presses' = [presses EXCEPT ![k] = trade("build")] /\ UNCHANGED pending
    BY <1>5 DEF Page!BeginRedeem, Page!Goes, call
  <2> QED BY <1>3, <2>1
<1> QED BY <1>4, <1>5

LEMMA AgainKeeps ==
  ASSUME PageInv, NEW k \in DOMAIN presses, Page!Again(k) PROVE PageInv'
<1> DEFINE call == presses[k]
           b == [call EXCEPT !.pc = "build", !.state = chain]
<1>1. call \in Calls /\ Sound(call, chain, purse) /\ chain \in States /\ pending \in [trade : BOOLEAN, redeem : BOOLEAN]
  BY DEF PageInv, Sound
<1>2. /\ UNCHANGED <<chain, purse, page, pending>> /\ call.pc = "again"
      /\ presses' = [presses EXCEPT ![k] = b]
  BY DEF Page!Again, Page!Goes
<1> HIDE DEF call
<1>3. b \in Calls
  BY <1>1 DEF Calls
<1>4. /\ b.pc = "build" /\ b.state = chain /\ b.kind = call.kind /\ b.side = call.side /\ b.shown = call.shown
      /\ b.amount = call.amount /\ b.spent = call.spent /\ b.received = call.received
  BY <1>1 DEF Calls
<1> HIDE DEF b
<1>5. Sound(b, chain, purse)
  BY <1>1, <1>2, <1>3, <1>4 DEF Sound
<1> QED BY <1>1, <1>2, <1>5, CallGoes

LEMMA BuildTradeKeeps ==
  ASSUME PageInv, NEW k \in DOMAIN presses, Page!BuildTrade(k) PROVE PageInv'
<1> DEFINE was == presses[k]
           call == [was EXCEPT !.before = purse]
           quote == Page!QuoteTrade(call.state, call.side, call.amount)
           b == [call EXCEPT !.pc = "send", !.quote = quote, !.min = Page!SignedMin(quote, call.shown)]
<1>1. /\ was \in Calls /\ Sound(was, chain, purse) /\ purse \in Purses
      /\ pending \in [trade : BOOLEAN, redeem : BOOLEAN]
  BY DEF PageInv, Sound
<1>2. /\ UNCHANGED <<chain, purse, page>> /\ call.pc = "build" /\ call.kind = "trade"
      /\ \/ Page!Returns(k, call)
         \/ presses' = [presses EXCEPT ![k] = b] /\ UNCHANGED pending
  BY DEF Page!BuildTrade, Page!Goes
<1> HIDE DEF was
<1>3. call \in Calls
  BY <1>1 DEF Calls
<1>4. /\ was.pc = call.pc /\ was.kind = call.kind /\ was.state = call.state /\ was.side = call.side
      /\ call.before = purse /\ call.shown = was.shown /\ call.amount = was.amount
      /\ call.spent = was.spent /\ call.received = was.received
  BY <1>1 DEF Calls
<1> HIDE DEF call
<1>5. call.state \in States /\ call.amount \in Nat /\ call.shown.min \in Nat
  BY <1>1, <1>2, <1>3, <1>4 DEF Sound, Calls
<1>6. quote \in Quoted /\ quote.venue # "vault"
  BY <1>5, QuoteTradeType
<1> HIDE DEF quote
<1> DEFINE min == Page!SignedMin(quote, call.shown)
<1>7. min \in Nat /\ min >= call.shown.min
  <2>1. Page!MinOut(quote.out) \in Nat
    BY <1>6, MinOutNat DEF Quoted
  <2> QED BY <1>5, <2>1 DEF Page!SignedMin
<1> HIDE DEF min
<1>8. b = [call EXCEPT !.pc = "send", !.quote = quote, !.min = min]
  BY DEF min
<1> HIDE DEF b
<1>9. b \in Calls
  BY <1>3, <1>6, <1>7, <1>8 DEF Calls
<1>10. /\ b.pc = "send" /\ b.quote = quote /\ b.min = min /\ b.kind = "trade" /\ b.side = call.side
       /\ b.state = call.state /\ b.before = purse /\ b.shown = call.shown /\ b.amount = call.amount
       /\ b.spent = call.spent /\ b.received = call.received
  BY <1>2, <1>3, <1>4, <1>8 DEF Calls
<1>11. Sound(b, chain, purse)
  BY <1>1, <1>2, <1>4, <1>5, <1>6, <1>7, <1>9, <1>10 DEF Sound
<1>12. CASE Page!Returns(k, call)
  BY <1>2, <1>12, CallReturns
<1>13. CASE presses' = [presses EXCEPT ![k] = b] /\ UNCHANGED pending
  BY <1>1, <1>2, <1>11, <1>13, CallGoes
<1> QED BY <1>2, <1>12, <1>13

LEMMA BuildRedeemKeeps ==
  ASSUME PageInv, NEW k \in DOMAIN presses, Page!BuildRedeem(k) PROVE PageInv'
<1> DEFINE was == presses[k]
           call == [was EXCEPT !.before = purse]
           quote == [Page!NoQuote EXCEPT !.venue = "vault", !.in = call.amount]
           b == [call EXCEPT !.pc = "send", !.quote = quote]
<1>1. /\ was \in Calls /\ Sound(was, chain, purse) /\ purse \in Purses
      /\ pending \in [trade : BOOLEAN, redeem : BOOLEAN]
  BY DEF PageInv, Sound
<1>2. /\ UNCHANGED <<chain, purse, page>> /\ call.pc = "build" /\ call.kind = "redeem"
      /\ \/ Page!Returns(k, call)
         \/ presses' = [presses EXCEPT ![k] = b] /\ UNCHANGED pending
  BY DEF Page!BuildRedeem, Page!Goes
<1> HIDE DEF was
<1>3. call \in Calls
  BY <1>1 DEF Calls
<1>4. /\ was.pc = call.pc /\ was.kind = call.kind /\ was.state = call.state /\ was.side = call.side
      /\ call.before = purse /\ call.shown = was.shown /\ call.amount = was.amount
      /\ call.spent = was.spent /\ call.received = was.received
  BY <1>1 DEF Calls
<1> HIDE DEF call
<1>5. call.amount \in Nat /\ call.state \in States
  BY <1>1, <1>2, <1>3, <1>4 DEF Calls, Sound
<1>6. quote \in Quoted /\ quote.venue = "vault"
  BY <1>5, NothingType DEF Quoted, Venues
<1> HIDE DEF quote
<1>7. b \in Calls
  BY <1>3, <1>6 DEF Calls
<1>8. /\ b.pc = "send" /\ b.quote = quote /\ b.kind = "redeem" /\ b.side = call.side /\ b.state = call.state
      /\ b.before = purse /\ b.shown = call.shown /\ b.amount = call.amount
      /\ b.spent = call.spent /\ b.received = call.received
  BY <1>2, <1>3, <1>4 DEF Calls
<1> HIDE DEF b
<1>9. Sound(b, chain, purse)
  BY <1>1, <1>2, <1>4, <1>5, <1>6, <1>7, <1>8 DEF Sound
<1>10. CASE Page!Returns(k, call)
  BY <1>2, <1>10, CallReturns
<1>11. CASE presses' = [presses EXCEPT ![k] = b] /\ UNCHANGED pending
  BY <1>1, <1>2, <1>9, <1>11, CallGoes
<1> QED BY <1>2, <1>10, <1>11

\* What the wallet pays and gets.
PaidFrom(p, from, in, to, out) == [p EXCEPT ![from] = @ - in, ![to] = @ + out]

LEMMA PurseMoves ==
  ASSUME NEW p \in Purses, NEW from \in {"base", "quote", "usdc"}, NEW to \in {"base", "quote", "usdc"}, from # to,
         NEW in \in Nat, NEW out \in Nat, p[from] >= in
  PROVE  LET q == PaidFrom(p, from, in, to, out) IN q \in Purses /\ q[to] = p[to] + out
<1> DEFINE q == PaidFrom(p, from, in, to, out)
<1>1. p.base \in Nat /\ p.quote \in Nat /\ p.usdc \in Nat /\ p[from] \in Nat /\ p[to] \in Nat
  BY DEF Purses
<1>2. p[from] - in \in Nat /\ p[to] + out \in Nat
  BY <1>1
<1>3. q = [[p EXCEPT ![from] = p[from] - in] EXCEPT ![to] = p[to] + out]
  BY <1>1 DEF Purses, PaidFrom
<1> HIDE DEF q
<1>4. q \in Purses
  <2> DEFINE a == p[from] - in
             b == p[to] + out
  <2>1. a \in Nat /\ b \in Nat /\ q = [[p EXCEPT ![from] = a] EXCEPT ![to] = b]
    BY <1>2, <1>3
  <2> HIDE DEF a, b
  <2>2. [p EXCEPT ![from] = a] \in Purses
    BY <2>1 DEF Purses
  <2> QED BY <2>1, <2>2 DEF Purses
<1>5. q[to] = p[to] + out
  BY <1>3 DEF Purses
<1> QED BY <1>4, <1>5 DEF q

LEMMA RouteKeeps ==
  ASSUME PageInv, NEW k \in DOMAIN presses, Page!Route(k) PROVE PageInv'
<1> DEFINE call == presses[k]
           curve == call.state.phase = "presale"
           from == IF call.side = "buy" THEN "usdc" ELSE "base"
           to == IF call.side = "sell" THEN "usdc" ELSE IF curve THEN "quote" ELSE "base"
           out == CASE to = "quote" -> call.amount
                    [] to = "base" -> call.amount * chain.rate
                    [] OTHER -> call.amount \div chain.rate
           after(told) == IF curve THEN [call EXCEPT !.pc = "again", !.amount = told] ELSE [call EXCEPT !.pc = "return"]
<1>1. /\ call \in Calls /\ Sound(call, chain, purse) /\ purse \in Purses /\ chain \in States
      /\ pending \in [trade : BOOLEAN, redeem : BOOLEAN]
  BY DEF PageInv, Sound
<1>2. /\ UNCHANGED <<chain, page>> /\ call.pc = "route"
      /\ \/ UNCHANGED purse /\ Page!Returns(k, call)
         \/ /\ purse[from] >= call.amount /\ UNCHANGED pending
            /\ \E told \in Page!UltraSwap(out) : Page!Moves(k, from, call.amount, to, out, after(told))
  BY DEF Page!Route
<1>3. /\ call.amount \in Nat /\ call.side \in {"buy", "sell"} /\ call.kind = "trade" /\ call.spent = 0
      /\ chain.rate \in Nat \ {0}
  <2>1. Rates \subseteq Nat \ {0} /\ chain.rate \in Rates
    BY <1>1, SdkAssumption DEF States
  <2> QED BY <1>1, <1>2, <2>1 DEF Sound, Calls
<1>4. out \in Nat
  <2>1. call.amount * chain.rate \in Nat /\ call.amount \div chain.rate \in Nat
    BY <1>3, DivBounds
  <2> QED BY <1>3, <2>1
<1>5. from \in {"base", "quote", "usdc"} /\ to \in {"base", "quote", "usdc"} /\ from # to
  BY <1>3
<1>6. CASE UNCHANGED purse /\ Page!Returns(k, call)
  BY <1>2, <1>6, CallReturns
<1>7. CASE /\ purse[from] >= call.amount /\ UNCHANGED pending
           /\ \E told \in Page!UltraSwap(out) : Page!Moves(k, from, call.amount, to, out, after(told))
  <2> HIDE DEF out, from, to
  <2>1. PICK told \in Page!UltraSwap(out) : Page!Moves(k, from, call.amount, to, out, after(told))
    BY <1>7
  <2>2. told \in Nat
    <3>1. told \in {Page!MinOut(out), out}
      BY <2>1 DEF Page!UltraSwap, Page!GetUltraOrder
    <3> QED BY <1>4, <3>1, MinOutNat
  <2> DEFINE b == after(told)
  <2>3. /\ b \in Calls /\ b.pc \in {"again", "return"} /\ b.kind = "trade" /\ b.side = call.side
        /\ b.spent = 0
    BY <1>1, <1>3, <2>2 DEF Calls
  <2>4. /\ purse' = [purse EXCEPT ![from] = @ - call.amount, ![to] = @ + out]
        /\ presses' = [j \in DOMAIN presses |->
              IF j = k THEN b
              ELSE IF presses[j].pc \in {"send", "after"} THEN [presses[j] EXCEPT !.alone = FALSE] ELSE presses[j]]
    BY <2>1 DEF Page!Moves
  <2>5. purse' \in Purses
    <3>1. purse' = PaidFrom(purse, from, call.amount, to, out)
      BY <2>4 DEF PaidFrom
    <3> QED BY <1>1, <1>3, <1>4, <1>5, <1>7, <3>1, PurseMoves
  <2> HIDE DEF b
  <2>6. Sound(b, chain', purse')
    BY <1>3, <2>3 DEF Sound
  <2>7. /\ chain' = chain /\ chain' \in States /\ chain.vault * chain'.supply <= chain'.vault * chain.supply
        /\ UNCHANGED <<page, pending>>
    <3>1. chain.vault \in Nat /\ chain.supply \in Nat /\ chain' = chain
      BY <1>1, <1>2 DEF States
    <3>2. chain.vault * chain.supply \in Nat
      BY <3>1
    <3>3. UNCHANGED <<page, pending>>
      BY <1>2, <1>7
    <3> QED BY <1>1, <3>1, <3>2, <3>3
  <2> QED BY <2>4, <2>5, <2>6, <2>7, WalletMoves
<1> QED BY <1>2, <1>6, <1>7

\* What a transaction pays that is executed: what was shown, and it takes no more.
LEMMA ExecutedPays ==
  ASSUME NEW call, Sound(call, chain, purse), chain \in States, call.pc = "send", Page!Executed(call).out > 0
  PROVE  LET done == Page!Executed(call)
         IN  /\ done.in \in Nat /\ done.out \in Nat
             /\ done.out >= call.shown.min /\ done.in <= call.amount
             /\ call.quote.venue = "vault" =>
                   /\ call.kind = "redeem" /\ chain.phase = "redeemable"
                   /\ call.amount \in Nat /\ call.amount <= chain.supply /\ done.in = call.amount
                   /\ done.out = Net(chain.vault, chain.supply, call.amount, 200)
             /\ call.quote.venue = "dbc" => chain.phase = "presale" /\ (call.side = "buy" => done.in <= chain.left)
<1> DEFINE done == Page!Executed(call)
<1>1. call \in Calls /\ call.amount \in Nat /\ call.shown.min \in Nat /\ call.min \in Nat
  BY DEF Sound, Calls
<1>2. chain.vault \in Nat /\ chain.supply \in Nat
  BY DEF States
<1>3. Page!NoQuote.out = 0
  BY DEF Page!NoQuote
<1>4. CASE call.quote.venue = "vault"
  <2> DEFINE n == Page!Net(chain.vault, chain.supply, call.amount, 200)
  <2>1. /\ done = [in |-> call.amount, out |-> n]
        /\ chain.phase = "redeemable" /\ Page!Redeemable(chain.vault, chain.supply, call.amount, 200)
    BY <1>3, <1>4 DEF Page!Executed, Page!RedeemOpen, Page!ExitFeeBps
  <2>2. n = Net(chain.vault, chain.supply, call.amount, 200)
    BY PageArithmetic
  <2>3. chain.supply > 0 /\ call.amount <= chain.supply
    BY <2>1, PageArithmetic DEF Redeemable
  <2> HIDE DEF n
  <2>4. n \in Nat
    <3> DEFINE v == chain.vault
               s == chain.supply
               a == call.amount
    <3>1. v \in Nat /\ s \in Nat /\ a \in Nat /\ s > 0 /\ a <= s /\ n = Net(v, s, a, 200)
      BY <1>1, <1>2, <2>2, <2>3
    <3> HIDE DEF v, s, a
    <3> QED BY <3>1, RedemptionRaises
  <2>5. call.kind = "redeem"
    BY <1>4 DEF Sound
  <2>6. PICK v \in Nat, s \in Nat \ {0} :
           v * chain.supply <= chain.vault * s /\ call.shown.min = Net(v, s, call.amount, 200)
    BY <2>5 DEF Sound
  <2>7. call.shown.min <= n
    <3> DEFINE v1 == chain.vault
               s1 == chain.supply
               a == call.amount
               min == call.shown.min
    <3>1. /\ v1 \in Nat /\ s1 \in Nat \ {0} /\ a \in Nat /\ n = Net(v1, s1, a, 200)
          /\ v * s1 <= v1 * s /\ min = Net(v, s, a, 200)
      BY <1>1, <1>2, <2>2, <2>3, <2>6
    <3> HIDE DEF v1, s1, a, min
    <3>2. min <= n
      BY <3>1, NetOfFloor
    <3> QED BY <3>2 DEF min
  <2>8. done.in = call.amount /\ done.out = n
    BY <2>1
  <2> HIDE DEF done
  <2>9. done.out >= call.shown.min /\ done.in <= call.amount
    BY <1>1, <2>4, <2>7, <2>8
  <2> QED BY <1>1, <1>4, <2>1, <2>2, <2>3, <2>4, <2>5, <2>8, <2>9 DEF done
<1>5. CASE call.quote.venue # "vault"
  <2> DEFINE q == Page!QuoteTrade(chain, call.side, call.amount)
  <2>1. done = q /\ q.venue = call.quote.venue /\ q.out >= call.min
    BY <1>3, <1>5 DEF Page!Executed
  <2>2. call.min >= call.shown.min
    BY <1>5 DEF Sound
  <2>3. /\ q \in Quoted /\ q.in <= call.amount
        /\ q.venue = "dbc" => chain.phase = "presale" /\ (call.side = "buy" => q.in <= chain.left)
    BY <1>1, QuoteTradeType
  <2> HIDE DEF q, done
  <2>4. q.in \in Nat /\ q.out \in Nat
    BY <2>3 DEF Quoted
  <2> QED BY <1>1, <1>5, <2>1, <2>2, <2>3, <2>4 DEF done
<1> QED BY <1>4, <1>5

LEMMA SendKeeps ==
  ASSUME PageInv, NEW k \in DOMAIN presses, Page!Send(k) PROVE PageInv'
<1> DEFINE call == presses[k]
           from == IF call.side = "buy" THEN "quote" ELSE "base"
           to == IF call.side = "buy" THEN "base" ELSE "quote"
           done == Page!Executed(call)
           landed(pc) == [call EXCEPT !.pc = pc, !.spent = done.in, !.received = done.out]
<1>1. /\ call \in Calls /\ Sound(call, chain, purse) /\ purse \in Purses /\ chain \in States
      /\ pending \in [trade : BOOLEAN, redeem : BOOLEAN]
  BY DEF PageInv, Sound
<1>2. UNCHANGED page /\ call.pc = "send"
  BY DEF Page!Send
<1>3. CASE Page!Returns(k, call) /\ UNCHANGED <<chain, purse>>
  BY <1>2, <1>3, CallReturns
<1>4. CASE /\ done.out > 0 /\ Page!Holds(call) >= done.in
           /\ \E pc \in {"after", "lost"} : Page!Moves(k, from, done.in, to, done.out, landed(pc))
           /\ chain' = CASE call.quote.venue = "vault" ->
                              [chain EXCEPT !.vault = @ - done.out, !.supply = @ - call.amount]
                        [] call.quote.venue = "dbc" /\ call.side = "buy" ->
                              [chain EXCEPT !.left = @ - done.in,
                                            !.phase = IF chain.left = done.in THEN "graduating" ELSE @]
                        [] OTHER -> chain
           /\ UNCHANGED pending
  <2>1. /\ done.in \in Nat /\ done.out \in Nat /\ done.out >= call.shown.min /\ done.in <= call.amount
        /\ call.quote.venue = "vault" =>
              /\ call.kind = "redeem" /\ chain.phase = "redeemable"
              /\ call.amount \in Nat /\ call.amount <= chain.supply /\ done.in = call.amount
              /\ done.out = Net(chain.vault, chain.supply, call.amount, 200)
        /\ call.quote.venue = "dbc" => chain.phase = "presale" /\ (call.side = "buy" => done.in <= chain.left)
    BY <1>1, <1>2, <1>4, ExecutedPays
  <2>2. call.side \in {"buy", "sell"} /\ (call.kind = "redeem" => call.side = "sell")
    BY <1>1, <1>2 DEF Sound
  <2>3. purse[from] >= done.in
    BY <1>4, <2>2 DEF Page!Holds
  <2>4. PICK pc \in {"after", "lost"} : Page!Moves(k, from, done.in, to, done.out, landed(pc))
    BY <1>4
  <2> DEFINE b == landed(pc)
  <2>5. from \in {"base", "quote", "usdc"} /\ to \in {"base", "quote", "usdc"} /\ from # to
    OBVIOUS
  <2> HIDE DEF done
  <2>6. /\ purse' = [purse EXCEPT ![from] = @ - done.in, ![to] = @ + done.out]
        /\ presses' = [j \in DOMAIN presses |->
              IF j = k THEN b
              ELSE IF presses[j].pc \in {"send", "after"} THEN [presses[j] EXCEPT !.alone = FALSE] ELSE presses[j]]
    BY <2>4 DEF Page!Moves
  <2> HIDE DEF call
  <2>7. purse' \in Purses /\ purse'[to] = purse[to] + done.out
    <3> DEFINE in == done.in
               out == done.out
    <3>1. in \in Nat /\ out \in Nat /\ purse[from] >= in /\ purse \in Purses
          /\ purse' = PaidFrom(purse, from, in, to, out)
      BY <1>1, <2>1, <2>3, <2>6 DEF PaidFrom
    <3> HIDE DEF from, to, in, out
    <3>2. purse' \in Purses /\ purse'[to] = purse[to] + out
      BY <2>5, <3>1, PurseMoves
    <3> QED BY <3>1, <3>2 DEF out
  <2>8. /\ b \in Calls /\ b.pc = pc /\ b.spent = done.in /\ b.received = done.out /\ b.kind = call.kind
        /\ b.side = call.side /\ b.shown = call.shown /\ b.amount = call.amount /\ b.alone = call.alone
        /\ b.before = call.before
    BY <1>1, <2>1 DEF Calls
  <2> HIDE DEF b
  <2>9. b.alone => b.received = IF b.side = "buy" THEN purse'.base - b.before.base ELSE purse'.quote - b.before.quote
    <3> SUFFICES ASSUME call.alone PROVE done.out = purse'[to] - purse[to]
      <4>1. call.alone => call.before = purse
        BY <1>1, <1>2 DEF Sound
      <4> QED BY <2>2, <2>8, <4>1
    <3>1. purse[to] \in Nat
      BY <1>1, <2>5 DEF Purses
    <3> QED BY <2>1, <2>7, <3>1
  <2>10. Sound(b, chain, purse')
    BY <1>1, <1>2, <2>1, <2>4, <2>8, <2>9 DEF Sound
  <2>11. /\ chain' \in States
         /\ chain.phase = "redeemable" => chain'.phase = "redeemable"
         /\ chain.vault * chain'.supply <= chain'.vault * chain.supply
         /\ chain.supply = 0 => chain'.supply = 0
    <3>0. chain.vault \in Nat /\ chain.supply \in Nat /\ chain.left \in 0..2
      BY <1>1 DEF States
    <3>1. CASE call.quote.venue = "vault"
      <4> DEFINE v == chain.vault
                 s == chain.supply
                 a == call.amount
                 n == done.out
      <4>1. chain' = [chain EXCEPT !.vault = v - n, !.supply = s - a]
        BY <1>1, <1>4, <3>1 DEF States
      <4>2. v \in Nat /\ s \in Nat /\ a \in Nat /\ a <= s /\ n = Net(v, s, a, 200)
        BY <2>1, <3>0, <3>1
      <4> HIDE DEF v, s, a, n
      <4>3. CASE s > 0
        <5>1. n \in Nat /\ n <= v /\ v * (s - a) <= (v - n) * s
          BY <4>2, <4>3, RedemptionRaises
        <5>2. v - n \in Nat /\ s - a \in Nat
          BY <4>2, <5>1
        <5>3. chain' \in States /\ chain'.vault = v - n /\ chain'.supply = s - a /\ chain'.phase = chain.phase
          BY <1>1, <4>1, <5>2 DEF States
        <5> QED BY <4>3, <5>1, <5>3 DEF v, s
      <4>4. CASE s = 0
        <5>1. done.out > 0 /\ Page!Redeemable(chain.vault, chain.supply, call.amount, 200)
          BY <1>3, <1>4, <3>1 DEF Page!Executed, Page!NoQuote, Page!ExitFeeBps, done
        <5>2. Redeemable(chain.vault, chain.supply, call.amount, 200)
          BY <5>1, PageArithmetic
        <5> QED BY <4>4, <5>2 DEF Redeemable, s
      <4> QED BY <4>2, <4>3, <4>4
    <3>2. CASE call.quote.venue = "dbc" /\ call.side = "buy"
      <4>1. chain.left - done.in \in 0..2
        BY <2>1, <3>0, <3>2
      <4>2. chain' = [chain EXCEPT !.left = chain.left - done.in,
                                   !.phase = IF chain.left = done.in THEN "graduating" ELSE chain.phase]
        BY <1>1, <1>4, <3>2 DEF States
      <4>3. chain' \in States /\ chain'.vault = chain.vault /\ chain'.supply = chain.supply
        BY <1>1, <4>1, <4>2 DEF States, Page!Phases
      <4>4. chain.vault * chain.supply \in Nat
        BY <3>0
      <4> QED BY <2>1, <3>2, <4>3, <4>4
    <3>3. CASE ~(call.quote.venue = "vault") /\ ~(call.quote.venue = "dbc" /\ call.side = "buy")
      <4>1. chain' = chain
        BY <1>4, <3>3
      <4>2. chain.vault * chain.supply \in Nat
        BY <3>0
      <4> QED BY <1>1, <4>1, <4>2
    <3> QED BY <3>1, <3>2, <3>3
  <2>12. Sound(b, chain', purse')
    <3>1. /\ chain.vault \in Nat /\ chain.supply \in Nat /\ chain'.vault \in Nat /\ chain'.supply \in Nat
      <4>1. chain \in States /\ chain' \in States
        BY <1>1, <2>11
      <4> QED BY <4>1 DEF States
    <3> DEFINE c == chain
               d == chain'
               p == purse'
    <3>2. /\ Sound(b, c, p) /\ c.vault \in Nat /\ c.supply \in Nat /\ d.vault \in Nat /\ d.supply \in Nat
          /\ c.phase = "redeemable" => d.phase = "redeemable"
          /\ c.vault * d.supply <= d.vault * c.supply
          /\ c.supply = 0 => d.supply = 0
      BY <2>10, <2>11, <3>1
    <3> HIDE DEF c, d, p
    <3>3. Sound(b, d, p)
      BY <3>2, SoundAsFloorRises
    <3> QED BY <3>3 DEF d, p
  <2>13. UNCHANGED <<page, pending>>
    BY <1>2, <1>4
  <2> HIDE DEF from, to
  <2>14. purse' \in Purses /\ k \in DOMAIN presses
    BY <2>7
  <2> QED BY <2>6, <2>11, <2>12, <2>13, <2>14, WalletMoves
<1> QED BY <1>3, <1>4 DEF Page!Send

\* A button was pressed.
LEMMA SubmitKeeps ==
  ASSUME PageInv, NEW panel, NEW call, Page!Submit(panel, call), Sound(call, chain, purse) PROVE PageInv'
<1>1. /\ presses' = Append(presses, call) /\ pending' = [pending EXCEPT ![panel] = TRUE]
      /\ UNCHANGED <<chain, purse, page>>
  BY DEF Page!Submit
<1>2. call \in Calls /\ presses \in Seq(Calls)
  BY DEF Sound, PageInv
<1>3. presses' \in Seq(Calls)
  BY <1>1, <1>2
<1>4. \A j \in DOMAIN presses' : presses'[j] = call \/ (j \in DOMAIN presses /\ presses'[j] = presses[j])
  BY <1>1, <1>2
<1>5. \A j \in DOMAIN presses' : Sound(presses'[j], chain', purse')
  BY <1>1, <1>4 DEF PageInv
<1>6. pending' \in [trade : BOOLEAN, redeem : BOOLEAN]
  BY <1>1 DEF PageInv
<1> QED BY <1>1, <1>3, <1>5, <1>6 DEF PageInv

\* What is told of a quote.
LEMMA ShownType ==
  ASSUME PageInv, NEW entry, entry.amount \in Nat
  PROVE  Page!Shown(entry) \in [venue : Venues, min : Nat]
<1> DEFINE q == Page!QuoteTrade(page, entry.side, entry.amount)
<1>1. q \in Quoted
  BY QuoteTradeType DEF PageInv
<1> HIDE DEF q
<1>2. q.venue \in Venues /\ q.out \in Nat
  BY <1>1 DEF Quoted
<1>3. Page!MinOut(q.out) \in Nat
  BY <1>2, MinOutNat
<1>4. Page!Shown(entry) = [venue |-> q.venue, min |-> Page!MinOut(q.out)] \/ Page!Shown(entry) = Page!Nothing
  BY DEF Page!Shown, Page!Expected, q
<1> QED BY <1>2, <1>3, <1>4, NothingType DEF Venues

LEMMA PressKeeps ==
  ASSUME PageInv, Page!PresalePress \/ Page!MarketPress \/ Page!RedeemPress PROVE PageInv'
<1>1. ASSUME NEW entry \in Page!PresaleForm \cup Page!MarketForm,
             Page!Submit("trade", Page!Call("trade", entry, Page!Shown(entry)))
      PROVE  PageInv'
  <2>1. entry.side \in {"buy", "sell"} /\ entry.pay \in {"quote", "usdc"} /\ entry.amount \in Nat
    BY DEF Page!PresaleForm, Page!MarketForm, Page!PayTokens, Page!Buys, Page!Sells
  <2> DEFINE call == Page!Call("trade", entry, Page!Shown(entry))
  <2>2. /\ call \in Calls /\ call.kind = "trade" /\ call.side = entry.side /\ call.pc = "begin" /\ call.spent = 0
    BY <2>1, ShownType, CallType
  <2>3. Page!Submit("trade", call)
    BY <1>1
  <2> HIDE DEF call
  <2>4. Sound(call, chain, purse)
    BY <2>1, <2>2 DEF Sound
  <2> QED BY <2>3, <2>4, SubmitKeeps
<1>2. CASE Page!PresalePress \/ Page!MarketPress
  BY <1>1, <1>2 DEF Page!PresalePress, Page!MarketPress
<1>3. CASE Page!RedeemPress
  <2> DEFINE shown(amount) == [venue |-> "vault", min |-> Page!PreviewRedeem(page, amount)]
             entry(amount) == [side |-> "sell", pay |-> "quote", amount |-> amount]
  <2>1. PICK amount \in {40} :
           /\ amount <= page.supply
           /\ Page!Submit("redeem", Page!Call("redeem", entry(amount), shown(amount)))
    BY <1>3 DEF Page!RedeemPress, Page!Sells
  <2> DEFINE min == Page!PreviewRedeem(page, amount)
             v == page.vault
             s == page.supply
             call == Page!Call("redeem", entry(amount), shown(amount))
  <2>2. v \in Nat /\ s \in Nat \ {0} /\ s >= 40 /\ amount = 40
    BY <2>1 DEF PageInv, States
  <2>3. min = Net(v, s, amount, 200)
    BY PageArithmetic DEF Page!PreviewRedeem, Page!ExitFeeBps
  <2>4. chain.phase = "redeemable" /\ v * chain.supply <= chain.vault * s
    BY <1>3 DEF Page!RedeemPress, Page!RedeemOpen, PageInv
  <2> HIDE DEF v, s, min
  <2>5. min \in Nat
    BY <2>2, <2>3, RedemptionRaises
  <2>6. shown(amount) = [venue |-> "vault", min |-> min]
    BY DEF min
  <2>7. shown(amount) \in [venue : Venues, min : Nat] /\ shown(amount).min = min
    BY <2>5, <2>6 DEF Venues
  <2>8. entry(amount).side = "sell" /\ entry(amount).pay = "quote" /\ entry(amount).amount = amount /\ amount \in Nat
    BY <2>2
  <2>9. Page!Submit("redeem", call)
    BY <2>1
  <2> HIDE DEF shown, entry
  <2>10. /\ call \in Calls /\ call.kind = "redeem" /\ call.side = "sell" /\ call.amount = amount
         /\ call.shown = shown(amount) /\ call.pc = "begin" /\ call.spent = 0
    BY <2>7, <2>8, CallType
  <2> HIDE DEF call
  <2>11. Sound(call, chain, purse)
    BY <2>2, <2>3, <2>4, <2>7, <2>10 DEF Sound
  <2> QED BY <2>9, <2>11, SubmitKeeps
<1> QED BY <1>2, <1>3

LEMMA PageNext == PageInv /\ [Page!Next]_pageVars => PageInv'
<1> SUFFICES ASSUME PageInv, [Page!Next]_pageVars PROVE PageInv'
  OBVIOUS
<1>1. CASE UNCHANGED pageVars
  BY <1>1 DEF PageInv, pageVars
<1>2. CASE Page!Poll
  <2>1. page' = chain /\ UNCHANGED <<chain, purse, presses>>
    BY <1>2 DEF Page!Poll
  <2>2. pending' \in [trade : BOOLEAN, redeem : BOOLEAN]
    BY <1>2 DEF Page!Poll, PageInv
  <2>3. page'.vault * chain'.supply <= chain'.vault * page'.supply
    <3>1. chain.vault \in Nat /\ chain.supply \in Nat
      BY DEF PageInv, States
    <3>2. chain.vault * chain.supply \in Nat
      BY <3>1
    <3> QED BY <2>1, <3>2
  <2> QED BY <2>1, <2>2, <2>3 DEF PageInv
<1>3. CASE Page!PresalePress \/ Page!MarketPress \/ Page!RedeemPress
  BY <1>3, PressKeeps
<1>4. CASE Page!RedeemEdit
  <2>1. pending' \in [trade : BOOLEAN, redeem : BOOLEAN] /\ UNCHANGED <<chain, purse, page, presses>>
    BY <1>4 DEF Page!RedeemEdit, PageInv
  <2> QED BY <2>1 DEF PageInv
<1>5. ASSUME NEW k \in DOMAIN presses, Page!Step(k) PROVE PageInv'
  <2>1. CASE Page!Fails(k) \/ Page!Lost(k) \/ Page!After(k)
    <3>1. Page!Returns(k, presses[k]) /\ UNCHANGED <<chain, purse, page>>
      BY <2>1 DEF Page!Fails, Page!Lost, Page!After
    <3> QED BY <3>1, CallReturns
  <2>2. CASE Page!BeginTrade(k) \/ Page!BeginRedeem(k)
    BY <2>2, BeginKeeps
  <2> QED
    BY <1>5, <2>1, <2>2, RouteKeeps, AgainKeeps, BuildTradeKeeps, BuildRedeemKeeps, SendKeeps DEF Page!Step
<1>6. CASE Page!Others
  BY <1>6, OthersKeep
<1> QED BY <1>1, <1>2, <1>3, <1>4, <1>5, <1>6 DEF Page!Next

PageHolds == Page!TypeOK /\ Page!NeverBelowShown /\ Page!OfferedIsOpen /\ Page!ToldIsReceived

LEMMA PageInvImplies == PageInv => PageHolds
<1> SUFFICES ASSUME PageInv PROVE PageHolds
  OBVIOUS
<1>1. \A k \in DOMAIN presses : Sound(presses[k], chain, purse)
  BY DEF PageInv
<1>2. Page!TypeOK
  BY <1>1 DEF PageInv, Page!TypeOK, States, Purses, Sound, Calls
<1>3. Page!NeverBelowShown
  BY <1>1 DEF Page!NeverBelowShown, Sound
<1>4. Page!OfferedIsOpen
  BY <1>1 DEF Page!OfferedIsOpen, Page!RedeemOpen, Sound
<1>5. Page!ToldIsReceived
  BY <1>1 DEF Page!ToldIsReceived, Page!Told, Sound
<1> QED BY <1>2, <1>3, <1>4, <1>5 DEF PageHolds

(***************************************************************************)
(* CreateForm.                                                             *)
(***************************************************************************)

\* What is being launched is what the form shows.
LaunchShown ==
  \E s \in session :
     /\ s.launch.name = values.name /\ s.launch.terms = values.terms
     /\ s.uri = IF values.own # Form!None THEN Form!OwnUri
                ELSE IF Form!Describes(values) THEN {Form!BuildMetadataJson(values)} ELSE {}

\* A URI the route has judged what it points to, or one it has no part in.
Judged(uri) ==
  \A document \in uri \ Form!OwnUri :
     storage /\ (document.image # Form!None => Form!InspectImage(document.image))

\* No upload is needed for what the form holds.
UriKnown ==
  values.own # Form!None \/ ~Form!Describes(values) \/ \E u \in uploaded : u.key = Form!UploadKey(values)

\* Inductive: while the form is locked its values are those of the session and of the
\* upload, which a retry needs not repeat; and an upload that is known was judged.
FormInv ==
  /\ values \in Form!LaunchFormValues /\ values.image # "document" /\ market \in Form!Sources
  /\ submit.status \in {"idle", "submitting", "done"} /\ submit.ok \in BOOLEAN /\ submit.resume \in BOOLEAN
  /\ submit.stage \in IF submit.status = "submitting" THEN {"upload", "launch"} ELSE {"none"}
  /\ submit.status = "idle" => ~submit.resume
  /\ submit.status = "submitting" /\ submit.stage = "upload" =>
        /\ submit.input = {[name |-> values.name, terms |-> values.terms]} /\ ~submit.resume
        /\ values.own = Form!None /\ Form!Describes(values) /\ Form!ValidateLaunchForm(values)
  /\ submit.status = "submitting" /\ submit.stage = "launch" => LaunchShown /\ UriKnown
  /\ submit.status = "done" /\ (submit.ok \/ submit.resume) => LaunchShown /\ UriKnown
  /\ \A u \in uploaded : u.uri = {u.key} /\ Judged(u.uri) /\ \A w \in uploaded : w = u
  /\ \A s \in session : Judged(s.uri)

LEMMA FormInit == Form!Init => FormInv
<1> SUFFICES ASSUME Form!Init PROVE FormInv
  OBVIOUS
<1>1. /\ values = [name |-> "a", text |-> Form!NoText, image |-> "none", own |-> "none", terms |-> "s"]
      /\ submit = [status |-> "idle", stage |-> "none", ok |-> FALSE, resume |-> FALSE, input |-> {}]
      /\ market = "jupiter" /\ uploaded = {} /\ session = {}
  BY DEF Form!Init, Form!None, Form!Idle
<1>2. values \in Form!LaunchFormValues /\ values.image # "document" /\ market \in Form!Sources
  BY <1>1 DEF Form!LaunchFormValues, Form!Texts, Form!Files, Form!None, Form!Sources
<1> QED BY <1>1, <1>2 DEF FormInv

\* The fields can only change while the form is not locked, and nothing depends on them then.
LEMMA EditKeeps ==
  ASSUME FormInv, ~Form!Locked, values' \in Form!LaunchFormValues, values'.image # "document",
         submit' = submit \/ (submit.status = "done" /\ submit' = Form!Idle),
         UNCHANGED <<market, uploaded, session, storage>>
  PROVE  FormInv'
<1>1. submit.status = "idle" \/ (submit.status = "done" /\ ~submit.ok /\ ~submit.resume)
  BY DEF FormInv, Form!Locked
<1>2. \A uri : Judged(uri)' = Judged(uri)
  BY DEF Judged
<1>3. CASE submit' = submit
  BY <1>1, <1>2, <1>3 DEF FormInv
<1>4. CASE submit' = Form!Idle
  <2>1. submit' = [status |-> "idle", stage |-> "none", ok |-> FALSE, resume |-> FALSE, input |-> {}]
    BY <1>4 DEF Form!Idle
  <2> QED BY <1>2, <2>1 DEF FormInv
<1> QED BY <1>3, <1>4

\* A call in progress, or one that has ended, while the form stays as it is.
LEMMA CallKeeps ==
  ASSUME FormInv, values' = values, UNCHANGED storage, market' \in Form!Sources,
         NEW status, NEW during, NEW ok \in BOOLEAN, NEW resume \in BOOLEAN, NEW input,
         submit' = [status |-> status, stage |-> during, ok |-> ok, resume |-> resume, input |-> input],
         \/ status = "submitting" /\ during = "upload" /\ ~resume
            /\ input = {[name |-> values.name, terms |-> values.terms]}
            /\ values.own = Form!None /\ Form!Describes(values) /\ Form!ValidateLaunchForm(values)
         \/ status = "submitting" /\ during = "launch" /\ LaunchShown' /\ UriKnown'
         \/ status = "done" /\ during = "none" /\ (ok \/ resume => LaunchShown' /\ UriKnown')
         \/ status = "idle" /\ during = "none" /\ ~resume,
         \A u \in uploaded' : u.uri = {u.key} /\ Judged(u.uri) /\ \A w \in uploaded' : w = u,
         \A s \in session' : Judged(s.uri)
  PROVE  FormInv'
<1>1. \A uri : Judged(uri)' = Judged(uri)
  BY DEF Judged
<1>2. values' \in Form!LaunchFormValues /\ values'.image # "document"
  BY DEF FormInv
<1>3. /\ submit'.status = status /\ submit'.stage = during /\ submit'.ok = ok /\ submit'.resume = resume
      /\ submit'.input = input
  OBVIOUS
<1>4. /\ Form!Describes(values)' = Form!Describes(values)
      /\ Form!ValidateLaunchForm(values)' = Form!ValidateLaunchForm(values)
  BY DEF Form!Describes, Form!ValidateLaunchForm
<1> QED BY <1>1, <1>2, <1>3, <1>4 DEF FormInv

\* createLaunch is called for what the form shows, with a URI that has been judged.
LEMMA LaunchKeeps ==
  ASSUME FormInv, NEW resume \in BOOLEAN, NEW input, NEW uri, Form!CreateLaunch(resume, input, uri),
         UNCHANGED <<values, market, storage>>,
         input = {[name |-> values.name, terms |-> values.terms]},
         uri = IF values.own # Form!None THEN Form!OwnUri
               ELSE IF Form!Describes(values) THEN {Form!BuildMetadataJson(values)} ELSE {},
         Judged(uri), resume => LaunchShown, UriKnown',
         \A u \in uploaded' : u.uri = {u.key} /\ Judged(u.uri) /\ \A w \in uploaded' : w = u
  PROVE  FormInv'
<1>1. /\ submit' = [status |-> "submitting", stage |-> "launch", ok |-> FALSE, resume |-> resume, input |-> {}]
      /\ session' = IF resume THEN session ELSE {[launch |-> i, uri |-> uri] : i \in input}
  BY DEF Form!CreateLaunch, Form!Submitting
<1>2. LaunchShown'
  <2>1. CASE resume
    <3>1. session' = session /\ values' = values /\ LaunchShown
      BY <1>1, <2>1
    <3> QED BY <3>1 DEF LaunchShown, Form!Describes, Form!BuildMetadataJson
  <2>2. CASE ~resume
    <3> DEFINE s == [launch |-> [name |-> values.name, terms |-> values.terms], uri |-> uri]
    <3>1. s \in session'
      BY <1>1, <2>2
    <3>2. s.launch.name = values.name /\ s.launch.terms = values.terms /\ s.uri = uri
      OBVIOUS
    <3> HIDE DEF s
    <3>3. Form!Describes(values)' = Form!Describes(values)
          /\ Form!BuildMetadataJson(values)' = Form!BuildMetadataJson(values)
      BY DEF Form!Describes, Form!BuildMetadataJson
    <3> QED BY <3>1, <3>2, <3>3 DEF LaunchShown
  <2> QED BY <2>1, <2>2
<1>3. \A s \in session' : Judged(s.uri)
  <2>1. CASE resume
    BY <1>1, <2>1 DEF FormInv
  <2>2. CASE ~resume
    <3>1. session' = {[launch |-> i, uri |-> uri] : i \in input}
      BY <1>1, <2>2
    <3>2. \A s \in session' : s.uri = uri
      BY <3>1
    <3> QED BY <3>2
  <2> QED BY <2>1, <2>2
<1>4. market' \in Form!Sources
  BY DEF FormInv
<1> QED BY <1>1, <1>2, <1>3, <1>4, CallKeeps
\* A URI of the form's own, or none at all, is none of the route's.
LEMMA OwnJudged == Judged(Form!OwnUri) /\ Judged({})
BY DEF Judged

LEMMA RunKeeps ==
  ASSUME FormInv, NEW resume \in BOOLEAN, Form!Run(resume),
         IF resume THEN LaunchShown /\ UriKnown ELSE Form!ValidateLaunchForm(values)
  PROVE  FormInv'
<1> DEFINE input == {[name |-> values.name, terms |-> values.terms]}
           uri == IF values.own # Form!None THEN Form!OwnUri
                  ELSE IF Form!Describes(values) THEN {Form!BuildMetadataJson(values)} ELSE {}
<1>1. UNCHANGED <<values, market, uploaded, storage>>
  BY DEF Form!Run
<1>2. /\ \A u \in uploaded : u.uri = {u.key} /\ Judged(u.uri) /\ \A w \in uploaded : w = u
      /\ \A s \in session : Judged(s.uri)
      /\ market \in Form!Sources
  BY DEF FormInv
<1>3. /\ UriKnown' = UriKnown
      /\ Form!BuildMetadataJson(values) = Form!UploadKey(values)
  BY <1>1 DEF UriKnown, Form!Describes, Form!UploadKey, Form!BuildMetadataJson
<1>4. CASE values.own # Form!None
  <2>1. Form!CreateLaunch(resume, input, Form!OwnUri)
    BY <1>4 DEF Form!Run
  <2>2. uri = Form!OwnUri /\ UriKnown'
    BY <1>3, <1>4 DEF UriKnown
  <2> HIDE DEF uri
  <2> QED BY <1>1, <1>2, <2>1, <2>2, OwnJudged, LaunchKeeps DEF uri
<1>5. CASE values.own = Form!None /\ ~Form!Describes(values)
  <2>1. Form!CreateLaunch(resume, input, {})
    BY <1>5 DEF Form!Run
  <2>2. uri = {} /\ UriKnown'
    BY <1>3, <1>5 DEF UriKnown
  <2> QED BY <1>1, <1>2, <2>1, <2>2, OwnJudged, LaunchKeeps
<1>6. CASE /\ values.own = Form!None /\ Form!Describes(values)
           /\ \E u \in uploaded : u.key = Form!UploadKey(values)
  <2>1. PICK u \in uploaded : Form!CreateLaunch(resume, input, u.uri)
    BY <1>6 DEF Form!Run
  <2>2. u.key = Form!UploadKey(values)
    BY <1>2, <1>6
  <2>3. u.uri = {Form!BuildMetadataJson(values)} /\ Judged(u.uri)
    BY <1>2, <1>3, <2>2
  <2>4. uri = u.uri /\ UriKnown'
    BY <1>3, <1>6, <2>3 DEF UriKnown
  <2> QED BY <1>1, <1>2, <2>1, <2>3, <2>4, LaunchKeeps
<1>7. CASE /\ values.own = Form!None /\ Form!Describes(values)
           /\ ~\E u \in uploaded : u.key = Form!UploadKey(values)
  <2>1. Form!Submitting("upload", resume, input) /\ UNCHANGED session
    BY <1>7 DEF Form!Run
  <2>2. ~resume
    BY <1>7 DEF UriKnown
  <2>3. submit' = [status |-> "submitting", stage |-> "upload", ok |-> FALSE, resume |-> resume, input |-> input]
    BY <2>1 DEF Form!Submitting
  <2> QED BY <1>1, <1>2, <1>7, <2>1, <2>2, <2>3, CallKeeps
<1> QED BY <1>4, <1>5, <1>6, <1>7

LEMMA UploadsKeeps == FormInv /\ Form!Uploads => FormInv'
<1> SUFFICES ASSUME FormInv, Form!Uploads PROVE FormInv'
  OBVIOUS
<1> DEFINE doc == Form!BuildMetadataJson(values)
           key == Form!UploadKey(values)
<1>1. /\ submit.status = "submitting" /\ submit.stage = "upload" /\ Form!HandleUploadRequest(values)
      /\ uploaded' = {[key |-> key, uri |-> {doc}]}
      /\ Form!CreateLaunch(submit.resume, submit.input, {doc}) /\ UNCHANGED <<values, market, storage>>
  BY DEF Form!Uploads
<1>2. /\ submit.input = {[name |-> values.name, terms |-> values.terms]} /\ submit.resume = FALSE
      /\ values.own = Form!None /\ Form!Describes(values)
  BY <1>1 DEF FormInv
<1>3. doc = key /\ doc.image = values.image /\ key' = key
  BY <1>1 DEF Form!BuildMetadataJson, Form!UploadKey
<1>4. Judged({doc})
  BY <1>1, <1>3 DEF Judged, Form!HandleUploadRequest
<1> HIDE DEF doc, key
<1>5. \A u \in uploaded' : u.uri = {u.key} /\ u.uri = {doc} /\ \A w \in uploaded' : w = u
  BY <1>1, <1>3
<1>6. \A u \in uploaded' : u.uri = {u.key} /\ Judged(u.uri) /\ \A w \in uploaded' : w = u
  BY <1>4, <1>5
<1>7. UriKnown'
  <2> DEFINE u == [key |-> key, uri |-> {doc}]
  <2>1. u \in uploaded' /\ u.key = key'
    BY <1>1, <1>3
  <2> QED BY <2>1 DEF UriKnown, key
<1>8. Form!CreateLaunch(FALSE, submit.input, {doc})
  BY <1>1, <1>2
<1>9. {doc} = IF values.own # Form!None THEN Form!OwnUri
              ELSE IF Form!Describes(values) THEN {Form!BuildMetadataJson(values)} ELSE {}
  BY <1>2 DEF doc
<1>10. UNCHANGED <<values, market, storage>> /\ FALSE \in BOOLEAN
  BY <1>1
<1> DEFINE uri == {doc}
           input == submit.input
<1>11. /\ Form!CreateLaunch(FALSE, input, uri) /\ Judged(uri)
       /\ input = {[name |-> values.name, terms |-> values.terms]}
       /\ uri = IF values.own # Form!None THEN Form!OwnUri
                 ELSE IF Form!Describes(values) THEN {Form!BuildMetadataJson(values)} ELSE {}
  BY <1>2, <1>4, <1>8, <1>9
<1> HIDE DEF uri, input
<1> QED BY <1>6, <1>7, <1>10, <1>11, LaunchKeeps

LEMMA FormNext == FormInv /\ [Form!Next]_formVars => FormInv'
<1> SUFFICES ASSUME FormInv, [Form!Next]_formVars PROVE FormInv'
  OBVIOUS
<1>0. /\ \A u \in uploaded : u.uri = {u.key} /\ Judged(u.uri) /\ \A w \in uploaded : w = u
      /\ \A s \in session : Judged(s.uri)
      /\ market \in Form!Sources
  BY DEF FormInv
<1>1. CASE UNCHANGED formVars
  BY <1>1 DEF FormInv, formVars, LaunchShown, UriKnown, Judged, Form!Describes, Form!BuildMetadataJson,
              Form!UploadKey, Form!ValidateLaunchForm
<1>2. ASSUME NEW fields \in SUBSET {"name", "text", "own", "terms"}, Form!Edit(fields)
      PROVE  /\ ~Form!Locked /\ values' \in Form!LaunchFormValues /\ values'.image # "document"
             /\ UNCHANGED <<market, uploaded, session, storage>>
  <2>1. PICK v \in Form!LaunchFormValues, field \in fields : v = [values EXCEPT ![field] = v[field]] /\ values' = v
    BY <1>2 DEF Form!Edit
  <2>2. v.image = values.image
    BY <2>1 DEF FormInv, Form!LaunchFormValues
  <2> QED BY <1>2, <2>1, <2>2 DEF Form!Edit, FormInv
<1>3. Form!ClearFailure = submit \/ (submit.status = "done" /\ Form!ClearFailure = Form!Idle)
  BY DEF Form!ClearFailure
<1>4. CASE Form!TokenFields \/ Form!ThresholdFields
  <2>1. PICK fields \in SUBSET {"name", "text", "own", "terms"} : Form!Edit(fields) /\ submit' = Form!ClearFailure
    BY <1>4 DEF Form!TokenFields, Form!ThresholdFields, Form!Update
  <2> QED BY <1>2, <1>3, <2>1, EditKeeps
<1>5. CASE Form!FirstBuy
  <2>1. Form!Edit({"terms"}) /\ submit' = submit
    BY <1>5 DEF Form!FirstBuy
  <2> QED BY <1>2, <2>1, EditKeeps
<1>6. CASE Form!PickImage
  <2>1. PICK file \in {"cat", "damaged", "document"} :
           values' = IF file = "document" THEN values ELSE [values EXCEPT !.image = file]
    BY <1>6 DEF Form!PickImage, Form!Files, Form!ImageFileError
  <2>2. values' \in Form!LaunchFormValues /\ values'.image # "document"
    BY <2>1 DEF FormInv, Form!LaunchFormValues, Form!Files
  <2> QED BY <1>3, <1>6, <2>2, EditKeeps DEF Form!PickImage
<1>7. CASE Form!RemoveImage
  <2>1. values' \in Form!LaunchFormValues /\ values'.image # "document"
    BY <1>7 DEF FormInv, Form!RemoveImage, Form!LaunchFormValues, Form!None
  <2> QED BY <1>7, <2>1, EditKeeps DEF Form!RemoveImage
<1>8. CASE Form!Poll
  <2>1. UNCHANGED <<values, submit, uploaded, session, storage>> /\ market' \in Form!Sources
    BY <1>8 DEF Form!Poll
  <2> QED
    BY <2>1 DEF FormInv, LaunchShown, UriKnown, Judged, Form!Describes, Form!BuildMetadataJson,
                Form!UploadKey, Form!ValidateLaunchForm
<1>9. CASE Form!OnSubmit
  <2>1. Form!ValidateLaunchForm(values) /\ Form!Run(FALSE) /\ FALSE \in BOOLEAN
    BY <1>9 DEF Form!OnSubmit, Form!CanSubmit
  <2> QED BY <2>1, RunKeeps
<1>10. CASE Form!Retry
  <2>1. submit.status = "done" /\ submit.resume /\ Form!Run(TRUE) /\ TRUE \in BOOLEAN
    BY <1>10 DEF Form!Retry
  <2>2. LaunchShown /\ UriKnown
    BY <2>1 DEF FormInv
  <2> QED BY <2>1, <2>2, RunKeeps
<1>11. CASE Form!StartOver
  <2>1. /\ submit' = [status |-> "idle", stage |-> "none", ok |-> FALSE, resume |-> FALSE, input |-> {}]
        /\ UNCHANGED <<values, market, uploaded, session, storage>>
    BY <1>11 DEF Form!StartOver, Form!Idle
  <2> QED BY <1>0, <2>1, CallKeeps
<1>12. CASE Form!UploadFails
  <2>1. /\ submit' = [status |-> "done", stage |-> "none", ok |-> FALSE, resume |-> FALSE, input |-> {}]
        /\ UNCHANGED <<values, market, uploaded, session, storage>>
    BY <1>12 DEF Form!UploadFails, Form!Done
  <2> QED BY <1>0, <2>1, CallKeeps
<1>13. CASE Form!Uploads
  BY <1>13, UploadsKeeps
<1>14. CASE Form!LaunchEnds
  <2>1. /\ submit.status = "submitting" /\ submit.stage = "launch" /\ UNCHANGED <<values, market, uploaded, storage>>
        /\ session' = IF submit'.ok \/ submit'.resume THEN session ELSE {}
    BY <1>14 DEF Form!LaunchEnds
  <2>2. PICK ok \in BOOLEAN, resume \in BOOLEAN :
           submit' = [status |-> "done", stage |-> "none", ok |-> ok, resume |-> resume, input |-> {}]
    BY <1>14 DEF Form!LaunchEnds, Form!Done
  <2>3. LaunchShown /\ UriKnown
    BY <2>1 DEF FormInv
  <2>4. ok \/ resume => LaunchShown' /\ UriKnown'
    BY <2>1, <2>2, <2>3 DEF LaunchShown, UriKnown, Form!Describes, Form!BuildMetadataJson, Form!UploadKey
  <2>5. \A s \in session' : Judged(s.uri)
    BY <1>0, <2>1
  <2> QED BY <1>0, <2>1, <2>2, <2>4, <2>5, CallKeeps
<1> QED
  BY <1>1, <1>4, <1>5, <1>6, <1>7, <1>8, <1>9, <1>10, <1>11, <1>12, <1>13, <1>14 DEF Form!Next

FormHolds == Form!TypeOK /\ Form!LaunchedAsShown /\ Form!UriResolves /\ Form!OnlyTheseAreRefused

LEMMA FormInvImplies == FormInv => FormHolds
<1> SUFFICES ASSUME FormInv PROVE FormHolds
  OBVIOUS
<1>1. Form!TypeOK
  BY DEF FormInv, Form!TypeOK
<1>2. Form!LaunchedAsShown
  BY DEF FormInv, LaunchShown, Form!LaunchedAsShown, Form!Launching, Form!Locked
<1>3. Form!UriResolves
  BY DEF FormInv, Judged, Form!UriResolves
<1>4. Form!OnlyTheseAreRefused
  <2> SUFFICES ASSUME submit.status = "submitting", submit.stage = "upload", storage,
                      values.image # "damaged", values.text # Form!Text(MaxDescription, 1)
               PROVE  Form!HandleUploadRequest(values)
    BY DEF Form!OnlyTheseAreRefused
  <2>1. ~Form!TokenNameError(values.name)
    BY DEF FormInv, Form!ValidateLaunchForm
  <2>2. values.image # Form!None => Form!InspectImage(values.image)
    BY DEF FormInv, Form!LaunchFormValues, Form!Files, Form!InspectImage
  <2>3. ~Form!DescriptionError(values.text.chars + values.text.breaks)
    <3>1. values.text \in {Form!NoText, Form!Text(MaxDescription - 1, 1)}
      BY DEF FormInv, Form!LaunchFormValues, Form!Texts
    <3>2. values.text.chars + values.text.breaks <= MaxDescription
      BY <3>1, SdkAssumption DEF Form!NoText, Form!Text
    <3> QED BY <3>1, <3>2, SdkAssumption DEF Form!DescriptionError, Form!NoText, Form!Text
  <2> QED BY <2>1, <2>2, <2>3 DEF Form!HandleUploadRequest
<1> QED BY <1>1, <1>2, <1>3, <1>4 DEF FormHolds

\* A retry has what it needs of the upload, or needs none.
LEMMA RetryKeeps ==
  ASSUME FormInv, [Form!Next]_formVars, submit.resume
  PROVE  ~(submit'.status = "submitting" /\ submit'.stage = "upload")
<1>1. /\ submit.status = "done" \/ (submit.status = "submitting" /\ submit.stage = "launch")
      /\ submit.status = "done" => UriKnown /\ Form!Locked
  BY DEF FormInv, Form!Locked
<1>2. CASE UNCHANGED formVars
  BY <1>1, <1>2 DEF formVars
<1>3. ASSUME NEW fields \in SUBSET {"name", "text", "own", "terms"}, Form!Edit(fields)
      PROVE  FALSE
  BY <1>1, <1>3 DEF Form!Edit, Form!Locked
<1>4. CASE Form!TokenFields \/ Form!ThresholdFields \/ Form!FirstBuy
  BY <1>3, <1>4 DEF Form!TokenFields, Form!ThresholdFields, Form!FirstBuy, Form!Update
<1>5. CASE Form!PickImage
  BY <1>1, <1>5 DEF Form!PickImage, Form!Locked
<1>6. CASE Form!RemoveImage \/ Form!Poll
  BY <1>1, <1>6 DEF Form!RemoveImage, Form!Poll
<1>7. CASE Form!OnSubmit
  BY <1>1, <1>7 DEF Form!OnSubmit, Form!CanSubmit, Form!Locked
<1>8. CASE Form!Retry
  <2>1. UriKnown /\ Form!Run(TRUE)
    BY <1>1, <1>8 DEF Form!Retry
  <2>2. PICK input, uri : Form!CreateLaunch(TRUE, input, uri)
    BY <2>1 DEF Form!Run, UriKnown
  <2> QED BY <2>2 DEF Form!CreateLaunch, Form!Submitting
<1>9. CASE Form!StartOver \/ Form!UploadFails \/ Form!LaunchEnds
  BY <1>9 DEF Form!StartOver, Form!UploadFails, Form!LaunchEnds, Form!Done, Form!Idle
<1>10. CASE Form!Uploads
  BY <1>10 DEF Form!Uploads, Form!CreateLaunch, Form!Submitting
<1> QED BY <1>2, <1>4, <1>5, <1>6, <1>7, <1>8, <1>9, <1>10 DEF Form!Next

(***************************************************************************)
(* LaunchAccounts.                                                         *)
(***************************************************************************)

\* The slots of a Launch account and of a pool.
LaunchSlots == {"created", "config", "creator", "pool", "baseMint", "quoteMint", "quoteTokenProgram", "vault"}
PoolSlots == {"config", "base", "quote", "creator", "migrated"}

\* A launch has the mints it was to have, and the vault and the pool derived from them.
LaunchFits(c) ==
  LET l == launches[c]
  IN  /\ l.config = c /\ l.baseMint = terms[c].base /\ l.quoteMint = terms[c].quote
      /\ l.quoteTokenProgram = Accounts!ProgramOf(l.quoteMint)
      /\ l.vault = Accounts!VaultAddress(c, l.quoteMint, l.quoteTokenProgram)
      /\ l.pool \in {Accounts!None, Accounts!DbcPoolPda(c, l.baseMint, l.quoteMint)}

\* The NFT of a position that was given away.
Gift == <<"nft", <<"key", "gift">>>>

\* Inductive: a base mint has one pool and a position one NFT, so that an address names one.
AccountsInv ==
  /\ \A c \in Accounts!Configs : terms[c].base # terms[c].quote
  /\ DOMAIN launches = Accounts!Configs
  /\ \A c \in Accounts!Configs : DOMAIN launches[c] = LaunchSlots
  /\ \A c \in Accounts!Created : LaunchFits(c)
  /\ \A p \in pools : /\ DOMAIN p = PoolSlots /\ p.config \in Accounts!Created /\ p.base \in Accounts!Mints
                      /\ p.quote = launches[p.config].quoteMint
  /\ \A p, q \in pools : p.base = q.base => p = q
  /\ \A x \in positions :
        /\ x.pool[3] = {x.mints[1], x.mints[2]} /\ \E c \in Accounts!Configs : x.owner = Accounts!AuthorityPda(c)
        /\ x.nft = Gift \/ \E p \in pools : p.migrated /\ x.nft = <<"nft", Accounts!PoolAddress(p)>>
  /\ \A x, y \in positions : x.nft = y.nft => x = y

LEMMA AccountsInit == Accounts!Init => AccountsInv
<1> SUFFICES ASSUME Accounts!Init PROVE AccountsInv
  OBVIOUS
<1>1. \A c \in DOMAIN terms : terms[c].base # terms[c].quote
  BY DEF Accounts!Init, Term
<1>2. launches = [c \in Accounts!Configs |-> Accounts!Unlaunched(c)] /\ pools = {} /\ positions = {}
  BY DEF Accounts!Init
<1>3. \A c \in Accounts!Configs : DOMAIN launches[c] = LaunchSlots
  BY <1>2 DEF Accounts!Unlaunched, LaunchSlots
<1>4. Accounts!Created = {}
  BY <1>2 DEF Accounts!Created, Accounts!Unlaunched
<1> QED BY <1>1, <1>2, <1>3, <1>4 DEF AccountsInv, Accounts!Configs

\* A pool's address tells its config and, its quote mint being the launch's, its base mint.
LEMMA PoolOfAddress ==
  ASSUME AccountsInv, NEW p \in pools, NEW q \in pools, Accounts!PoolAddress(p) = Accounts!PoolAddress(q)
  PROVE  p = q
<1>1. p.config = q.config /\ {p.base, p.quote} = {q.base, q.quote}
  BY DEF Accounts!PoolAddress, Accounts!DbcPoolPda
<1>2. p.quote = q.quote
  BY <1>1 DEF AccountsInv
<1>3. p.base = q.base
  BY <1>1, <1>2
<1> QED BY <1>3 DEF AccountsInv

LEMMA CreateLaunchKeeps == ASSUME AccountsInv, NEW c \in Accounts!Configs, Accounts!CreateLaunch(c) PROVE AccountsInv'
<1> DEFINE ix == Accounts!CreateLaunchIx(c, terms[c])
           l == [created |-> TRUE, config |-> c, creator |-> ix.creator, pool |-> Accounts!None,
                 baseMint |-> ix.baseMint, quoteMint |-> ix.quoteMint, quoteTokenProgram |-> ix.quoteProgram,
                 vault |-> ix.vault]
<1>1. /\ launches' = [launches EXCEPT ![c] = l] /\ UNCHANGED <<terms, pools, positions>>
      /\ ~launches[ix.config].created
  BY DEF Accounts!CreateLaunch, Accounts!CreateAccepted
<1>2. /\ ix.config = c /\ ix.baseMint = terms[c].base /\ ix.quoteMint = terms[c].quote
      /\ ix.quoteProgram = Accounts!ProgramOf(terms[c].quote)
      /\ ix.vault = Accounts!VaultAddress(c, terms[c].quote, Accounts!ProgramOf(terms[c].quote))
  BY DEF Accounts!CreateLaunchIx, Accounts!Joined, Accounts!Restrict, Accounts!Derived, Accounts!FeeSplitSlots
<1> HIDE DEF ix
<1>3. /\ DOMAIN l = LaunchSlots /\ l.created /\ l.config = c /\ l.pool = Accounts!None
      /\ l.baseMint = terms[c].base /\ l.quoteMint = terms[c].quote
      /\ l.quoteTokenProgram = Accounts!ProgramOf(terms[c].quote)
      /\ l.vault = Accounts!VaultAddress(c, terms[c].quote, Accounts!ProgramOf(terms[c].quote))
  BY <1>2 DEF LaunchSlots
<1> HIDE DEF l
<1>4. /\ DOMAIN launches' = Accounts!Configs /\ launches'[c] = l /\ \A d \in Accounts!Configs \ {c} : launches'[d] = launches[d]
      /\ c \notin Accounts!Created /\ Accounts!Configs' = Accounts!Configs
  BY <1>1, <1>2 DEF AccountsInv, Accounts!Configs, Accounts!Created
<1>5. Accounts!Created' = Accounts!Created \union {c} /\ Accounts!Mints' = Accounts!Mints
  BY <1>1, <1>3, <1>4 DEF Accounts!Created, Accounts!Configs, Accounts!Mints
<1>6. \A d \in Accounts!Created' : LaunchFits(d)'
  <2>1. \A d \in Accounts!Created : LaunchFits(d)'
    <3> SUFFICES ASSUME NEW d \in Accounts!Created PROVE LaunchFits(d)'
      OBVIOUS
    <3>1. launches'[d] = launches[d] /\ terms' = terms /\ LaunchFits(d)
      BY <1>1, <1>4 DEF AccountsInv, Accounts!Created
    <3> QED BY <3>1 DEF LaunchFits
  <2>2. LaunchFits(c)'
    BY <1>1, <1>3, <1>4 DEF LaunchFits
  <2> QED BY <1>5, <2>1, <2>2
<1>7. \A d \in Accounts!Configs : DOMAIN launches'[d] = LaunchSlots
  BY <1>3, <1>4 DEF AccountsInv
<1>8. \A p \in pools : p.config \in Accounts!Created' /\ p.quote = launches'[p.config].quoteMint
  BY <1>4, <1>5 DEF AccountsInv, Accounts!Created
<1>9. \A p : Accounts!PoolAddress(p)' = Accounts!PoolAddress(p)
  OBVIOUS
<1> QED BY <1>1, <1>4, <1>5, <1>6, <1>7, <1>8, <1>9 DEF AccountsInv

LEMMA CreatePoolKeeps ==
  ASSUME AccountsInv, NEW c, NEW m \in Accounts!Mints, NEW w, Accounts!CreatePool(c, m, w)
  PROVE  AccountsInv'
<1> DEFINE new == [config |-> c, base |-> m, quote |-> launches[c].quoteMint, creator |-> w, migrated |-> FALSE]
           t == [base |-> m, quote |-> launches[c].quoteMint, creator |-> w]
<1>1. /\ c \in Accounts!Created /\ pools' = pools \union {new} /\ UNCHANGED <<terms, launches, positions>>
      /\ \A p \in pools : p.base # Accounts!InitializePoolIx(c, t).baseMint
  BY DEF Accounts!CreatePool, Accounts!PoolAccepted
<1>2. Accounts!InitializePoolIx(c, t).baseMint = m
  BY DEF Accounts!InitializePoolIx, Accounts!Joined, Accounts!DbcPoolKeys
<1>3. DOMAIN new = PoolSlots /\ new.config = c /\ new.base = m /\ new.quote = launches[c].quoteMint
  BY DEF PoolSlots
<1> HIDE DEF new
<1>4. /\ Accounts!Created' = Accounts!Created /\ Accounts!Configs' = Accounts!Configs /\ Accounts!Mints' = Accounts!Mints
      /\ \A d : LaunchFits(d)' = LaunchFits(d)
  BY <1>1 DEF Accounts!Created, Accounts!Configs, Accounts!Mints, LaunchFits
<1>5. \A p, q \in pools' : p.base = q.base => p = q
  BY <1>1, <1>2, <1>3 DEF AccountsInv
<1>6. \A x \in positions : x.nft = Gift \/ \E p \in pools' : p.migrated /\ x.nft = <<"nft", Accounts!PoolAddress(p)>>
  BY <1>1 DEF AccountsInv
<1>7. \A p \in pools' : /\ DOMAIN p = PoolSlots /\ p.config \in Accounts!Created /\ p.base \in Accounts!Mints
                        /\ p.quote = launches[p.config].quoteMint
  BY <1>1, <1>3 DEF AccountsInv
<1> QED BY <1>1, <1>4, <1>5, <1>6, <1>7 DEF AccountsInv

\* The pool that is registered is the one the mints of the launch derive.
LEMMA RegisterPoolKeeps ==
  ASSUME AccountsInv, NEW c \in Accounts!Configs, NEW p \in pools, Accounts!RegisterPool(c, p)
  PROVE  AccountsInv'
<1> DEFINE a == Accounts!PoolAddress(p)
           ix == [launch |-> Accounts!LaunchPda(c), config |-> c, pool |-> a, baseMint |-> p.base,
                  metadata |-> Accounts!MetadataPda(p.base)]
<1>1. /\ c \in Accounts!Created /\ Accounts!AcceptedFor("register_pool", ix, c)
      /\ launches' = [launches EXCEPT ![c].pool = a] /\ UNCHANGED <<terms, pools, positions>>
  BY DEF Accounts!RegisterPool
<1>2. p.base = launches[c].baseMint
  <2>1. "baseMint" \in (DOMAIN ix \intersect DOMAIN Accounts!Constrained(launches[c])) \ Accounts!Free("register_pool")
    BY DEF Accounts!Constrained, Accounts!Free
  <2>2. ix["baseMint"] = Accounts!Constrained(launches[c])["baseMint"]
    BY <1>1, <2>1 DEF Accounts!AcceptedFor
  <2> QED BY <2>2 DEF Accounts!Constrained
<1>3. PICK q \in pools : Accounts!PoolAddress(q) = a /\ q.config = launches[c].config
  BY <1>1 DEF Accounts!AcceptedFor, Accounts!PoolFits
<1>4. LaunchFits(c) /\ q = p
  BY <1>1, <1>3, PoolOfAddress DEF AccountsInv
<1>5. a = Accounts!DbcPoolPda(c, launches[c].baseMint, launches[c].quoteMint)
  BY <1>2, <1>3, <1>4 DEF AccountsInv, LaunchFits, Accounts!PoolAddress
<1> HIDE DEF a
<1>6. /\ DOMAIN launches' = Accounts!Configs /\ \A d \in Accounts!Configs \ {c} : launches'[d] = launches[d]
      /\ DOMAIN launches'[c] = LaunchSlots /\ launches'[c].pool = a
      /\ \A s \in LaunchSlots \ {"pool"} : launches'[c][s] = launches[c][s]
  BY <1>1 DEF AccountsInv, LaunchSlots
<1>7. /\ launches'[c].created = launches[c].created /\ launches'[c].config = launches[c].config
      /\ launches'[c].baseMint = launches[c].baseMint /\ launches'[c].quoteMint = launches[c].quoteMint
      /\ launches'[c].quoteTokenProgram = launches[c].quoteTokenProgram /\ launches'[c].vault = launches[c].vault
  BY <1>6 DEF LaunchSlots
<1>8. /\ Accounts!Configs' = Accounts!Configs /\ Accounts!Mints' = Accounts!Mints
      /\ Accounts!Created' = Accounts!Created
  BY <1>1, <1>6, <1>7 DEF Accounts!Created, Accounts!Configs, Accounts!Mints
<1>9. \A d \in Accounts!Created : LaunchFits(d)'
  <2> SUFFICES ASSUME NEW d \in Accounts!Created PROVE LaunchFits(d)'
    OBVIOUS
  <2>1. LaunchFits(d) /\ d \in Accounts!Configs /\ terms' = terms
    BY <1>1 DEF AccountsInv, Accounts!Created
  <2>2. CASE d = c
    BY <1>5, <1>6, <1>7, <2>1, <2>2 DEF LaunchFits
  <2>3. CASE d # c
    BY <1>6, <2>1, <2>3 DEF LaunchFits
  <2> QED BY <2>2, <2>3
<1>10. \A r \in pools : r.quote = launches'[r.config].quoteMint
  BY <1>6, <1>7 DEF AccountsInv, Accounts!Created
<1> QED BY <1>1, <1>6, <1>8, <1>9, <1>10 DEF AccountsInv

LEMMA MigrateKeeps == ASSUME AccountsInv, NEW p \in pools, Accounts!Migrate(p) PROVE AccountsInv'
<1> DEFINE nft == <<"nft", Accounts!PoolAddress(p)>>
           ix == Accounts!MigrationIx([config |-> p.config, baseMint |-> p.base, quoteMint |-> p.quote], nft)
           moved == [p EXCEPT !.migrated = TRUE]
           new == [pool |-> ix.dammPool, mints |-> <<p.base, p.quote>>, nft |-> nft, at |-> ix.nftAccount,
                   owner |-> Accounts!AuthorityPda(p.config)]
<1>1. /\ Accounts!MigrationAccepted(ix) /\ pools' = (pools \ {p}) \union {moved}
      /\ positions' = positions \union {new} /\ UNCHANGED <<terms, launches>>
  BY DEF Accounts!Migrate
<1>2. /\ ix.dammPool = Accounts!DammPoolPda(Accounts!DammConfig, p.base, p.quote)
      /\ ix.pool = Accounts!PoolAddress(p)
  BY DEF Accounts!MigrationIx, Accounts!Joined, Accounts!DbcPoolKeys, Accounts!PoolAddress
<1>3. ~p.migrated
  <2>1. PICK q \in pools : Accounts!PoolAddress(q) = ix.pool /\ ~q.migrated
    BY <1>1 DEF Accounts!MigrationAccepted
  <2>2. q = p
    BY <1>2, <2>1, PoolOfAddress
  <2> QED BY <2>1, <2>2
<1>4. DOMAIN p = PoolSlots /\ p.config \in Accounts!Created /\ p.base \in Accounts!Mints /\ p.quote = launches[p.config].quoteMint
  BY DEF AccountsInv
<1>5. /\ DOMAIN moved = PoolSlots /\ moved.config = p.config /\ moved.base = p.base /\ moved.quote = p.quote /\ moved.migrated
  BY <1>4 DEF PoolSlots
<1>6. /\ new.pool[3] = {new.mints[1], new.mints[2]} /\ new.owner = Accounts!AuthorityPda(p.config) /\ new.nft = nft
  BY <1>2 DEF Accounts!DammPoolPda
<1>7. Accounts!PoolAddress(moved) = Accounts!PoolAddress(p)
  BY <1>5 DEF Accounts!PoolAddress
<1>8. nft # Gift
  BY DEF Gift, Accounts!PoolAddress, Accounts!DbcPoolPda
<1> HIDE DEF moved, new
<1>9. \A x \in positions : x.nft # nft
  <2> SUFFICES ASSUME NEW x \in positions, x.nft = nft PROVE FALSE
    OBVIOUS
  <2>1. PICK q \in pools : q.migrated /\ x.nft = <<"nft", Accounts!PoolAddress(q)>>
    BY <1>8 DEF AccountsInv
  <2>2. Accounts!PoolAddress(q) = Accounts!PoolAddress(p)
    BY <2>1
  <2> QED BY <1>3, <2>1, <2>2, PoolOfAddress
<1>10. \A x \in positions' : x.nft = Gift \/ \E q \in pools' : q.migrated /\ x.nft = <<"nft", Accounts!PoolAddress(q)>>
  <2>1. moved \in pools' /\ moved.migrated /\ new.nft = <<"nft", Accounts!PoolAddress(moved)>>
    BY <1>1, <1>5, <1>6, <1>7
  <2>2. \A q \in pools : q.migrated => q \in pools'
    BY <1>1, <1>3
  <2> QED BY <1>1, <2>1, <2>2 DEF AccountsInv
<1>11. /\ Accounts!Created' = Accounts!Created /\ Accounts!Configs' = Accounts!Configs /\ Accounts!Mints' = Accounts!Mints
       /\ \A d : LaunchFits(d)' = LaunchFits(d)
  BY <1>1 DEF Accounts!Created, Accounts!Configs, Accounts!Mints, LaunchFits
<1>12. \A q \in pools' : /\ DOMAIN q = PoolSlots /\ q.config \in Accounts!Created /\ q.base \in Accounts!Mints
                         /\ q.quote = launches[q.config].quoteMint
  BY <1>1, <1>4, <1>5 DEF AccountsInv
<1>13. \A q, r \in pools' : q.base = r.base => q = r
  BY <1>1, <1>5 DEF AccountsInv
<1>14. \A x \in positions' :
          x.pool[3] = {x.mints[1], x.mints[2]} /\ \E d \in Accounts!Configs : x.owner = Accounts!AuthorityPda(d)
  BY <1>1, <1>4, <1>6 DEF AccountsInv, Accounts!Created
<1>15. \A x, y \in positions' : x.nft = y.nft => x = y
  BY <1>1, <1>6, <1>9 DEF AccountsInv
<1> QED BY <1>1, <1>10, <1>11, <1>12, <1>13, <1>14, <1>15 DEF AccountsInv

LEMMA GivePositionKeeps ==
  ASSUME AccountsInv, NEW p \in pools, NEW d, NEW c \in Accounts!Configs, Accounts!GivePosition(p, d, c)
  PROVE  AccountsInv'
<1>0. PICK mints \in {<<p.base, p.quote>>, <<p.quote, p.base>>} : \E at :
         positions' = positions \union
            {[pool |-> Accounts!DammPoolPda(d, p.base, p.quote), mints |-> mints, nft |-> Gift, at |-> at,
              owner |-> Accounts!AuthorityPda(c)]}
  BY DEF Accounts!GivePosition, Accounts!Key, Gift
<1>1. PICK at :
         positions' = positions \union
            {[pool |-> Accounts!DammPoolPda(d, p.base, p.quote), mints |-> mints, nft |-> Gift, at |-> at,
              owner |-> Accounts!AuthorityPda(c)]}
  BY <1>0
<1>2. (\A x \in positions : x.nft # Gift) /\ UNCHANGED <<terms, launches, pools>>
  BY DEF Accounts!GivePosition, Accounts!Key, Gift
<1> DEFINE new == [pool |-> Accounts!DammPoolPda(d, p.base, p.quote), mints |-> mints, nft |-> Gift, at |-> at,
                   owner |-> Accounts!AuthorityPda(c)]
<1>3. /\ new.pool[3] = {new.mints[1], new.mints[2]} /\ new.owner = Accounts!AuthorityPda(c) /\ new.nft = Gift
  BY DEF Accounts!DammPoolPda
<1>4. positions' = positions \union {new}
  BY <1>1
<1> HIDE DEF new
<1>5. /\ Accounts!Created' = Accounts!Created /\ Accounts!Configs' = Accounts!Configs /\ Accounts!Mints' = Accounts!Mints
      /\ \A e : LaunchFits(e)' = LaunchFits(e)
  BY <1>2 DEF Accounts!Created, Accounts!Configs, Accounts!Mints, LaunchFits
<1>6. \A x \in positions' :
         /\ x.pool[3] = {x.mints[1], x.mints[2]} /\ \E e \in Accounts!Configs : x.owner = Accounts!AuthorityPda(e)
         /\ x.nft = Gift \/ \E q \in pools : q.migrated /\ x.nft = <<"nft", Accounts!PoolAddress(q)>>
  BY <1>3, <1>4 DEF AccountsInv
<1>7. \A x, y \in positions' : x.nft = y.nft => x = y
  BY <1>2, <1>3, <1>4 DEF AccountsInv
<1> QED BY <1>2, <1>5, <1>6, <1>7 DEF AccountsInv

LEMMA AccountsNext == AccountsInv /\ [Accounts!Next]_accountVars => AccountsInv'
<1> SUFFICES ASSUME AccountsInv, [Accounts!Next]_accountVars PROVE AccountsInv'
  OBVIOUS
<1>1. CASE UNCHANGED accountVars
  BY <1>1 DEF AccountsInv, accountVars, LaunchFits, Accounts!Configs, Accounts!Mints, Accounts!Created, Accounts!PoolAddress
<1>2. CASE \E c \in Accounts!Configs : Accounts!CreateLaunch(c)
  BY <1>2, CreateLaunchKeeps
<1>3. CASE \E c \in Accounts!Configs, m \in Accounts!Mints, w \in {<<"key", "third">>} : Accounts!CreatePool(c, m, w)
  BY <1>3, CreatePoolKeeps
<1>4. CASE \E c \in Accounts!Configs, p \in pools : Accounts!RegisterPool(c, p)
  BY <1>4, RegisterPoolKeeps
<1>5. CASE \E p \in pools : Accounts!Migrate(p)
  BY <1>5, MigrateKeeps
<1>6. CASE \E p \in pools, d \in {Accounts!DammConfig, Accounts!Key("other")}, c \in Accounts!Configs :
              Accounts!GivePosition(p, d, c)
  BY <1>6, GivePositionKeeps
<1> QED BY <1>1, <1>2, <1>3, <1>4, <1>5, <1>6 DEF Accounts!Next

AccountsHold ==
  /\ Accounts!TypeOK /\ Accounts!RegisteredIsCanonical /\ Accounts!BuiltIsAccepted
  /\ Accounts!EveryPositionFound /\ Accounts!OnlyItsOwn

\* The keys of a launch that the SDK derives from its account are those it was made with.
LEMMA KeysFit ==
  ASSUME AccountsInv, NEW c \in Accounts!Created
  PROVE  LET l == launches[c]
             k == Accounts!KeysOf(Accounts!LaunchAccount(c))
         IN  /\ k.config = c /\ k.baseMint = l.baseMint /\ k.quoteMint = l.quoteMint
             /\ k.quoteTokenProgram = l.quoteTokenProgram /\ k.creator = l.creator
             /\ k.pool = Accounts!DbcPoolPda(c, l.baseMint, l.quoteMint)
             /\ l.pool # Accounts!None => k.pool = l.pool
             /\ Accounts!LaunchAccount(c).poolRegistered = (l.pool # Accounts!None)
             /\ l.baseMint # l.quoteMint /\ l.config = c /\ l.quoteTokenProgram = Accounts!ProgramOf(l.quoteMint)
             /\ l.vault = Accounts!VaultAddress(c, l.quoteMint, l.quoteTokenProgram)
<1> DEFINE l == launches[c]
           acc == Accounts!LaunchAccount(c)
<1>1. c \in Accounts!Configs /\ LaunchFits(c) /\ DOMAIN l = LaunchSlots /\ terms[c].base # terms[c].quote
  BY DEF AccountsInv, Accounts!Created
<1>2. /\ acc.config = l.config /\ acc.baseMint = l.baseMint /\ acc.quoteMint = l.quoteMint /\ acc.creator = l.creator
      /\ acc.quoteTokenProgram = l.quoteTokenProgram /\ acc.pool = l.pool
      /\ acc.poolRegistered = (l.pool # Accounts!None)
  BY <1>1 DEF Accounts!LaunchAccount, Accounts!Joined, LaunchSlots
<1> HIDE DEF acc
<1> QED BY <1>1, <1>2 DEF LaunchFits, Accounts!KeysOf, acc

\* Every slot the program constrains is the one the builders derive, the pool's once there is one.
LEMMA DerivedFits ==
  ASSUME AccountsInv, NEW c \in Accounts!Created,
         NEW s \in DOMAIN Accounts!Constrained(launches[c]), s # "pool" \/ launches[c].pool # Accounts!None
  PROVE  /\ Accounts!Derived(Accounts!KeysOf(Accounts!LaunchAccount(c)))[s] = Accounts!Constrained(launches[c])[s]
         /\ s \in {"claimer", "config", "pool", "vaultAuthority", "vault", "claimerBase", "baseMint", "quoteMint",
                   "quoteProgram", "transit", "creatorQuote", "platformQuote"}
<1> DEFINE k == Accounts!KeysOf(Accounts!LaunchAccount(c))
           l == launches[c]
<1>1. /\ k.config = c /\ k.baseMint = l.baseMint /\ k.quoteMint = l.quoteMint
      /\ k.quoteTokenProgram = l.quoteTokenProgram /\ k.creator = l.creator
      /\ l.pool # Accounts!None => k.pool = l.pool
      /\ l.config = c /\ l.vault = Accounts!VaultAddress(c, l.quoteMint, l.quoteTokenProgram)
  BY KeysFit
<1> HIDE DEF k, l
<1>2. s \in {"claimer", "config", "pool", "vaultAuthority", "vault", "claimerBase", "baseMint", "quoteMint",
             "quoteProgram", "transit", "creatorQuote", "platformQuote"}
  BY DEF Accounts!Constrained
<1>3. Accounts!Derived(k)[s] = Accounts!Constrained(l)[s]
  BY <1>1, <1>2 DEF Accounts!Constrained, Accounts!Derived, Accounts!VaultAddress, Accounts!ClaimerBaseAccount,
     Accounts!ClaimerQuoteAccount, Accounts!CreatorQuoteAccount, Accounts!PlatformQuoteAccount, Accounts!QuoteAta, l
<1> QED BY <1>2, <1>3 DEF k, l

\* Whatever has those slots, and names its pools' vaults, is accepted.
LEMMA FitsIsAccepted ==
  ASSUME AccountsInv, NEW c \in Accounts!Created, NEW op, NEW ix,
         ix.launch = Accounts!LaunchPda(c),
         op \notin {"burn_claimer_base", "floor"} =>
            ((launches[c].pool = Accounts!None) <=> (op = "register_pool")),
         \A s \in (DOMAIN ix \intersect DOMAIN Accounts!Constrained(launches[c])) \ Accounts!Free(op) :
            /\ s = "pool" => launches[c].pool # Accounts!None
            /\ ix[s] = Accounts!Derived(Accounts!KeysOf(Accounts!LaunchAccount(c)))[s],
         op = "register_pool" => Accounts!PoolFits(ix, launches[c]),
         op = "harvest_lp_fees" => Accounts!PositionFits(ix, launches[c]),
         op = "redeem" => Accounts!HolderFits(ix),
         Accounts!VaultsFit(ix)
  PROVE  Accounts!Accepted(op, ix)
<1>1. \A s \in (DOMAIN ix \intersect DOMAIN Accounts!Constrained(launches[c])) \ Accounts!Free(op) :
         ix[s] = Accounts!Constrained(launches[c])[s]
  BY DerivedFits
<1> QED BY <1>1 DEF Accounts!Accepted, Accounts!AcceptedFor

\* The pool at the address the keys name is one of the launch's config, mint and quote.
LEMMA OwnPool ==
  ASSUME AccountsInv, NEW c \in Accounts!Created, NEW p \in pools,
         Accounts!PoolAddress(p) = Accounts!KeysOf(Accounts!LaunchAccount(c)).pool
  PROVE  p.config = c /\ p.base = launches[c].baseMint /\ p.quote = launches[c].quoteMint
<1>1. Accounts!PoolAddress(p) = Accounts!DbcPoolPda(c, launches[c].baseMint, launches[c].quoteMint)
  BY KeysFit
<1>2. p.config = c /\ {p.base, p.quote} = {launches[c].baseMint, launches[c].quoteMint}
  BY <1>1 DEF Accounts!PoolAddress, Accounts!DbcPoolPda
<1>3. p.quote = launches[c].quoteMint
  BY <1>2 DEF AccountsInv
<1> QED BY <1>2, <1>3

LEMMA BuiltFits ==
  ASSUME AccountsInv, NEW c \in Accounts!Created, NEW p \in pools,
         Accounts!PoolAddress(p) = Accounts!KeysOf(Accounts!LaunchAccount(c)).pool,
         NEW op \in Accounts!Ops,
         IF launches[c].pool # Accounts!None THEN op # "register_pool" ELSE op \in {"register_pool", "floor"},
         NEW ix \in Accounts!Built(op, c, Accounts!Key("holder"))
  PROVE  Accounts!Accepted(op, ix)
<1> DEFINE l == launches[c]
           k == Accounts!KeysOf(Accounts!LaunchAccount(c))
           slots == DOMAIN Accounts!Constrained(l)
           holder == Accounts!Key("holder")
<1>1. /\ k.config = c /\ k.baseMint = l.baseMint /\ k.quoteMint = l.quoteMint
      /\ k.quoteTokenProgram = l.quoteTokenProgram /\ l.config = c
      /\ Accounts!LaunchAccount(c).poolRegistered = (l.pool # Accounts!None)
      /\ l.vault = Accounts!VaultAddress(c, l.quoteMint, l.quoteTokenProgram)
  BY KeysFit
<1>2. slots = {"claimer", "config", "pool", "vaultAuthority", "vault", "claimerBase", "baseMint", "quoteMint",
               "quoteProgram", "transit", "creatorQuote", "platformQuote"}
  BY DEF Accounts!Constrained
<1>3. /\ Accounts!Derived(k).launch = Accounts!LaunchPda(c) /\ Accounts!Derived(k).pool = k.pool
      /\ Accounts!Derived(k).baseMint = k.baseMint /\ Accounts!Derived(k).quoteMint = k.quoteMint
      /\ Accounts!Derived(k).metadata = Accounts!MetadataPda(k.baseMint)
      /\ Accounts!Derived(k).dbcBaseVault = Accounts!TokenVaultPda(k.pool, k.baseMint)
      /\ Accounts!Derived(k).dbcQuoteVault = Accounts!TokenVaultPda(k.pool, k.quoteMint)
      /\ Accounts!Derived(k).claimer = Accounts!AuthorityPda(c)
      /\ Accounts!Derived(k).vault = Accounts!VaultAddress(c, l.quoteMint, l.quoteTokenProgram)
      /\ Accounts!Derived(k).quoteProgram = l.quoteTokenProgram
  BY <1>1 DEF Accounts!Derived
<1>4. op # "floor" /\ op # "register_pool" => l.pool # Accounts!None
  OBVIOUS
<1> HIDE DEF slots, k, l
\* The instructions that only pass what is derived.
<1>5. ASSUME NEW S, ix = Accounts!Restrict(Accounts!Derived(k), S), "launch" \in S,
             "dbcBaseVault" \in S => "pool" \in S /\ "baseMint" \in S,
             "dbcQuoteVault" \in S => "pool" \in S /\ "quoteMint" \in S,
             "dammBaseVault" \notin S /\ "dammQuoteVault" \notin S,
             op \notin {"register_pool", "floor", "harvest_lp_fees", "redeem"}
      PROVE  Accounts!Accepted(op, ix)
  <2>1. DOMAIN ix = S /\ \A s \in S : ix[s] = Accounts!Derived(k)[s]
    BY <1>5 DEF Accounts!Restrict
  <2>2. ix.launch = Accounts!LaunchPda(c)
    BY <1>3, <1>5, <2>1
  <2>3. Accounts!VaultsFit(ix)
    BY <1>3, <1>5, <2>1 DEF Accounts!VaultsFit
  <2>4. \A s \in (DOMAIN ix \intersect slots) \ Accounts!Free(op) :
           (s = "pool" => l.pool # Accounts!None) /\ ix[s] = Accounts!Derived(k)[s]
    BY <1>4, <1>5, <2>1
  <2> QED BY <1>4, <1>5, <2>2, <2>3, <2>4, FitsIsAccepted DEF slots, k, l
<1>6. CASE op = "register_pool"
  <2>1. ix = Accounts!RegisterPoolIx(k)
    BY <1>6 DEF Accounts!Built, k
  <2>2. /\ DOMAIN ix = {"launch", "config", "pool", "baseMint", "metadata"}
        /\ \A s \in DOMAIN ix : ix[s] = Accounts!Derived(k)[s]
    BY <2>1 DEF Accounts!RegisterPoolIx, Accounts!Restrict
  <2>3. ix.launch = Accounts!LaunchPda(c) /\ Accounts!VaultsFit(ix)
    BY <1>3, <2>2 DEF Accounts!VaultsFit
  <2>4. Accounts!PoolFits(ix, l)
    <3>1. ix.pool = k.pool /\ ix.baseMint = l.baseMint /\ ix.metadata = Accounts!MetadataPda(ix.baseMint)
      BY <1>1, <1>3, <2>2
    <3>2. Accounts!PoolAddress(p) = k.pool /\ p.config = l.config /\ p.base = l.baseMint
      BY <1>1, OwnPool DEF k, l
    <3> QED BY <3>1, <3>2 DEF Accounts!PoolFits
  <2>5. \A s \in (DOMAIN ix \intersect slots) \ Accounts!Free(op) :
           (s = "pool" => l.pool # Accounts!None) /\ ix[s] = Accounts!Derived(k)[s]
    BY <1>6, <2>2 DEF Accounts!Free
  <2>6. l.pool = Accounts!None
    BY <1>6 DEF l
  <2> QED BY <1>6, <2>3, <2>4, <2>5, <2>6, FitsIsAccepted DEF slots, k, l
<1>7. CASE op = "floor"
  <2>1. ix = Accounts!FloorIx(k, l.pool # Accounts!None)
    BY <1>1, <1>7 DEF Accounts!Built, k
  <2>2. /\ DOMAIN ix = {"launch", "vault", "baseMint"}
        /\ ix["launch"] = Accounts!Derived(k)["launch"] /\ ix["vault"] = Accounts!Derived(k)["vault"]
    BY <2>1 DEF Accounts!FloorIx, Accounts!Restrict
  <2>3. ix.launch = Accounts!LaunchPda(c) /\ Accounts!VaultsFit(ix)
    BY <1>3, <2>2 DEF Accounts!VaultsFit
  <2>5. \A s \in (DOMAIN ix \intersect slots) \ Accounts!Free(op) :
           (s = "pool" => l.pool # Accounts!None) /\ ix[s] = Accounts!Derived(k)[s]
    BY <1>7, <2>2 DEF Accounts!Free
  <2> QED BY <1>7, <2>3, <2>5, FitsIsAccepted DEF slots, k, l
<1>8. CASE op = "harvest_lp_fees"
  <2>1. PICK x \in Accounts!FindClaimerPositions(k) : ix = Accounts!HarvestLpFeesIx(k, x)
    BY <1>8 DEF Accounts!Built, k
  <2> DEFINE S == {"launch", "claimer", "claimerBase", "vault", "baseMint", "quoteMint", "quoteProgram",
                   "transit", "creatorQuote", "platformQuote"}
  <2>2. /\ DOMAIN ix = S \union {"dammPool", "position", "nftAccount", "dammBaseVault", "dammQuoteVault"}
        /\ \A s \in S : ix[s] = Accounts!Derived(k)[s]
        /\ ix.dammPool = x.pool /\ ix.position = Accounts!PositionPda(x.nft) /\ ix.nftAccount = x.at
        /\ ix.dammBaseVault = Accounts!TokenVaultPda(x.pool, k.baseMint)
        /\ ix.dammQuoteVault = Accounts!TokenVaultPda(x.pool, k.quoteMint)
    BY <2>1 DEF Accounts!HarvestLpFeesIx, Accounts!Restrict, Accounts!Joined, Accounts!FeeSplitSlots
  <2>3. /\ ix.launch = Accounts!LaunchPda(c) /\ ix.claimer = Accounts!AuthorityPda(c)
        /\ ix.baseMint = k.baseMint /\ ix.quoteMint = k.quoteMint
    BY <1>3, <2>2
  <2>4. Accounts!VaultsFit(ix)
    BY <2>2, <2>3 DEF Accounts!VaultsFit
  <2>5. Accounts!PositionFits(ix, l)
    BY <1>1, <2>1, <2>2, <2>3 DEF Accounts!PositionFits, Accounts!FindClaimerPositions
  <2>6. \A s \in (DOMAIN ix \intersect slots) \ Accounts!Free(op) :
           (s = "pool" => l.pool # Accounts!None) /\ ix[s] = Accounts!Derived(k)[s]
    BY <1>2, <2>2
  <2> QED BY <1>4, <1>8, <2>3, <2>4, <2>5, <2>6, FitsIsAccepted DEF slots, k, l
<1>9. CASE op = "redeem"
  <2>1. ix = Accounts!RedeemIx(k, holder)
    BY <1>9 DEF Accounts!Built, k
  <2> DEFINE S == {"launch", "vaultAuthority", "pool", "baseMint", "vault", "quoteMint", "quoteProgram"}
  <2>2. /\ DOMAIN ix = S \union {"holder", "holderBase", "holderQuote"}
        /\ \A s \in S : ix[s] = Accounts!Derived(k)[s]
        /\ ix.holder = holder
        /\ ix.holderBase = Accounts!AssociatedTokenAddress(holder, k.baseMint, Accounts!TokenProgram)
        /\ ix.holderQuote = Accounts!AssociatedTokenAddress(holder, k.quoteMint, k.quoteTokenProgram)
    BY <2>1 DEF Accounts!RedeemIx, Accounts!Restrict, Accounts!Joined
  <2>3. /\ ix.launch = Accounts!LaunchPda(c) /\ ix.baseMint = k.baseMint /\ ix.quoteMint = k.quoteMint
        /\ ix.vault = Accounts!VaultAddress(c, l.quoteMint, l.quoteTokenProgram)
        /\ ix.quoteProgram = k.quoteTokenProgram
    BY <1>1, <1>3, <2>2
  <2>4. Accounts!VaultsFit(ix)
    BY <2>2 DEF Accounts!VaultsFit
  <2>5. Accounts!HolderFits(ix)
    BY <2>2, <2>3 DEF Accounts!HolderFits, Accounts!AssociatedTokenAddress, Accounts!VaultAddress,
                      Accounts!VaultAuthorityPda, Accounts!Key
  <2>6. \A s \in (DOMAIN ix \intersect slots) \ Accounts!Free(op) :
           (s = "pool" => l.pool # Accounts!None) /\ ix[s] = Accounts!Derived(k)[s]
    BY <1>2, <1>4, <1>9, <2>2
  <2> QED BY <1>4, <1>9, <2>3, <2>4, <2>5, <2>6, FitsIsAccepted DEF slots, k, l
<1>10. CASE op = "harvest_curve_fees"
  <2>1. ix = Accounts!Restrict(Accounts!Derived(k),
                 Accounts!DbcQuoteSlots \union {"claimerBase", "dbcBaseVault", "baseMint", "platformQuote"})
    BY <1>10 DEF Accounts!Built, Accounts!HarvestCurveFeesIx, k
  <2> QED BY <1>5, <1>10, <2>1 DEF Accounts!DbcQuoteSlots
<1>11. CASE op = "harvest_migration_fee"
  <2>1. ix = Accounts!Restrict(Accounts!Derived(k), Accounts!DbcQuoteSlots \union Accounts!FeeSplitSlots)
    BY <1>11 DEF Accounts!Built, Accounts!HarvestMigrationFeeIx, k
  <2> QED BY <1>5, <1>11, <2>1 DEF Accounts!DbcQuoteSlots, Accounts!FeeSplitSlots
<1>12. CASE op = "harvest_surplus"
  <2>1. ix = Accounts!Restrict(Accounts!Derived(k), Accounts!DbcQuoteSlots)
    BY <1>12 DEF Accounts!Built, Accounts!HarvestSurplusIx, k
  <2> QED BY <1>5, <1>12, <2>1 DEF Accounts!DbcQuoteSlots
<1>13. CASE op = "sync_migration"
  <2>1. ix = Accounts!Restrict(Accounts!Derived(k), {"launch", "pool"})
    BY <1>13 DEF Accounts!Built, Accounts!SyncMigrationIx, k
  <2> QED BY <1>5, <1>13, <2>1
<1>14. CASE op = "burn_claimer_base"
  <2>1. ix = Accounts!Restrict(Accounts!Derived(k), {"launch", "claimer", "claimerBase", "baseMint"})
    BY <1>14 DEF Accounts!Built, Accounts!BurnClaimerBaseIx, k
  <2> QED BY <1>5, <1>14, <2>1
<1> QED BY <1>6, <1>7, <1>8, <1>9, <1>10, <1>11, <1>12, <1>13, <1>14 DEF Accounts!Ops

\* The migration that is built is one DBC makes.
LEMMA MigrationFits ==
  ASSUME AccountsInv, NEW c \in Accounts!Created, NEW p \in pools,
         Accounts!PoolAddress(p) = Accounts!KeysOf(Accounts!LaunchAccount(c)).pool, ~p.migrated
  PROVE  Accounts!MigrationAccepted(Accounts!MigrationIx(Accounts!KeysOf(Accounts!LaunchAccount(c)), Accounts!Key("nft")))
<1> DEFINE l == launches[c]
           k == Accounts!KeysOf(Accounts!LaunchAccount(c))
           ix == Accounts!MigrationIx(k, Accounts!Key("nft"))
<1>1. /\ k.config = c /\ k.baseMint = l.baseMint /\ k.quoteMint = l.quoteMint
      /\ k.pool = Accounts!DbcPoolPda(c, l.baseMint, l.quoteMint)
  BY KeysFit
<1>2. p.config = c /\ p.base = l.baseMint /\ p.quote = l.quoteMint /\ Accounts!PoolAddress(p) = k.pool
  BY OwnPool
<1> HIDE DEF l, k
<1>3. /\ ix.config = k.config /\ ix.pool = Accounts!DbcPoolPda(k.config, k.baseMint, k.quoteMint)
      /\ ix.baseMint = k.baseMint /\ ix.quoteMint = k.quoteMint
      /\ ix.baseVault = Accounts!TokenVaultPda(ix.pool, k.baseMint)
      /\ ix.quoteVault = Accounts!TokenVaultPda(ix.pool, k.quoteMint)
      /\ ix.dammPool = Accounts!DammPoolPda(Accounts!DammConfig, k.baseMint, k.quoteMint)
      /\ ix.nft = Accounts!Key("nft") /\ ix.position = Accounts!PositionPda(ix.nft)
      /\ ix.nftAccount = Accounts!PositionNftAccountPda(ix.nft)
      /\ ix.tokenAVault = Accounts!TokenVaultPda(ix.dammPool, k.baseMint)
      /\ ix.tokenBVault = Accounts!TokenVaultPda(ix.dammPool, k.quoteMint)
  BY DEF Accounts!MigrationIx, Accounts!Joined, Accounts!DbcPoolKeys
<1> HIDE DEF ix
<1>4. Accounts!MigrationAccepted(ix)
  BY <1>1, <1>2, <1>3 DEF Accounts!MigrationAccepted
<1> QED BY <1>4 DEF ix, k

\* A trade is built for the venue that has the pool, with the accounts it takes.
LEMMA TradeFits ==
  ASSUME AccountsInv, NEW c \in Accounts!Created, NEW p \in pools,
         Accounts!PoolAddress(p) = Accounts!KeysOf(Accounts!LaunchAccount(c)).pool, NEW buys \in BOOLEAN
  PROVE  LET k == Accounts!KeysOf(Accounts!LaunchAccount(c))
             ix == Accounts!BuildTrade(k, Accounts!Key("holder"), buys, p.migrated)
         IN  Accounts!SwapAccepted(ix, k.baseMint, k.quoteMint, p.migrated) /\ ix.output[2] = ix.payer
<1> DEFINE l == launches[c]
           k == Accounts!KeysOf(Accounts!LaunchAccount(c))
           trader == Accounts!Key("holder")
           base == Accounts!AssociatedTokenAddress(trader, k.baseMint, Accounts!TokenProgram)
           quote == Accounts!AssociatedTokenAddress(trader, k.quoteMint, k.quoteTokenProgram)
           input == IF buys THEN quote ELSE base
           output == IF buys THEN base ELSE quote
           dammPool == Accounts!DammPoolPda(Accounts!DammConfig, k.baseMint, k.quoteMint)
           ix == Accounts!BuildTrade(k, trader, buys, p.migrated)
<1>1. /\ k.config = c /\ k.baseMint = l.baseMint /\ k.quoteMint = l.quoteMint
      /\ k.pool = Accounts!DbcPoolPda(c, l.baseMint, l.quoteMint)
      /\ k.quoteTokenProgram = Accounts!ProgramOf(k.quoteMint) /\ k.baseMint # k.quoteMint
  BY KeysFit
<1>2. p.config = c /\ p.base = l.baseMint /\ p.quote = l.quoteMint /\ Accounts!PoolAddress(p) = k.pool
  BY OwnPool
<1>3. /\ base[2] = trader /\ base[3] = k.baseMint /\ base[4] = Accounts!TokenProgram
      /\ quote[2] = trader /\ quote[3] = k.quoteMint /\ quote[4] = k.quoteTokenProgram
  BY DEF Accounts!AssociatedTokenAddress
<1> HIDE DEF l, k, trader, base, quote
<1>4. /\ ix.pool = IF p.migrated THEN dammPool ELSE Accounts!DbcPoolPda(k.config, k.baseMint, k.quoteMint)
      /\ ix.baseMint = k.baseMint /\ ix.quoteMint = k.quoteMint
      /\ ix.baseVault = Accounts!TokenVaultPda(ix.pool, k.baseMint)
      /\ ix.quoteVault = Accounts!TokenVaultPda(ix.pool, k.quoteMint)
      /\ ix.payer = trader /\ ix.input = input /\ ix.output = output
  <2>1. CASE p.migrated
    BY <2>1 DEF Accounts!BuildTrade, Accounts!DammV2Swap2Ix, Accounts!DammV2PoolKeys, Accounts!SwapSlots,
                Accounts!Joined, Accounts!Restrict, base, quote
  <2>2. CASE ~p.migrated
    BY <2>2 DEF Accounts!BuildTrade, Accounts!DbcSwap2Ix, Accounts!DbcPoolKeys, Accounts!SwapSlots,
                Accounts!Joined, Accounts!Restrict, base, quote
  <2> QED BY <2>1, <2>2
<1>5. /\ input[2] = trader /\ output[2] = trader
      /\ <<input[3], output[3]>> \in {<<k.baseMint, k.quoteMint>>, <<k.quoteMint, k.baseMint>>}
      /\ \A a \in {input, output} :
            a[4] = IF a[3] = k.baseMint THEN Accounts!TokenProgram ELSE Accounts!ProgramOf(k.quoteMint)
  BY <1>1, <1>3
<1> HIDE DEF ix, dammPool, input, output
<1>6. ix.pool = IF p.migrated THEN Accounts!DammPoolPda(Accounts!DammConfig, k.baseMint, k.quoteMint)
                ELSE Accounts!PoolAddress(p)
  BY <1>1, <1>2, <1>4 DEF dammPool
<1>7. Accounts!SwapAccepted(ix, k.baseMint, k.quoteMint, p.migrated) /\ ix.output[2] = ix.payer
  BY <1>1, <1>2, <1>4, <1>5, <1>6 DEF Accounts!SwapAccepted
<1> QED BY <1>7 DEF ix, k, trader

\* The slots that decide what an instruction moves are in every instruction of its kind.
MovingSlots(op) ==
  CASE op = "harvest_curve_fees" -> {"pool", "dbcBaseVault", "dbcQuoteVault", "claimerBase", "vault", "platformQuote"}
    [] op = "harvest_migration_fee" -> {"pool", "dbcQuoteVault", "transit", "vault", "creatorQuote", "platformQuote"}
    [] op = "harvest_surplus" -> {"pool", "dbcQuoteVault", "vault"}
    [] op = "burn_claimer_base" -> {"claimerBase"}
    [] op = "harvest_lp_fees" ->
         {"dammBaseVault", "dammQuoteVault", "claimerBase", "transit", "vault", "creatorQuote", "platformQuote"}
    [] op = "redeem" -> {"holder", "holderBase", "vault"}

MovingOps == {"harvest_curve_fees", "harvest_migration_fee", "harvest_surplus", "burn_claimer_base",
              "harvest_lp_fees", "redeem"}

LEMMA BuiltSlots ==
  ASSUME NEW op \in MovingOps, NEW c, NEW w, NEW ix \in Accounts!Instructions(op, c, w)
  PROVE  MovingSlots(op) \subseteq DOMAIN ix
<1> DEFINE k == Accounts!KeysOf(Accounts!LaunchAccount(c))
<1> USE DEF MovingOps, MovingSlots, Accounts!Instructions, Accounts!Built, Accounts!Restrict, Accounts!Joined,
            Accounts!DbcQuoteSlots, Accounts!FeeSplitSlots
<1>1. CASE op = "harvest_curve_fees"
  BY <1>1 DEF Accounts!HarvestCurveFeesIx
<1>2. CASE op = "harvest_migration_fee"
  BY <1>2 DEF Accounts!HarvestMigrationFeeIx
<1>3. CASE op = "harvest_surplus"
  BY <1>3 DEF Accounts!HarvestSurplusIx
<1>4. CASE op = "burn_claimer_base"
  BY <1>4 DEF Accounts!BurnClaimerBaseIx
<1>5. CASE op = "harvest_lp_fees"
  <2>1. \E x : ix = Accounts!HarvestLpFeesIx(k, x)
    BY <1>5
  <2> QED BY <1>5, <2>1 DEF Accounts!HarvestLpFeesIx
<1>6. CASE op = "redeem"
  BY <1>6 DEF Accounts!RedeemIx
<1> QED BY <1>1, <1>2, <1>3, <1>4, <1>5, <1>6

\* Accounts of another launch in some slots leave it the slots it has.
LEMMA MixedSlots ==
  ASSUME NEW op \in MovingOps, NEW c, NEW ixs \in Accounts!Mixed(op, c), NEW ix \in ixs
  PROVE  MovingSlots(op) \subseteq DOMAIN ix
<1>1. PICK iy \in Accounts!Instructions(op, c, Accounts!Key("holder")) : DOMAIN ix = DOMAIN iy
  BY DEF Accounts!Mixed
<1> QED BY <1>1, BuiltSlots

\* What has those slots and is accepted moves what belongs to the launch or the signer.
LEMMA MovesItsOwn ==
  ASSUME AccountsInv, NEW op \in MovingOps, NEW ix, MovingSlots(op) \subseteq DOMAIN ix,
         NEW d \in Accounts!Created, Accounts!AcceptedFor(op, ix, d)
  PROVE  /\ \A s \in Accounts!Takes(op) : Accounts!MayTake(launches[d], ix, ix[s])
         /\ \A s \in Accounts!Gives(op) : Accounts!MayGive(launches[d], ix[s])
<1> DEFINE l == launches[d]
           slots == DOMAIN Accounts!Constrained(l)
<1>1. l.config = d /\ l.vault = <<"ata", Accounts!VaultAuthorityPda(d), l.quoteMint, l.quoteTokenProgram>>
  BY KeysFit DEF Accounts!VaultAddress, Accounts!AssociatedTokenAddress
<1>2. slots = {"claimer", "config", "pool", "vaultAuthority", "vault", "claimerBase", "baseMint", "quoteMint",
               "quoteProgram", "transit", "creatorQuote", "platformQuote"}
  BY DEF Accounts!Constrained
<1>3. \A s \in MovingSlots(op) \intersect slots : ix[s] = Accounts!Constrained(l)[s]
  BY DEF Accounts!AcceptedFor, Accounts!Free, MovingOps
<1>4. /\ Accounts!Constrained(l).pool = l.pool /\ Accounts!Constrained(l).vault = l.vault
      /\ Accounts!Constrained(l).claimerBase = <<"ata", Accounts!AuthorityPda(d), l.baseMint, Accounts!TokenProgram>>
      /\ Accounts!Constrained(l).transit = <<"ata", Accounts!AuthorityPda(d), l.quoteMint, l.quoteTokenProgram>>
      /\ Accounts!Constrained(l).creatorQuote = <<"ata", l.creator, l.quoteMint, l.quoteTokenProgram>>
      /\ Accounts!Constrained(l).platformQuote = <<"ata", Accounts!PlatformTreasury, l.quoteMint, l.quoteTokenProgram>>
  BY <1>1 DEF Accounts!Constrained, Accounts!QuoteAta, Accounts!AssociatedTokenAddress
<1>5. /\ Accounts!VaultsFit(ix)
      /\ op = "harvest_lp_fees" => Accounts!PositionFits(ix, l)
      /\ op = "redeem" => Accounts!HolderFits(ix)
  BY DEF Accounts!AcceptedFor
<1> HIDE DEF l, slots
\* The accounts that occur, each with the reason it may be moved.
<1>6. \A s \in MovingSlots(op) \intersect {"claimerBase", "transit", "vault"} :
         Accounts!MayTake(l, ix, ix[s]) /\ Accounts!MayGive(l, ix[s])
  BY <1>1, <1>2, <1>3, <1>4 DEF Accounts!MayTake, Accounts!MayGive
<1>7. \A s \in MovingSlots(op) \intersect {"creatorQuote", "platformQuote"} : Accounts!MayGive(l, ix[s])
  BY <1>1, <1>2, <1>3, <1>4 DEF Accounts!MayGive
<1>8. \A s \in MovingSlots(op) \intersect {"dbcBaseVault", "dbcQuoteVault"} : Accounts!MayTake(l, ix, ix[s])
  <2> SUFFICES ASSUME NEW s \in MovingSlots(op) \intersect {"dbcBaseVault", "dbcQuoteVault"}
               PROVE  Accounts!MayTake(l, ix, ix[s])
    OBVIOUS
  <2>1. "pool" \in MovingSlots(op)
    BY DEF MovingSlots, MovingOps
  <2>2. ix.pool = l.pool
    BY <1>2, <1>3, <1>4, <2>1
  <2>3. ix[s][1] = "token_vault" /\ ix[s][3] = ix.pool
    BY <1>5 DEF Accounts!VaultsFit, Accounts!TokenVaultPda
  <2> QED BY <2>2, <2>3 DEF Accounts!MayTake
<1>9. \A s \in MovingSlots(op) \intersect {"dammBaseVault", "dammQuoteVault"} : Accounts!MayTake(l, ix, ix[s])
  <2> SUFFICES ASSUME NEW s \in MovingSlots(op) \intersect {"dammBaseVault", "dammQuoteVault"}
               PROVE  Accounts!MayTake(l, ix, ix[s])
    OBVIOUS
  <2>1. op = "harvest_lp_fees"
    BY DEF MovingSlots, MovingOps
  <2>2. PICK x \in positions : ix.dammPool = x.pool /\ x.mints = <<l.baseMint, l.quoteMint>>
    BY <1>5, <2>1 DEF Accounts!PositionFits
  <2>3. x.pool[3] = {x.mints[1], x.mints[2]}
    BY DEF AccountsInv
  <2>4. ix.dammPool[3] = {l.baseMint, l.quoteMint}
    BY <2>2, <2>3
  <2>5. ix[s][1] = "token_vault" /\ ix[s][3] = ix.dammPool
    BY <1>5 DEF Accounts!VaultsFit, Accounts!TokenVaultPda
  <2> QED BY <2>4, <2>5 DEF Accounts!MayTake
<1>10. op = "redeem" => Accounts!MayTake(l, ix, ix.holderBase)
  <2> SUFFICES ASSUME op = "redeem" PROVE Accounts!MayTake(l, ix, ix.holderBase)
    OBVIOUS
  <2>1. "holder" \in DOMAIN ix
    BY DEF MovingSlots
  <2>2. ix.holderBase[1] = "ata" /\ ix.holderBase[2] = ix.holder
    BY <1>5 DEF Accounts!HolderFits, Accounts!AssociatedTokenAddress
  <2> QED BY <2>1, <2>2 DEF Accounts!MayTake
<1>11. Accounts!Takes(op) \subseteq MovingSlots(op)
       /\ Accounts!Takes(op) \subseteq {"claimerBase", "transit", "vault", "dbcBaseVault", "dbcQuoteVault",
                                        "dammBaseVault", "dammQuoteVault", "holderBase"}
       /\ ("holderBase" \in Accounts!Takes(op) => op = "redeem")
  BY DEF Accounts!Takes, MovingSlots, MovingOps
<1>12. Accounts!Gives(op) \subseteq MovingSlots(op)
       /\ Accounts!Gives(op) \subseteq {"claimerBase", "transit", "vault", "creatorQuote", "platformQuote"}
  BY DEF Accounts!Gives, MovingSlots, MovingOps, Accounts!FeeSplitSlots
<1>13. \A s \in Accounts!Takes(op) : Accounts!MayTake(l, ix, ix[s])
  BY <1>6, <1>8, <1>9, <1>10, <1>11
<1>14. \A s \in Accounts!Gives(op) : Accounts!MayGive(l, ix[s])
  BY <1>6, <1>7, <1>12
<1> QED BY <1>13, <1>14 DEF l

\* A position whose fees the program would harvest is one the SDK finds: an NFT has one position.
LEMMA PositionFound ==
  ASSUME AccountsInv, NEW c \in Accounts!Created, NEW x \in positions,
         Accounts!Accepted("harvest_lp_fees", Accounts!HarvestLpFeesIx(Accounts!KeysOf(Accounts!LaunchAccount(c)), x))
  PROVE  x \in Accounts!FindClaimerPositions(Accounts!KeysOf(Accounts!LaunchAccount(c)))
<1> DEFINE l == launches[c]
           k == Accounts!KeysOf(Accounts!LaunchAccount(c))
           ix == Accounts!HarvestLpFeesIx(k, x)
<1>1. k.config = c /\ k.baseMint = l.baseMint /\ k.quoteMint = l.quoteMint
  BY KeysFit
<1>2. PICK d \in Accounts!Created : Accounts!AcceptedFor("harvest_lp_fees", ix, d)
  BY DEF Accounts!Accepted
<1> HIDE DEF k
<1>3. /\ ix.launch = Accounts!LaunchPda(k.config) /\ ix.claimer = Accounts!AuthorityPda(k.config)
      /\ ix.position = Accounts!PositionPda(x.nft)
  BY DEF Accounts!HarvestLpFeesIx, Accounts!Joined, Accounts!Restrict, Accounts!Derived, Accounts!FeeSplitSlots
<1> HIDE DEF ix
<1>4. d = c
  BY <1>1, <1>2, <1>3 DEF Accounts!AcceptedFor, Accounts!LaunchPda
<1>5. PICK y \in positions : /\ ix.position = Accounts!PositionPda(y.nft)
                             /\ y.mints = <<l.baseMint, l.quoteMint>> /\ y.owner = ix.claimer
  BY <1>2, <1>4 DEF Accounts!AcceptedFor, Accounts!PositionFits
<1>6. y.nft = x.nft
  BY <1>3, <1>5 DEF Accounts!PositionPda
<1>7. y = x
  BY <1>6 DEF AccountsInv
<1>8. x \in Accounts!FindClaimerPositions(k)
  BY <1>1, <1>3, <1>5, <1>7 DEF Accounts!FindClaimerPositions
<1> QED BY <1>8 DEF k

LEMMA AccountsInvImplies == AccountsInv => AccountsHold
<1> SUFFICES ASSUME AccountsInv PROVE AccountsHold
  OBVIOUS
<1>1. Accounts!TypeOK
  BY DEF AccountsInv, Accounts!TypeOK
<1>2. Accounts!RegisteredIsCanonical
  BY DEF AccountsInv, LaunchFits, Accounts!RegisteredIsCanonical
<1>3. Accounts!BuiltIsAccepted
  <2> SUFFICES ASSUME NEW c \in Accounts!Created, NEW p \in pools,
                      Accounts!PoolAddress(p) = Accounts!KeysOf(Accounts!LaunchAccount(c)).pool
               PROVE  LET launch == Accounts!LaunchAccount(c)
                          k == Accounts!KeysOf(launch)
                          due == IF launch.poolRegistered THEN Accounts!Ops \ {"register_pool"}
                                 ELSE {"register_pool", "floor"}
                      IN  /\ \A op \in due : \A ix \in Accounts!Built(op, c, Accounts!Key("holder")) : Accounts!Accepted(op, ix)
                          /\ p.migrated \/ Accounts!MigrationAccepted(Accounts!MigrationIx(k, Accounts!Key("nft")))
                          /\ \A buys \in BOOLEAN :
                                LET ix == Accounts!BuildTrade(k, Accounts!Key("holder"), buys, p.migrated)
                                IN  Accounts!SwapAccepted(ix, k.baseMint, k.quoteMint, p.migrated) /\ ix.output[2] = ix.payer
    BY DEF Accounts!BuiltIsAccepted
  <2>1. Accounts!LaunchAccount(c).poolRegistered = (launches[c].pool # Accounts!None)
    BY KeysFit
  <2>2. \A op \in IF Accounts!LaunchAccount(c).poolRegistered THEN Accounts!Ops \ {"register_pool"}
                  ELSE {"register_pool", "floor"} :
           \A ix \in Accounts!Built(op, c, Accounts!Key("holder")) : Accounts!Accepted(op, ix)
    BY <2>1, BuiltFits DEF Accounts!Ops
  <2>3. p.migrated \/ Accounts!MigrationAccepted(
                         Accounts!MigrationIx(Accounts!KeysOf(Accounts!LaunchAccount(c)), Accounts!Key("nft")))
    BY MigrationFits
  <2>4. \A buys \in BOOLEAN :
           LET k == Accounts!KeysOf(Accounts!LaunchAccount(c))
               ix == Accounts!BuildTrade(k, Accounts!Key("holder"), buys, p.migrated)
           IN  Accounts!SwapAccepted(ix, k.baseMint, k.quoteMint, p.migrated) /\ ix.output[2] = ix.payer
    BY TradeFits
  <2> QED BY <2>2, <2>3, <2>4
<1>4. Accounts!EveryPositionFound
  BY PositionFound DEF Accounts!EveryPositionFound
<1>5. Accounts!OnlyItsOwn
  <2> SUFFICES ASSUME NEW op \in Accounts!Ops \ {"register_pool", "sync_migration", "floor"},
                      NEW c \in Accounts!Created, NEW ixs \in Accounts!Mixed(op, c), NEW ix \in ixs,
                      NEW d \in Accounts!Created, Accounts!AcceptedFor(op, ix, d)
               PROVE  /\ \A s \in Accounts!Takes(op) : Accounts!MayTake(launches[d], ix, ix[s])
                      /\ \A s \in Accounts!Gives(op) : Accounts!MayGive(launches[d], ix[s])
    BY DEF Accounts!OnlyItsOwn
  <2>1. op \in MovingOps
    BY DEF Accounts!Ops, MovingOps
  <2>2. MovingSlots(op) \subseteq DOMAIN ix
    BY <2>1, MixedSlots
  <2> QED BY <2>1, <2>2, MovesItsOwn
<1> QED BY <1>1, <1>2, <1>3, <1>4, <1>5 DEF AccountsHold

(***************************************************************************)
(* LaunchConfigs.                                                          *)
(***************************************************************************)

FailedChecks(checks) == {i \in DOMAIN checks : checks[i][2]}

\* No error is told exactly when no check fails.
LEMMA NoneFails ==
  ASSUME NEW checks, NEW n \in Nat, DOMAIN checks = 1..n, \A i \in 1..n : checks[i][1] # "none"
  PROVE  (Launches!FirstError(checks) = "none") <=> (FailedChecks(checks) = {})
<1> DEFINE F == FailedChecks(checks)
           first == CHOOSE i \in F : \A j \in F : i <= j
<1>1. Launches!FirstError(checks) = IF F = {} THEN "none" ELSE checks[first][1]
  BY DEF Launches!FirstError, FailedChecks
<1>2. F \in SUBSET Nat /\ F \subseteq 1..n
  BY DEF FailedChecks
<1> HIDE DEF F
<1>3. F # {} => first \in F
  BY <1>2, LeastOf
<1> HIDE DEF first
<1> QED BY <1>1, <1>2, <1>3 DEF F

\* Checks that fail together and are called the same tell the same.
LEMMA SameError ==
  ASSUME NEW a, NEW b, NEW n \in Nat, DOMAIN a = 1..n, DOMAIN b = 1..n,
         \A i \in 1..n : a[i][1] = b[i][1], FailedChecks(a) = FailedChecks(b)
  PROVE  Launches!FirstError(a) = Launches!FirstError(b)
<1>0. \A i \in 1..n : a[i][1] = b[i][1]
  OBVIOUS
<1> DEFINE F == FailedChecks(a)
           first == CHOOSE i \in F : \A j \in F : i <= j
<1>1. Launches!FirstError(a) = IF F = {} THEN "none" ELSE a[first][1]
  BY DEF Launches!FirstError, FailedChecks
<1>2. F \in SUBSET Nat /\ F \subseteq 1..n
  BY DEF FailedChecks
<1>3. Launches!FirstError(b) = IF F = {} THEN "none" ELSE b[first][1]
  <2>1. F = FailedChecks(b)
    OBVIOUS
  <2> HIDE DEF F
  <2> QED BY <2>1 DEF Launches!FirstError, FailedChecks
<1> HIDE DEF F
<1>4. F # {} => first \in F
  BY <1>2, LeastOf
<1> HIDE DEF first
<1>5. F # {} => a[first][1] = b[first][1]
  BY <1>0, <1>2, <1>4
<1> QED BY <1>1, <1>3, <1>5

LEMMA TupleIsSeq == ASSUME NEW n \in Nat, NEW S, NEW a \in [1..n -> S] PROVE a \in Seq(S) /\ Len(a) = n
OBVIOUS

LEMMA Joins ==
  ASSUME NEW a, NEW b, NEW m \in Nat, NEW n \in Nat,
         a = [i \in 1..m |-> a[i]], b = [i \in 1..n |-> b[i]]
  PROVE  /\ DOMAIN (a \o b) = 1..m + n
         /\ \A i \in 1..m : (a \o b)[i] = a[i]
         /\ \A i \in 1..n : (a \o b)[m + i] = b[i]
<1> DEFINE S == {a[i] : i \in 1..m} \union {b[i] : i \in 1..n}
<1>1. a \in [1..m -> S] /\ b \in [1..n -> S]
  OBVIOUS
<1> HIDE DEF S
<1>2. a \in Seq(S) /\ Len(a) = m /\ b \in Seq(S) /\ Len(b) = n
  BY <1>1, TupleIsSeq
<1>3. /\ a \o b \in Seq(S) /\ Len(a \o b) = m + n
      /\ \A i \in 1..m + n : (a \o b)[i] = IF i <= m THEN a[i] ELSE b[i - m]
  BY <1>2, ConcatProperties
<1>4. DOMAIN (a \o b) = 1..m + n
  BY <1>3
<1>5. \A i \in 1..m : (a \o b)[i] = a[i]
  BY <1>3
<1>6. \A i \in 1..n : (a \o b)[m + i] = b[i]
  <2> SUFFICES ASSUME NEW i \in 1..n PROVE (a \o b)[m + i] = b[i]
    OBVIOUS
  <2>1. m + i \in 1..m + n /\ ~(m + i <= m) /\ (m + i) - m = i
    OBVIOUS
  <2> QED BY <1>3, <2>1
<1> QED BY <1>4, <1>5, <1>6

LEMMA Tables ==
  ASSUME NEW p, NEW given, NEW c
  PROVE  /\ Launches!DbcChecks(p) = [i \in 1..23 |-> Launches!DbcChecks(p)[i]]
         /\ Launches!SdkChecks(p, given) = [i \in 1..23 |-> Launches!SdkChecks(p, given)[i]]
         /\ Launches!ProgramChecks(c) = [i \in 1..23 |-> Launches!ProgramChecks(c)[i]]
<1>1. Launches!DbcChecks(p) = [i \in 1..23 |-> Launches!DbcChecks(p)[i]]
  BY SMTT(60) DEF Launches!DbcChecks
<1>2. Launches!SdkChecks(p, given) = [i \in 1..23 |-> Launches!SdkChecks(p, given)[i]]
  BY SMTT(60) DEF Launches!SdkChecks
<1>3. Launches!ProgramChecks(c) = [i \in 1..23 |-> Launches!ProgramChecks(c)[i]]
  BY SMTT(60) DEF Launches!ProgramChecks
<1> QED BY <1>1, <1>2, <1>3

\* What may be told of a config: the parts of its vesting, and its flags.
Typed(p) ==
  /\ DOMAIN p = DOMAIN Launches!Standard
  /\ p.lockedVesting \subseteq Launches!LockedVestingParts
  /\ p.fixedSupply \in BOOLEAN /\ p.dynamicFee \in BOOLEAN /\ p.marketCapScheduler \in BOOLEAN
  /\ p.firstSwapMinFee \in BOOLEAN /\ p.partnerVesting \in BOOLEAN /\ p.creatorVesting \in BOOLEAN
  /\ p.migrationFee \in Nat /\ p.threshold \in Nat

LEMMA StoredFields ==
  ASSUME NEW p, Typed(p)
  PROVE  LET c == Launches!Stored(p)
         IN  /\ c.exitFee = p.exitFee /\ c.quoteMint = p.quoteMint /\ c.feeClaimer = p.feeClaimer
             /\ c.leftoverReceiver = p.leftoverReceiver /\ c.creatorMigrationFee = p.creatorMigrationFee
             /\ c.migrationFee = p.migrationFee /\ c.threshold = p.threshold
             /\ c.lockedVesting = p.lockedVesting /\ c.collectFeeMode = p.collectFeeMode
             /\ c.migrationOption = p.migrationOption /\ c.tokenType = p.tokenType
             /\ c.creatorTradingFee = p.creatorTradingFee /\ c.baseFeeMode = p.baseFeeMode
             /\ c.cliffFee = p.cliffFee /\ c.migratedCollectFeeMode = p.migratedCollectFeeMode
             /\ c.migrationFeeOption = p.migrationFeeOption /\ c.migratedPoolFeeBps = p.migratedPoolFeeBps
             /\ c.migratedBaseFeeMode = p.migratedBaseFeeMode /\ c.compoundingFeeBps = p.compoundingFeeBps
             /\ c.migratedDynamicFee = p.migratedDynamicFee /\ c.tokenUpdateAuthority = p.tokenUpdateAuthority
             /\ c.poolCreationFee = p.poolCreationFee
             /\ c.vestings = {x \in {"partner", "creator"} :
                                 IF x = "partner" THEN p.partnerVesting ELSE p.creatorVesting}
             /\ c.fixedSupplyFlag = (IF p.fixedSupply THEN 1 ELSE 0)
             /\ c.dynamicFeeInitialized = (IF p.dynamicFee THEN 1 ELSE 0)
             /\ c.baseFeeBytes = (IF p.marketCapScheduler THEN 1 ELSE 0)
             /\ c.firstSwapFlag = (IF p.firstSwapMinFee THEN 1 ELSE 0)
             /\ c.liquidity = <<p.partnerLocked, p.partnerLiquidity, p.creatorLocked, p.creatorLiquidity>>
BY DEF Typed, Launches!Stored, Launches!Standard

\* All that the program knows.
Known == {"exitFee"} \cup Launches!ConfigAccounts

LEMMA KnownIs == Known = {"exitFee", "quoteMint", "feeClaimer", "leftoverReceiver"}
BY DEF Known, Launches!ConfigAccounts

\* Each check of the SDK's port fails exactly when the program's does on what DBC stores.
LEMMA Verdicts ==
  ASSUME NEW p, Typed(p)
  PROVE  FailedChecks(Launches!SdkChecks(p, Known)) = FailedChecks(Launches!ProgramChecks(Launches!Stored(p)))
<1> DEFINE c == Launches!Stored(p)
           a == Launches!SdkChecks(p, Known)
           b == Launches!ProgramChecks(c)
<1>0. DOMAIN a = 1..23 /\ DOMAIN b = 1..23
  BY Tables
<1>1. a[1][2] <=> b[1][2]
  BY StoredFields, KnownIs, SMTT(60) DEF Launches!SdkChecks, Launches!ProgramChecks
<1>2. a[2][2] <=> b[2][2]
  BY StoredFields, KnownIs, SMTT(60) DEF Launches!SdkChecks, Launches!ProgramChecks
<1>3. a[3][2] <=> b[3][2]
  BY StoredFields, KnownIs, SMTT(60) DEF Launches!SdkChecks, Launches!ProgramChecks
<1>4. a[4][2] <=> b[4][2]
  BY StoredFields, KnownIs, SMTT(60) DEF Launches!SdkChecks, Launches!ProgramChecks
<1>5. a[5][2] <=> b[5][2]
  BY StoredFields, SMTT(60) DEF Launches!SdkChecks, Launches!ProgramChecks
<1>6. a[6][2] <=> b[6][2]
  <2>1. a[6] = <<"MigrationFeePercentageOutOfRange",
                 p.migrationFee \notin Launches!MinMigrationFeePercentage..Launches!MaxMigrationFeePercentage>>
    BY SMTT(60) DEF Launches!SdkChecks
  <2>2. b[6] = <<"MigrationFeePercentageOutOfRange", \/ c.migrationFee < Launches!MinMigrationFeePercentage
                                                    \/ c.migrationFee > Launches!MaxMigrationFeePercentage>>
    BY SMTT(60) DEF Launches!ProgramChecks
  <2>3. c.migrationFee = p.migrationFee
    BY StoredFields
  <2> HIDE DEF a, b, c
  <2> QED BY <2>1, <2>2, <2>3 DEF Typed, Launches!MinMigrationFeePercentage, Launches!MaxMigrationFeePercentage
<1>7. a[7][2] <=> b[7][2]
  BY StoredFields, SMTT(60) DEF Launches!SdkChecks, Launches!ProgramChecks
<1>8. a[8][2] <=> b[8][2]
  BY StoredFields, SMTT(60) DEF Launches!SdkChecks, Launches!ProgramChecks
<1>9. a[9][2] <=> b[9][2]
  BY StoredFields, SMTT(60) DEF Launches!SdkChecks, Launches!ProgramChecks, Typed
<1>10. a[10][2] <=> b[10][2]
  BY StoredFields, SMTT(60) DEF Launches!SdkChecks, Launches!ProgramChecks, Typed, Launches!LockedVestingParts
<1>11. a[11][2] <=> b[11][2]
  BY StoredFields, SMTT(60) DEF Launches!SdkChecks, Launches!ProgramChecks
<1>12. a[12][2] <=> b[12][2]
  BY StoredFields, SMTT(60) DEF Launches!SdkChecks, Launches!ProgramChecks
<1>13. a[13][2] <=> b[13][2]
  BY StoredFields, SMTT(60) DEF Launches!SdkChecks, Launches!ProgramChecks
<1>14. a[14][2] <=> b[14][2]
  BY StoredFields, SMTT(60) DEF Launches!SdkChecks, Launches!ProgramChecks, Typed
<1>15. a[15][2] <=> b[15][2]
  BY StoredFields, SMTT(60) DEF Launches!SdkChecks, Launches!ProgramChecks
<1>16. a[16][2] <=> b[16][2]
  BY StoredFields, SMTT(60) DEF Launches!SdkChecks, Launches!ProgramChecks
<1>17. a[17][2] <=> b[17][2]
  BY StoredFields, SMTT(60) DEF Launches!SdkChecks, Launches!ProgramChecks, Typed
<1>18. a[18][2] <=> b[18][2]
  BY StoredFields, SMTT(60) DEF Launches!SdkChecks, Launches!ProgramChecks
<1>19. a[19][2] <=> b[19][2]
  <2>1. a[19][2] <=> \/ p.migrationFeeOption # 6 \/ p.migratedPoolFeeBps # 100 \/ p.migratedBaseFeeMode # 0
                     \/ p.compoundingFeeBps # 0 \/ p.marketCapScheduler
    BY SMTT(60) DEF Launches!SdkChecks
  <2> DEFINE r == <<c.migrationFeeOption, c.migratedPoolFeeBps, c.migratedBaseFeeMode, c.compoundingFeeBps,
                    c.baseFeeBytes>> # <<6, 100, 0, 0, 0>>
  <2>2. b[19] = <<"MigratedPoolFeeInvalid", r>>
    BY SMTT(60) DEF Launches!ProgramChecks
  <2>3. c.baseFeeBytes # 0 <=> p.marketCapScheduler
    BY StoredFields DEF Typed
  <2>4. /\ c.migrationFeeOption = p.migrationFeeOption /\ c.migratedPoolFeeBps = p.migratedPoolFeeBps
        /\ c.migratedBaseFeeMode = p.migratedBaseFeeMode /\ c.compoundingFeeBps = p.compoundingFeeBps
    BY StoredFields
  <2> HIDE DEF a, b, c
  <2>5. r \in BOOLEAN /\ (r <=> \/ p.migrationFeeOption # 6 \/ p.migratedPoolFeeBps # 100 \/ p.migratedBaseFeeMode # 0
                                \/ p.compoundingFeeBps # 0 \/ p.marketCapScheduler)
    BY <2>3, <2>4
  <2> HIDE DEF r
  <2>6. b[19][2] <=> r
    BY <2>2, <2>5
  <2> QED BY <2>1, <2>5, <2>6
<1>20. a[20][2] <=> b[20][2]
  BY StoredFields, SMTT(60) DEF Launches!SdkChecks, Launches!ProgramChecks
<1>21. a[21][2] <=> b[21][2]
  BY StoredFields, SMTT(60) DEF Launches!SdkChecks, Launches!ProgramChecks, Typed
<1>22. a[22][2] <=> b[22][2]
  BY StoredFields, SMTT(60) DEF Launches!SdkChecks, Launches!ProgramChecks
<1>23. a[23][2] <=> b[23][2]
  BY StoredFields, SMTT(60) DEF Launches!SdkChecks, Launches!ProgramChecks
<1> HIDE DEF a, b
<1>24. \A i \in 1..23 : a[i][2] <=> b[i][2]
  BY <1>1, <1>2, <1>3, <1>4, <1>5, <1>6, <1>7, <1>8, <1>9, <1>10, <1>11, <1>12,
     <1>13, <1>14, <1>15, <1>16, <1>17, <1>18, <1>19, <1>20, <1>21, <1>22, <1>23
<1>25. FailedChecks(a) = FailedChecks(b)
  BY <1>0, <1>24 DEF FailedChecks
<1> QED BY <1>25 DEF a, b

\* Port and program call a check the same.
LEMMA SameNames ==
  ASSUME NEW p, NEW given, NEW c
  PROVE  /\ \A i \in 1..23 : Launches!SdkChecks(p, given)[i][1] = Launches!ProgramChecks(c)[i][1]
         /\ \A i \in 1..23 : /\ Launches!DbcChecks(p)[i][1] # "none"
                             /\ Launches!SdkChecks(p, given)[i][1] # "none"
                             /\ Launches!ProgramChecks(c)[i][1] # "none"
<1>1. \A i \in 1..23 : Launches!DbcChecks(p)[i][1] # "none"
  BY SMTT(60) DEF Launches!DbcChecks
<1>2. \A i \in 1..23 : Launches!SdkChecks(p, given)[i][1] # "none"
  BY SMTT(60) DEF Launches!SdkChecks
<1>3. \A i \in 1..23 : Launches!ProgramChecks(c)[i][1] # "none"
  BY SMTT(60) DEF Launches!ProgramChecks
<1>4. \A i \in 1..23 : Launches!SdkChecks(p, given)[i][1] = Launches!ProgramChecks(c)[i][1]
  BY SMTT(60) DEF Launches!SdkChecks, Launches!ProgramChecks
<1> HIDE DEF Launches!SdkChecks
<1> QED BY <1>1, <1>2, <1>3, <1>4

(***************************************************************************)
(* Of any config at all, port and program give the same verdict.           *)
(***************************************************************************)
LEMMA SameVerdict ==
  ASSUME NEW p, Typed(p)
  PROVE  Launches!FirstError(Launches!SdkChecks(p, Known)) = Launches!FirstError(Launches!ProgramChecks(Launches!Stored(p)))
<1> DEFINE a == Launches!SdkChecks(p, Known)
           b == Launches!ProgramChecks(Launches!Stored(p))
<1>1. DOMAIN a = 1..23 /\ DOMAIN b = 1..23
  BY Tables
<1>2. \A i \in 1..23 : a[i][1] = b[i][1]
  BY SameNames
<1>3. FailedChecks(a) = FailedChecks(b)
  BY Verdicts
<1> HIDE DEF a, b
<1>4. Launches!FirstError(a) = Launches!FirstError(b)
  BY <1>1, <1>2, <1>3, SameError
<1> QED BY <1>4 DEF a, b

LEMMA StandardTyped == Typed(Launches!Standard)
BY SMT DEF Typed, Launches!Standard, Launches!LockedVestingParts

\* Any parameters that deviate within the types are typed.
LEMMA DeviatingTyped ==
  ASSUME NEW D, DOMAIN D = DOMAIN Launches!Standard, D.lockedVesting \subseteq SUBSET Launches!LockedVestingParts,
         \A f \in {"fixedSupply", "dynamicFee", "marketCapScheduler", "firstSwapMinFee", "partnerVesting", "creatorVesting"} :
            D[f] \subseteq BOOLEAN,
         D.migrationFee \subseteq Nat, D.threshold \subseteq Nat,
         NEW p \in Launches!Deviating(D)
  PROVE  Typed(p)
<1> DEFINE S == Launches!Standard
<1>0. PICK f \in DOMAIN D, g \in DOMAIN D :
         p \in {[S EXCEPT ![f] = x, ![g] = y] : x \in D[f], y \in D[g]}
  BY DEF Launches!Deviating
<1>1. PICK x \in D[f], y \in D[g] : p = [S EXCEPT ![f] = x, ![g] = y]
  BY <1>0
<1>3. /\ DOMAIN S = DOMAIN Launches!Standard
      /\ S.lockedVesting \subseteq Launches!LockedVestingParts
      /\ S.fixedSupply \in BOOLEAN /\ S.dynamicFee \in BOOLEAN /\ S.marketCapScheduler \in BOOLEAN
      /\ S.firstSwapMinFee \in BOOLEAN /\ S.partnerVesting \in BOOLEAN /\ S.creatorVesting \in BOOLEAN
      /\ S.migrationFee \in Nat /\ S.threshold \in Nat
  BY StandardTyped DEF Typed
<1>4. /\ \A h \in {"lockedVesting", "fixedSupply", "dynamicFee", "marketCapScheduler", "firstSwapMinFee",
                    "partnerVesting", "creatorVesting", "migrationFee", "threshold"} : h \in DOMAIN S
      /\ DOMAIN D = DOMAIN S
  BY SMT DEF Launches!Standard
<1> HIDE DEF S
<1>5. \A h \in DOMAIN S : p[h] = S[h] \/ p[h] \in D[h]
  BY <1>1, <1>4
<1>6. DOMAIN p = DOMAIN S
  BY <1>1
<1>7. /\ p.fixedSupply \in BOOLEAN /\ p.dynamicFee \in BOOLEAN /\ p.marketCapScheduler \in BOOLEAN
      /\ p.firstSwapMinFee \in BOOLEAN /\ p.partnerVesting \in BOOLEAN /\ p.creatorVesting \in BOOLEAN
  BY <1>3, <1>4, <1>5
<1>8. p.lockedVesting \subseteq Launches!LockedVestingParts
  BY <1>3, <1>4, <1>5
<1>9. p.migrationFee \in Nat /\ p.threshold \in Nat
  BY <1>3, <1>4, <1>5
<1>10. DOMAIN p = DOMAIN Launches!Standard
  BY <1>3, <1>6
<1> QED BY <1>7, <1>8, <1>9, <1>10 DEF Typed

LEMMA DeviationsTyped ==
  /\ DOMAIN Deviations = DOMAIN Launches!Standard
  /\ Deviations.lockedVesting \subseteq SUBSET Launches!LockedVestingParts
  /\ \A f \in {"fixedSupply", "dynamicFee", "marketCapScheduler", "firstSwapMinFee", "partnerVesting", "creatorVesting"} :
        Deviations[f] \subseteq BOOLEAN
  /\ Deviations.migrationFee \subseteq Nat /\ Deviations.threshold \subseteq Nat
<1>1. DOMAIN Deviations = DOMAIN Launches!Standard
  BY SMT DEF Deviations, Launches!Standard
<1>2. Deviations.lockedVesting \subseteq SUBSET Launches!LockedVestingParts
  BY SMT DEF Deviations, Launches!LockedVestingParts
<1>3. /\ Deviations.fixedSupply \subseteq BOOLEAN /\ Deviations.dynamicFee \subseteq BOOLEAN
      /\ Deviations.marketCapScheduler \subseteq BOOLEAN /\ Deviations.firstSwapMinFee \subseteq BOOLEAN
      /\ Deviations.partnerVesting \subseteq BOOLEAN /\ Deviations.creatorVesting \subseteq BOOLEAN
  BY SMT DEF Deviations
<1>4. Deviations.migrationFee \subseteq Nat /\ Deviations.threshold \subseteq Nat
  BY SMT DEF Deviations
<1> QED BY <1>1, <1>2, <1>3, <1>4

(***************************************************************************)
(* Who gives no accounts has every check but those of the accounts.        *)
(***************************************************************************)
LEMMA GivenLess ==
  ASSUME NEW p, FailedChecks(Launches!SdkChecks(p, {"exitFee"})) = {}
  PROVE  FailedChecks(Launches!SdkChecks(p, Known)) \subseteq 2..4
<1> DEFINE a == Launches!SdkChecks(p, {"exitFee"})
           b == Launches!SdkChecks(p, Known)
<1>0. DOMAIN a = 1..23 /\ DOMAIN b = 1..23
  BY Tables
<1>1. a[1] = b[1]
  BY KnownIs, SMTT(60) DEF Launches!SdkChecks
<1>2a. a[5] = b[5]
  BY SMTT(60) DEF Launches!SdkChecks
<1>2b. a[6] = b[6]
  BY SMTT(60) DEF Launches!SdkChecks
<1>2c. a[7] = b[7]
  BY SMTT(60) DEF Launches!SdkChecks
<1>2d. a[8] = b[8]
  BY SMTT(60) DEF Launches!SdkChecks
<1>2e. a[9] = b[9]
  <2> DEFINE r == p.partnerVesting \/ p.creatorVesting
  <2>1. a[9] = <<"LiquidityVestingNotAllowed", r>>
    BY SMTT(60) DEF Launches!SdkChecks
  <2>2. b[9] = <<"LiquidityVestingNotAllowed", r>>
    BY SMTT(60) DEF Launches!SdkChecks
  <2> HIDE DEF a, b, r
  <2> QED BY <2>1, <2>2
<1>2f. a[10] = b[10]
  BY SMTT(60) DEF Launches!SdkChecks
<1>2g. a[11] = b[11]
  BY SMTT(60) DEF Launches!SdkChecks
<1>2h. a[12] = b[12]
  BY SMTT(60) DEF Launches!SdkChecks
<1>2i. a[13] = b[13]
  BY SMTT(60) DEF Launches!SdkChecks
<1>2j. a[14] = b[14]
  BY SMTT(60) DEF Launches!SdkChecks
<1>2k. a[15] = b[15]
  BY SMTT(60) DEF Launches!SdkChecks
<1>2l. a[16] = b[16]
  BY SMTT(60) DEF Launches!SdkChecks
<1>2m. a[17] = b[17]
  BY SMTT(60) DEF Launches!SdkChecks
<1>2n. a[18] = b[18]
  BY SMTT(60) DEF Launches!SdkChecks
<1>2o. a[19][2] <=> b[19][2]
  <2>1. a[19][2] <=> \/ p.migrationFeeOption # 6 \/ p.migratedPoolFeeBps # 100 \/ p.migratedBaseFeeMode # 0
                     \/ p.compoundingFeeBps # 0 \/ p.marketCapScheduler
    BY SMTT(60) DEF Launches!SdkChecks
  <2>2. b[19][2] <=> \/ p.migrationFeeOption # 6 \/ p.migratedPoolFeeBps # 100 \/ p.migratedBaseFeeMode # 0
                     \/ p.compoundingFeeBps # 0 \/ p.marketCapScheduler
    BY SMTT(60) DEF Launches!SdkChecks
  <2> QED BY <2>1, <2>2
<1>2p. a[20] = b[20]
  BY SMTT(60) DEF Launches!SdkChecks
<1>2q. a[21] = b[21]
  BY SMTT(60) DEF Launches!SdkChecks
<1>2r. a[22] = b[22]
  BY SMTT(60) DEF Launches!SdkChecks
<1>2s. a[23] = b[23]
  BY SMTT(60) DEF Launches!SdkChecks
<1> HIDE DEF a, b
<1>2. \A i \in 5..23 : a[i][2] <=> b[i][2]
  BY <1>2a, <1>2b, <1>2c, <1>2d, <1>2e, <1>2f, <1>2g, <1>2h, <1>2i, <1>2j, <1>2k, <1>2l, <1>2m, <1>2n, <1>2o,
     <1>2p, <1>2q, <1>2r, <1>2s
<1>3. FailedChecks(a) = {}
  BY DEF a
<1>4. FailedChecks(b) \subseteq 2..4
  BY <1>0, <1>1, <1>2, <1>3 DEF FailedChecks
<1> QED BY <1>4 DEF b

\* With the accounts that create_launch wants, none of those fails either.
LEMMA AccountsPass ==
  ASSUME NEW p, p.quoteMint = "launch", p.feeClaimer = "claimer", p.leftoverReceiver = "claimer"
  PROVE  FailedChecks(Launches!SdkChecks(p, Known)) \cap 2..4 = {}
<1> DEFINE b == Launches!SdkChecks(p, Known)
<1>1. ~b[2][2]
  <2> DEFINE r == "quoteMint" \in Known /\ p.quoteMint # "launch"
  <2>1. b[2] = <<"QuoteMintMismatch", r>>
    BY SMTT(60) DEF Launches!SdkChecks
  <2>2. ~r
    OBVIOUS
  <2> HIDE DEF b, r
  <2> QED BY <2>1, <2>2
<1>2. ~b[3][2]
  <2> DEFINE r == "feeClaimer" \in Known /\ p.feeClaimer # "claimer"
  <2>1. b[3] = <<"FeeClaimerMismatch", r>>
    BY SMTT(60) DEF Launches!SdkChecks
  <2>2. ~r
    OBVIOUS
  <2> HIDE DEF b, r
  <2> QED BY <2>1, <2>2
<1>3. ~b[4][2]
  <2> DEFINE r == "leftoverReceiver" \in Known /\ p.leftoverReceiver # "claimer"
  <2>1. b[4] = <<"LeftoverReceiverMismatch", r>>
    BY SMTT(60) DEF Launches!SdkChecks
  <2>2. ~r
    OBVIOUS
  <2> HIDE DEF b, r
  <2> QED BY <2>1, <2>2
<1> HIDE DEF b
<1>4. FailedChecks(b) \cap 2..4 = {}
  <2> SUFFICES ASSUME NEW i \in 2..4 PROVE ~b[i][2]
    BY DEF FailedChecks
  <2>1. i = 2 \/ i = 3 \/ i = 4
    OBVIOUS
  <2> QED BY <1>1, <1>2, <1>3, <2>1
<1> QED BY <1>4 DEF b

LEMMA AccountNames == ASSUME NEW c, NEW i \in 2..4 PROVE Launches!ProgramChecks(c)[i][1] \in Launches!AccountErrors
<1>1. /\ Launches!ProgramChecks(c)[2][1] = "QuoteMintMismatch"
      /\ Launches!ProgramChecks(c)[3][1] = "FeeClaimerMismatch"
      /\ Launches!ProgramChecks(c)[4][1] = "LeftoverReceiverMismatch"
  BY SMTT(60) DEF Launches!ProgramChecks
<1>2. i = 2 \/ i = 3 \/ i = 4
  OBVIOUS
<1> QED BY <1>1, <1>2 DEF Launches!AccountErrors

\* Where no check but those of the accounts fails, the program tells one of these.
LEMMA AccountsTold ==
  ASSUME NEW c, FailedChecks(Launches!ProgramChecks(c)) \subseteq 2..4,
         FailedChecks(Launches!ProgramChecks(c)) # {}
  PROVE  Launches!FirstError(Launches!ProgramChecks(c)) \in Launches!AccountErrors
<1> DEFINE b == Launches!ProgramChecks(c)
           F == FailedChecks(b)
           first == CHOOSE i \in F : \A j \in F : i <= j
<1>1. Launches!FirstError(b) = b[first][1]
  BY DEF Launches!FirstError, FailedChecks
<1>2. F # {} /\ F \subseteq 2..4
  OBVIOUS
<1>3. \A i \in 2..4 : b[i][1] \in Launches!AccountErrors
  BY AccountNames
<1> HIDE DEF F, b
<1>4. first \in F
  BY <1>2, LeastOf
<1>5. Launches!FirstError(b) \in Launches!AccountErrors
  BY <1>1, <1>2, <1>3, <1>4
<1> QED BY <1>5 DEF b

LEMMA ParamsTyped == Launches!Init => Typed(params)
<1> SUFFICES ASSUME Launches!Init PROVE Typed(params)
  OBVIOUS
<1>1. params = Launches!Standard \/ params \in Launches!Deviating(Deviations)
  BY DEF Launches!Init, Deviations
<1>2. params \in Launches!Deviating(Deviations) => Typed(params)
  BY DeviationsTyped, DeviatingTyped
<1> QED BY <1>1, <1>2, StandardTyped


(***************************************************************************)
(* What the SDK has built failed no check of either port that it was given *)
(* the means for, what is built as a launch has the launch's accounts, and *)
(* what is launched failed no check of the program's.                      *)
(***************************************************************************)
LaunchInv ==
  /\ Typed(params)
  /\ checked \in {"none", "params", "launch"}
  /\ stage = "form" => checked = "none"
  /\ checked # "none" /\ stage \in {"built", "stored"} =>
        /\ FailedChecks(Launches!DbcChecks(params)) = {}
        /\ FailedChecks(Launches!SdkChecks(params, {"exitFee"})) = {}
  /\ checked = "launch" =>
        params.quoteMint = "launch" /\ params.feeClaimer = "claimer" /\ params.leftoverReceiver = "claimer"
  /\ stage = "launched" => FailedChecks(Launches!ProgramChecks(Launches!Stored(params))) = {}

LEMMA ConfigsInit == Launches!Init => LaunchInv
BY ParamsTyped DEF Launches!Init, LaunchInv

\* No error is told of both lists one after the other exactly when none is of either.
LEMMA BothPass ==
  ASSUME NEW p, NEW given, Launches!FirstError(Launches!DbcChecks(p) \o Launches!SdkChecks(p, given)) = "none"
  PROVE  FailedChecks(Launches!DbcChecks(p)) = {} /\ FailedChecks(Launches!SdkChecks(p, given)) = {}
<1> DEFINE a == Launches!DbcChecks(p)
           b == Launches!SdkChecks(p, given)
<1>1. a = [i \in 1..23 |-> a[i]] /\ b = [i \in 1..23 |-> b[i]]
  BY Tables
<1>2. \A i \in 1..23 : a[i][1] # "none" /\ b[i][1] # "none"
  BY SameNames
<1>3. Launches!FirstError(a \o b) = "none"
  OBVIOUS
<1> HIDE DEF a, b
<1>4. /\ DOMAIN (a \o b) = 1..46
      /\ \A i \in 1..23 : (a \o b)[i] = a[i]
      /\ \A i \in 1..23 : (a \o b)[23 + i] = b[i]
  BY <1>1, Joins
<1>5. \A i \in 1..46 : (a \o b)[i][1] # "none"
  <2> SUFFICES ASSUME NEW i \in 1..46 PROVE (a \o b)[i][1] # "none"
    OBVIOUS
  <2>1. CASE i \in 1..23
    BY <1>2, <1>4, <2>1
  <2>2. CASE i \notin 1..23
    <3> DEFINE k == i - 23
    <3>1. k \in 1..23 /\ 23 + k = i
      BY <2>2
    <3> HIDE DEF k
    <3>2. (a \o b)[23 + k] = b[k]
      BY <1>4, <3>1
    <3>3. b[k][1] # "none"
      BY <1>2, <3>1
    <3> QED BY <3>1, <3>2, <3>3
  <2> QED BY <2>1, <2>2
<1>6. FailedChecks(a \o b) = {}
  BY <1>3, <1>4, <1>5, NoneFails
<1>7. FailedChecks(a) = {}
  BY <1>1, <1>4, <1>6 DEF FailedChecks
<1>8. FailedChecks(b) = {}
  <2> SUFFICES ASSUME NEW i \in 1..23, b[i][2] PROVE FALSE
    BY <1>1 DEF FailedChecks
  <2>0. (a \o b)[23 + i] = b[i]
    BY <1>4
  <2>1. 23 + i \in 1..46 /\ (a \o b)[23 + i][2]
    BY <2>0
  <2> QED BY <1>4, <1>6, <2>1 DEF FailedChecks
<1> QED BY <1>7, <1>8 DEF a, b

LEMMA DbcPasses ==
  ASSUME NEW p
  PROVE  (Launches!FirstError(Launches!DbcChecks(p)) = "none") <=> (FailedChecks(Launches!DbcChecks(p)) = {})
<1> DEFINE a == Launches!DbcChecks(p)
<1>1. DOMAIN a = 1..23 /\ \A i \in 1..23 : a[i][1] # "none"
  BY Tables, SameNames
<1> HIDE DEF a
<1>2. (Launches!FirstError(a) = "none") <=> (FailedChecks(a) = {})
  BY <1>1, NoneFails
<1> QED BY <1>2 DEF a

LEMMA ProgramPasses ==
  ASSUME NEW c
  PROVE  (Launches!FirstError(Launches!ProgramChecks(c)) = "none") <=> (FailedChecks(Launches!ProgramChecks(c)) = {})
<1> DEFINE a == Launches!ProgramChecks(c)
<1>1. DOMAIN a = 1..23 /\ \A i \in 1..23 : a[i][1] # "none"
  BY Tables, SameNames
<1> HIDE DEF a
<1>2. (Launches!FirstError(a) = "none") <=> (FailedChecks(a) = {})
  BY <1>1, NoneFails
<1> QED BY <1>2 DEF a

\* With the accounts replaced, parameters stay typed.
LEMMA LaunchAccountsTyped ==
  ASSUME NEW p, Typed(p),
         NEW q, q = [p EXCEPT !.quoteMint = "launch", !.feeClaimer = "claimer", !.leftoverReceiver = "claimer"]
  PROVE  Typed(q) /\ q.quoteMint = "launch" /\ q.feeClaimer = "claimer" /\ q.leftoverReceiver = "claimer"
<1>1. {"quoteMint", "feeClaimer", "leftoverReceiver"} \subseteq DOMAIN p
  BY SMT DEF Typed, Launches!Standard
<1>2. DOMAIN q = DOMAIN p
  OBVIOUS
<1>3. /\ q.lockedVesting = p.lockedVesting /\ q.fixedSupply = p.fixedSupply /\ q.dynamicFee = p.dynamicFee
      /\ q.marketCapScheduler = p.marketCapScheduler /\ q.firstSwapMinFee = p.firstSwapMinFee
      /\ q.partnerVesting = p.partnerVesting /\ q.creatorVesting = p.creatorVesting
      /\ q.migrationFee = p.migrationFee /\ q.threshold = p.threshold
  <2>1. {"lockedVesting", "fixedSupply", "dynamicFee", "marketCapScheduler", "firstSwapMinFee",
         "partnerVesting", "creatorVesting", "migrationFee", "threshold"} \subseteq DOMAIN p
    BY SMT DEF Typed, Launches!Standard
  <2> QED BY <2>1
<1>4. q.quoteMint = "launch" /\ q.feeClaimer = "claimer" /\ q.leftoverReceiver = "claimer"
  BY <1>1
<1>5. Typed(q)
  BY <1>2, <1>3 DEF Typed
<1> QED BY <1>4, <1>5

\* What checked parameters are refused for in the end.
Refused == checked # "none" => checked = "params" /\ error' \in Launches!AccountErrors

\* A step keeps the invariant, and what the SDK has built is refused for its accounts only.
LEMMA ConfigsStep ==
  ASSUME LaunchInv, Launches!Next
  PROVE  LaunchInv' /\ (stage \in {"built", "stored"} /\ stage' = "refused" => Refused)
<1>1. CASE Launches!Build
  <2>1. /\ stage = "form" /\ checked' = "params" /\ UNCHANGED params
        /\ error' = Launches!FirstError(Launches!DbcChecks(params) \o Launches!SdkChecks(params, {"exitFee"}))
        /\ stage' = IF error' = "none" THEN "built" ELSE "refused"
    BY <1>1 DEF Launches!Build, Launches!Checked, Launches!Advance
  <2>2. stage' = "built" => /\ FailedChecks(Launches!DbcChecks(params)) = {}
                            /\ FailedChecks(Launches!SdkChecks(params, {"exitFee"})) = {}
    BY <2>1, BothPass
  <2> QED BY <2>1, <2>2 DEF LaunchInv
<1>2. CASE Launches!BuildLaunch
  <2> DEFINE q == params'
  <2>1. /\ stage = "form" /\ checked' = "launch"
        /\ q = [params EXCEPT !.quoteMint = "launch", !.feeClaimer = "claimer", !.leftoverReceiver = "claimer"]
        /\ error' = Launches!FirstError(Launches!DbcChecks(q) \o Launches!SdkChecks(q, {"exitFee"}))
        /\ stage' = IF error' = "none" THEN "built" ELSE "refused"
    BY <1>2 DEF Launches!BuildLaunch, Launches!Checked, Launches!Advance
  <2> HIDE DEF q
  <2>2. stage' = "built" => /\ FailedChecks(Launches!DbcChecks(q)) = {}
                            /\ FailedChecks(Launches!SdkChecks(q, {"exitFee"})) = {}
    BY <2>1, BothPass
  <2>3. Typed(q) /\ q.quoteMint = "launch" /\ q.feeClaimer = "claimer" /\ q.leftoverReceiver = "claimer"
    BY <2>1, LaunchAccountsTyped DEF LaunchInv
  <2>4. LaunchInv'
    BY <2>1, <2>2, <2>3 DEF LaunchInv, q, Typed, FailedChecks
  <2> QED BY <2>1, <2>4
<1>3. CASE Launches!CreateConfig
  <2>1. stage \in {"form", "built"} /\ UNCHANGED <<params, checked>> /\ stage' \in {"stored", "refused"}
    BY <1>3 DEF Launches!CreateConfig, Launches!Advance
  <2>2. checked # "none" => stage = "built" /\ FailedChecks(Launches!DbcChecks(params)) = {}
    BY <2>1 DEF LaunchInv
  <2>3. checked # "none" => Launches!FirstError(Launches!DbcChecks(params)) = "none"
    BY <2>2, DbcPasses
  <2>4. checked # "none" => stage' = "stored"
    BY <1>3, <2>3 DEF Launches!CreateConfig, Launches!Advance
  <2> QED BY <2>1, <2>2, <2>4 DEF LaunchInv, Refused
<1>4. CASE Launches!CreateLaunch
  <2> DEFINE F == FailedChecks(Launches!ProgramChecks(Launches!Stored(params)))
  <2>1. /\ stage = "stored" /\ UNCHANGED <<params, checked>>
        /\ error' = Launches!FirstError(Launches!ProgramChecks(Launches!Stored(params)))
        /\ stage' = IF error' = "none" THEN "launched" ELSE "refused"
    BY <1>4 DEF Launches!CreateLaunch, Launches!Advance
  <2>2. stage' = "launched" => F = {}
    BY <2>1, ProgramPasses
  <2>3. Typed(params) /\ F = FailedChecks(Launches!SdkChecks(params, Known))
    BY Verdicts DEF LaunchInv
  <2>4. checked # "none" => F \subseteq 2..4
    BY <2>1, <2>3, GivenLess DEF LaunchInv
  <2>5. checked = "launch" => F = {}
    BY <2>3, <2>4, AccountsPass DEF LaunchInv
  <2>6. F # {} /\ checked # "none" => error' \in Launches!AccountErrors
    BY <2>1, <2>4, AccountsTold
  <2>7. stage' = "refused" => F # {}
    BY <2>1, ProgramPasses
  <2>8. stage' = "refused" => Refused
    BY <2>5, <2>6, <2>7 DEF Refused, LaunchInv
  <2> QED BY <2>1, <2>2, <2>8 DEF LaunchInv
<1> QED BY <1>1, <1>2, <1>3, <1>4 DEF Launches!Next

LEMMA ConfigsRest ==
  ASSUME LaunchInv, UNCHANGED configVars
  PROVE  LaunchInv'
BY DEF LaunchInv, configVars

\* A fee within the limits, less the two cuts, leaves the vault 30% of the raise.
LEMMA ShareKept ==
  ASSUME NEW t \in Nat, NEW pct \in 40..70
  PROVE  Launches!VaultAtGraduation(t, pct) >= (t * 30) \div 100
<1> DEFINE migrated == (t * (100 - pct) + 99) \div 100
           cut == (t * 500) \div 10000
           share == (t * 30) \div 100
           fee == t - Launches!SmallerOf(migrated, t)
<1>1. migrated \in Nat /\ migrated * 100 <= t * 60 + 99
  <2> DEFINE x == t * (100 - pct) + 99
  <2>1. 100 - pct \in Nat /\ 100 - pct <= 60
    OBVIOUS
  <2>2. (100 - pct) * t <= 60 * t /\ (100 - pct) * t \in Nat
    BY <2>1, MulMonotone
  <2>3. x \in Nat /\ x <= t * 60 + 99
    BY <2>1, <2>2
  <2> HIDE DEF x
  <2>4. x \div 100 \in Nat /\ (x \div 100) * 100 <= x
    BY <2>3, DivBounds
  <2> QED BY <2>3, <2>4 DEF x
<1>2. cut \in Nat /\ cut * 10000 <= t * 500
  BY DivBounds
<1>3. share \in Nat /\ share * 100 <= t * 30
  BY DivBounds
<1>4. Launches!VaultAtGraduation(t, pct) =
        LET platform == Launches!SmallerOf(cut, fee)
            rest     == fee - platform
        IN  rest - Launches!SmallerOf(cut, rest)
  BY DEF Launches!VaultAtGraduation, Launches!GraduationSplit, Launches!PartnerMigrationFee, Launches!BpsFloor,
         Launches!ProRataFloor, Launches!PlatformGraduationFeeBps, Launches!CreatorGraduationBonusBps,
         Launches!BpsDenominator
<1> HIDE DEF migrated, cut, share
<1>5. Launches!VaultAtGraduation(t, pct) \in Nat /\ Launches!VaultAtGraduation(t, pct) >= t - migrated - 2 * cut
  BY <1>1, <1>2, <1>4 DEF Launches!SmallerOf
<1>6. Launches!VaultAtGraduation(t, pct) >= share
  BY <1>1, <1>2, <1>3, <1>5
<1> QED BY <1>6 DEF share

\* The verdicts agree, and a fee within the limits leaves the vault its share.
LEMMA LaunchSafe == LaunchInv => Launches!PortsAgree /\ Launches!VaultShareKept
<1> SUFFICES ASSUME LaunchInv PROVE Launches!PortsAgree /\ Launches!VaultShareKept
  OBVIOUS
<1>1. Typed(params)
  BY DEF LaunchInv
<1>2. Launches!PortsAgree
  BY <1>1, SameVerdict DEF Launches!PortsAgree, Known
<1>3. Launches!VaultShareKept
  <2> SUFFICES ASSUME stage = "launched"
               PROVE  Launches!VaultAtGraduation(params.threshold, params.migrationFee) >= (params.threshold * 30) \div 100
    BY DEF Launches!VaultShareKept
  <2> DEFINE c == Launches!Stored(params)
             b == Launches!ProgramChecks(c)
  <2>1. FailedChecks(b) = {} /\ DOMAIN b = 1..23
    BY Tables DEF LaunchInv
  <2> DEFINE out == c.migrationFee < Launches!MinMigrationFeePercentage \/ c.migrationFee > Launches!MaxMigrationFeePercentage
  <2>2. b[6] = <<"MigrationFeePercentageOutOfRange", out>>
    BY SMTT(60) DEF Launches!ProgramChecks
  <2>3. c.migrationFee = params.migrationFee
    BY <1>1, StoredFields
  <2>4. params.migrationFee \in Nat /\ params.threshold \in Nat
    BY <1>1 DEF Typed
  <2> HIDE DEF b, c, out
  <2>5. ~out
    BY <2>1, <2>2 DEF FailedChecks
  <2>6. params.migrationFee \in 40..70
    BY <2>3, <2>4, <2>5 DEF out, Launches!MinMigrationFeePercentage, Launches!MaxMigrationFeePercentage
  <2> QED BY <2>4, <2>6, ShareKept
<1> QED BY <1>2, <1>3

(***************************************************************************)
(* The parts together.                                                     *)
(***************************************************************************)

\* Inductive: the part that is exercised keeps its invariant, and every other stays as it began.
SdkInv ==
  /\ part = "page" => PageInv
  /\ part = "form" => FormInv
  /\ part = "amounts" => AmountsInv
  /\ part = "accounts" => AccountsInv

LEMMA SdkInit == MCInit => SdkInv
BY PageInit, FormInit, AmountsInit, AccountsInit DEF MCInit, SdkInv

sdkVars == <<part, splitVars, marketVars, configVars, nameVars, pageVars, formVars, amountVars, chartVars, accountVars>>

LEMMA SdkNext == SdkInv /\ [MCNext]_sdkVars => SdkInv'
<1> SUFFICES ASSUME SdkInv, [MCNext]_sdkVars PROVE SdkInv'
  OBVIOUS
<1>1. part' = part
  BY DEF MCNext, sdkVars
<1>2. ASSUME part = "page" PROVE PageInv'
  <2>1. [Page!Next]_pageVars
    BY <1>2 DEF MCNext, sdkVars
  <2> QED BY <1>2, <2>1, PageNext DEF SdkInv
<1>3. ASSUME part = "form" PROVE FormInv'
  <2>1. [Form!Next]_formVars
    BY <1>3 DEF MCNext, sdkVars
  <2> QED BY <1>3, <2>1, FormNext DEF SdkInv
<1>4. ASSUME part = "amounts" PROVE AmountsInv'
  <2>1. [Quotes!Next]_amountVars
    BY <1>4 DEF MCNext, sdkVars
  <2> QED BY <1>4, <2>1, AmountsNext DEF SdkInv
<1>5. ASSUME part = "accounts" PROVE AccountsInv'
  <2>1. [Accounts!Next]_accountVars
    BY <1>5 DEF MCNext, sdkVars
  <2> QED BY <1>5, <2>1, AccountsNext DEF SdkInv
<1> QED BY <1>1, <1>2, <1>3, <1>4, <1>5 DEF SdkInv

LEMMA SdkInvImplies == SdkInv => ShownHolds
BY PageInvImplies, FormInvImplies, AmountsInvImplies, AccountsInvImplies
   DEF SdkInv, ShownHolds, PageHolds, FormHolds, AmountsHold, AccountsHold

(***************************************************************************)
(* What a page shows is what is there and what gets signed, what a form    *)
(* shows is what is launched, an amount is not overstated, and what the    *)
(* SDK builds is accepted while nothing accepted moves what belongs to     *)
(* another launch.                                                         *)
(***************************************************************************)
THEOREM ShownTheorem == MCSpec => []ShownHolds
BY SdkInit, SdkNext, SdkInvImplies, PTL DEF MCSpec, sdkVars

\* A step of another part leaves the redemptions as they began.
LEMMA SplitsStep == [MCNext]_sdkVars => [Next]_vars
BY DEF MCNext, sdkVars, splitVars, vars

(***************************************************************************)
(* The redemptions among the parts are those of RedeemSplits: whatever is  *)
(* proved of its specification holds of the one that is checked.           *)
(***************************************************************************)
THEOREM SplitsImplemented == MCSpec => Spec
<1>1. MCInit => Init
  BY DEF MCInit
<1> QED BY <1>1, SplitsStep, PTL DEF MCSpec, Spec, sdkVars

(***************************************************************************)
(* Together, whatever the parts: no split of a redemption beats one, and a *)
(* kept fee raises the floor.                                              *)
(***************************************************************************)
COROLLARY SplitsAmongParts == MCSpec => []NoSplitBeatsOne /\ KeptFeeRaisesFloor
BY SplitsImplemented, SplitsNeverWin, KeptFeeTheorem, PTL

\* A step of another part leaves the config, and the form, as they began.
LEMMA OthersRest ==
  ASSUME [MCNext]_sdkVars
  PROVE  [Launches!Next]_configVars /\ [Form!Next]_formVars
BY DEF MCNext, sdkVars

(***************************************************************************)
(* Whoever builds the parameters, and whatever they are: of a config that  *)
(* DBC has stored, the SDK's port, given what the program knows, and the   *)
(* program give the same verdict (stockfloor/validateLaunch.ts, "Each      *)
(* failure carries the program's error name"); a launch the SDK has built  *)
(* is not refused once its config was paid for, and parameters it has      *)
(* built alone only for the accounts their caller named, which it leaves   *)
(* to the program (presets.ts); and a launch has 30% of its raise for the  *)
(* vault, whatever the rounding of both splits.                            *)
(***************************************************************************)
THEOREM PortsTheorem ==
  MCSpec => [](Launches!PortsAgree /\ Launches!VaultShareKept) /\ Launches!NothingPaidInVain
<1>1. MCInit => LaunchInv
  BY ConfigsInit DEF MCInit
<1>2. LaunchInv /\ [MCNext]_sdkVars => LaunchInv'
  BY OthersRest, ConfigsStep, ConfigsRest
<1>3. LaunchInv /\ [MCNext]_sdkVars =>
        [checked # "none" /\ stage \in {"built", "stored"} /\ stage' = "refused" =>
            /\ checked = "params"
            /\ error' \in Launches!AccountErrors]_configVars
  BY OthersRest, ConfigsStep DEF Refused
<1> QED BY <1>1, <1>2, <1>3, LaunchSafe, PTL DEF MCSpec, sdkVars, Launches!NothingPaidInVain, Launches!configVars, configVars

(***************************************************************************)
(* "Uploaded once per set of values" (CreateLaunchForm.tsx): the retry of  *)
(* a launch uploads nothing, whatever happened to the form in between.     *)
(***************************************************************************)
THEOREM RetryTheorem == MCSpec => Form!RetryUploadsNothing
<1>1. MCInit => FormInv
  BY FormInit DEF MCInit
<1>2. FormInv /\ [MCNext]_sdkVars => FormInv'
  BY OthersRest, FormNext
<1>3. FormInv /\ [MCNext]_sdkVars =>
        [submit.resume => ~(submit'.status = "submitting" /\ submit'.stage = "upload")]_formVars
  BY OthersRest, RetryKeeps
<1> QED BY <1>1, <1>2, <1>3, PTL DEF MCSpec, sdkVars, Form!RetryUploadsNothing, Form!vars, formVars
=============================================================================
