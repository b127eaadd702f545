----------------------------- MODULE CurveMath -----------------------------
(***************************************************************************)
(* The SDK's port of the bonding curve arithmetic of the DBC program       *)
(* (packages/sdk/src/dbc/curveMath.ts).  One stands for 2^64, the unit of  *)
(* the code's fixed-point numbers, so that the roundings can be explored   *)
(* at a small resolution: a sqrt price is the root of quote per base times *)
(* One, and liquidity L over a step d of the sqrt price is L * d / Q quote.*)
(***************************************************************************)
EXTENDS Integers, Sequences, FloorMath

CONSTANTS
    One,             \* 2^64 in the code
    MinSqrtPrice,    \* DBC's range of sqrt prices
    MaxSqrtPrice

ASSUME CurveMathAssumption ==
    /\ One \in Nat \ {0}
    /\ MinSqrtPrice \in Nat \ {0}
    /\ MaxSqrtPrice \in Nat
    /\ MinSqrtPrice < MaxSqrtPrice

LOCAL INSTANCE SequencesExt

Q == One * One
U128Max == Q - 1

DivCeil(a, b) == (a + b - 1) \div b
MulDiv(x, y, d, up) == IF up THEN DivCeil(x * y, d) ELSE (x * y) \div d

\* The largest r with r * r <= n, by Newton's iteration from a power of two above it.
Isqrt(n) ==
    LET bits == CHOOSE b \in 0..32 : 2^b > n /\ (b = 0 \/ 2^(b - 1) <= n)
        newton[x \in Nat] ==
            LET y == (x + n \div x) \div 2 IN IF y >= x THEN x ELSE newton[y]
    IN  IF n < 2 THEN n ELSE newton[2^DivCeil(bits, 2)]

-----------------------------------------------------------------------------

\* A curve is a sequence of points [sqrtPrice, liquidity]: liquidity up to sqrtPrice.

DeltaBase(lower, upper, liquidity, up) ==
    MulDiv(liquidity, upper - lower, lower * upper, up)

DeltaQuote(lower, upper, liquidity, up) == MulDiv(liquidity, upper - lower, Q, up)

NextFromQuoteIn(price, liquidity, amount) == price + (amount * Q) \div liquidity

(***************************************************************************)
(* The price at which threshold quote has been swapped in, each segment    *)
(* rounded up on its own; left > 0 when the curve is too short for it.     *)
(***************************************************************************)
MigrationThreshold(threshold, start, curve) ==
    LET Segment(walk, point) ==
            LET most == DeltaQuote(walk.price, point.sqrtPrice, point.liquidity, TRUE)
            IN  IF most > walk.left
                THEN [price |-> NextFromQuoteIn(walk.price, point.liquidity, walk.left), left |-> 0]
                ELSE [price |-> point.sqrtPrice, left |-> walk.left - most]
    IN  FoldLeft(Segment, [price |-> start, left |-> threshold], curve)

BaseForSwap(start, price, curve) ==
    LET Lower(i) == IF i = 1 THEN start ELSE curve[i - 1].sqrtPrice
        Sold(i) ==
            IF Lower(i) >= price THEN 0
            ELSE DeltaBase(Lower(i), SmallerOf(curve[i].sqrtPrice, price), curve[i].liquidity, TRUE)
    IN  FoldLeft(LAMBDA total, i : total + Sold(i), 0, [i \in 1..Len(curve) |-> i])

\* Rounded up; DBC's own SDK rounds down.
MigrationQuote(threshold, percentage) == DivCeil(threshold * (100 - percentage), 100)

MigrationFeeDistribution(threshold, percentage, creatorPercentage) ==
    LET fee == threshold - MigrationQuote(threshold, percentage)
        creator == (fee * creatorPercentage) \div 100
    IN  [partner |-> fee - creator, creator |-> creator]

\* Full-range liquidity at price that holds quote, and the base that goes with it.
InitialLiquidity(quote, price) == (quote * Q) \div (price - MinSqrtPrice)
ConcentratedBase(quote, price, up) ==
    DeltaBase(price, MaxSqrtPrice, InitialLiquidity(quote, price), up)

\* What DBC keeps of the migrated liquidity: 0.2%.
ProtocolMigrationFees(quote, price) ==
    LET fee == BpsFloor(quote, 20)
    IN  [base |-> ConcentratedBase(fee, price, FALSE), quote |-> fee]

\* A quarter more than is sold, up to what the whole curve holds.
SwapAmountWithBuffer(swapBase, start, curve) ==
    SmallerOf(swapBase + (swapBase * 25) \div 100, BaseForSwap(start, MaxSqrtPrice, curve))

-----------------------------------------------------------------------------

\* Fixed-point power by squaring; 0 where the program returns None.
PowQ(base, exponent) ==
    LET inverted == base >= One
        Bit(acc, bit) ==
            LET square == IF bit = 0 THEN acc.square ELSE (acc.square * acc.square) \div One
                odd == (exponent \div 2^bit) % 2 = 1
            IN  [square |-> square,
                 result |-> IF odd THEN (acc.result * square) \div One ELSE acc.result]
        first == [square |-> IF inverted THEN U128Max \div base ELSE base, result |-> One]
        power == FoldLeft(Bit, first, [b \in 1..19 |-> b - 1]).result
    IN  IF exponent = 0 THEN One
        ELSE IF power # 0 /\ inverted THEN U128Max \div power
        ELSE power

\* cliff * (1 - reduction/10000)^period
FeeInPeriod(cliff, reduction, period) ==
    (PowQ(One - (reduction * One) \div BpsDenominator, period) * cliff) \div One
=============================================================================
