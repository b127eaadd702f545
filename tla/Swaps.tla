------------------------------- MODULE Swaps -------------------------------
(***************************************************************************)
(* The SDK's ports of the swaps of the two venues: swap2 of a DBC pool     *)
(* (packages/sdk/src/dbc/swapQuote.ts) and of the DAMM v2 pool a launch    *)
(* migrates to (packages/sdk/src/damm/swapQuote.ts), and the quote the app *)
(* and the scripts ask for (packages/sdk/src/trade.ts).                    *)
(*                                                                         *)
(* A quote is a record whose error is "none" or the name of the error the  *)
(* code throws.                                                            *)
(***************************************************************************)
EXTENDS CurveMath

CONSTANTS
    FeeDenominator,    \* 10^9 in the code
    MaxFeeNumerator    \* 99% of it

ASSUME SwapsAssumption ==
    /\ FeeDenominator \in Nat \ {0}
    /\ MaxFeeNumerator \in 1..FeeDenominator - 1

LOCAL INSTANCE SequencesExt
LOCAL INSTANCE TLC

Failed(error) == [error |-> error]

-----------------------------------------------------------------------------

(***************************************************************************)
(* Trading fees: a schedule [exponential, cliff, periods, frequency,       *)
(* reduction], since the pool was activated.                               *)
(***************************************************************************)
BaseFeeNumerator(schedule, elapsed) ==
    LET period == SmallerOf(elapsed \div schedule.frequency, schedule.periods)
    IN  CASE schedule.frequency = 0 -> schedule.cliff
          [] schedule.frequency # 0 /\ schedule.exponential ->
                FeeInPeriod(schedule.cliff, schedule.reduction, period)
          [] OTHER -> schedule.cliff - schedule.reduction * period

TradeFeeNumerator(schedule, elapsed) ==
    SmallerOf(BaseFeeNumerator(schedule, elapsed), MaxFeeNumerator)

FeeOnAmount(numerator, amount) == DivCeil(amount * numerator, FeeDenominator)
IncludedFeeAmount(numerator, excluded) ==
    DivCeil(excluded * FeeDenominator, FeeDenominator - numerator)

\* The fee is taken from the input of a buy when it is collected in quote, and from
\* the output otherwise.
FeesOnInput(quoteOnly, side) == quoteOnly /\ side = "buy"

-----------------------------------------------------------------------------

NextFromBaseIn(price, liquidity, amount) ==
    IF amount = 0 THEN price ELSE DivCeil(liquidity * price, liquidity + amount * price)
NextFromQuoteOut(price, liquidity, amount) == price - DivCeil(amount * Q, liquidity)
NextFromBaseOut(price, liquidity, amount) ==
    IF amount = 0 THEN price ELSE DivCeil(liquidity * price, liquidity - amount * price)

(***************************************************************************)
(* A walk along the curve from price: through each segment [to, liquidity] *)
(* that left covers (it needs Need), and into the one where it ends, where *)
(* Part gives the price.  Got is what the other side of the swap amounts   *)
(* to.  Need and Got are told the lower price first.                       *)
(***************************************************************************)
Walk(segments, price, amount, Need(_, _, _), Got(_, _, _), Part(_, _, _)) ==
    LET Between(Delta(_, _, _), p, q, l) == IF p <= q THEN Delta(p, q, l) ELSE Delta(q, p, l)
        Segment(walk, seg) ==
            LET need == Between(Need, walk.price, seg.to, seg.liquidity)
                part == Part(walk.price, seg.liquidity, walk.left)
                end  == IF walk.left < need THEN part ELSE seg.to
            IN  IF walk.done THEN walk
                ELSE [price |-> end,
                      left |-> IF walk.left < need THEN 0 ELSE walk.left - need,
                      got |-> walk.got + Between(Got, walk.price, end, seg.liquidity),
                      done |-> walk.left < need]
    IN  FoldLeft(Segment, [price |-> price, left |-> amount, got |-> 0, done |-> FALSE], segments)

\* The segments above price, up to stop; and the ones below it, each with the liquidity
\* of the point above, but for the lowest.
SegmentsUp(curve, price, stop) ==
    LET Capped(i) == [to |-> SmallerOf(stop, curve[i].sqrtPrice), liquidity |-> curve[i].liquidity]
        above == SelectSeq([i \in 1..Len(curve) |-> i],
                           LAMBDA i : Capped(i).to > price
                                      /\ (i = 1 \/ curve[i - 1].sqrtPrice < stop))
    IN  [k \in 1..Len(above) |-> Capped(above[k])]
SegmentsDown(curve, price) ==
    LET below == SelectSeq([i \in 1..Len(curve) - 1 |-> Len(curve) - i],
                           LAMBDA i : curve[i].sqrtPrice < price)
    IN  [k \in 1..Len(below) |->
            [to |-> curve[below[k]].sqrtPrice, liquidity |-> curve[below[k] + 1].liquidity]]

BaseUp(lower, upper, liquidity) == DeltaBase(lower, upper, liquidity, TRUE)
BaseDown(lower, upper, liquidity) == DeltaBase(lower, upper, liquidity, FALSE)
QuoteUp(lower, upper, liquidity) == DeltaQuote(lower, upper, liquidity, TRUE)
QuoteDown(lower, upper, liquidity) == DeltaQuote(lower, upper, liquidity, FALSE)

BuyIn(cfg, price, amount, stop) ==
    Walk(SegmentsUp(cfg.curve, price, stop), price, amount, QuoteUp, BaseDown, NextFromQuoteIn)

\* What the curve below leaves of a sale goes to the liquidity of the first point, down
\* to the start price.
SellAtBottom(cfg, walk) ==
    LET bottom == cfg.curve[1].liquidity
        reached == NextFromBaseIn(walk.price, bottom, walk.left)
        end == IF reached < cfg.start THEN cfg.start ELSE reached
        used == IF reached < cfg.start THEN BaseUp(end, walk.price, bottom) ELSE walk.left
    IN  IF walk.left = 0 THEN walk
        ELSE [walk EXCEPT !.price = end, !.left = @ - used,
                          !.got = @ + QuoteDown(end, walk.price, bottom)]
SellIn(cfg, price, amount) ==
    SellAtBottom(cfg, Walk(SegmentsDown(cfg.curve, price), price, amount, BaseUp, QuoteDown, NextFromBaseIn))

BuyOut(cfg, price, amount) ==
    Walk(SegmentsUp(cfg.curve, price, MaxSqrtPrice), price, amount, BaseDown, QuoteUp, NextFromBaseOut)

\* What is left when the curve below cannot pay stays left.
SellOutAtBottom(cfg, walk) ==
    LET bottom == cfg.curve[1].liquidity
        end == NextFromQuoteOut(walk.price, bottom, walk.left)
    IN  IF walk.left = 0 \/ walk.left > QuoteDown(cfg.start, walk.price, bottom) \/ end < cfg.start
        THEN walk
        ELSE [walk EXCEPT !.price = end, !.left = 0, !.got = @ + BaseUp(end, walk.price, bottom)]
SellOut(cfg, price, amount) ==
    SellOutAtBottom(cfg,
        Walk(SegmentsDown(cfg.curve, price), price, amount, QuoteDown, BaseUp, NextFromQuoteOut))

-----------------------------------------------------------------------------

(***************************************************************************)
(* swap2 of a DBC pool [sqrtPrice, quoteReserve, baseReserve] of a config. *)
(***************************************************************************)
\* The quote of a walk in which offered of amount was put into the curve.
InputFilled(walk, onInput, partial, amount, offered, numerator) ==
    LET used == offered - walk.left
        included == CASE walk.left = 0 -> amount
                      [] walk.left # 0 /\ onInput -> IncludedFeeAmount(numerator, used)
                      [] OTHER -> used
        fee == IF onInput THEN included - used ELSE FeeOnAmount(numerator, walk.got)
    IN  IF walk.left # 0 /\ ~partial THEN Failed("InsufficientLiquidity")
        ELSE [error |-> "none", included |-> included, excluded |-> used, moved |-> walk.got, fee |-> fee,
              output |-> IF onInput THEN walk.got ELSE walk.got - fee, price |-> walk.price]

InputSwap(cfg, pool, side, partial, amount, numerator) ==
    LET onInput == FeesOnInput(cfg.quoteOnly, side)
        offered == IF onInput THEN amount - FeeOnAmount(numerator, amount) ELSE amount
    IN  InputFilled(IF side = "buy" THEN BuyIn(cfg, pool.sqrtPrice, offered, cfg.migrationSqrtPrice)
                    ELSE SellIn(cfg, pool.sqrtPrice, offered),
                    onInput, partial, amount, offered, numerator)

\* The quote of a walk in which wanted, amount and the fee on it, was taken out.
OutputFilled(walk, cfg, side, amount, wanted, numerator) ==
    LET onInput == FeesOnInput(cfg.quoteOnly, side)
        included == IF onInput THEN IncludedFeeAmount(numerator, walk.got) ELSE walk.got
    IN  IF walk.left # 0 /\ side = "buy" THEN Failed("AmountLeftIsNotZero")
        ELSE IF walk.left # 0 \/ walk.price > cfg.migrationSqrtPrice THEN Failed("InsufficientLiquidity")
        ELSE [error |-> "none", included |-> included, excluded |-> walk.got, moved |-> wanted,
              fee |-> IF onInput THEN included - walk.got ELSE wanted - amount,
              output |-> amount, price |-> walk.price]

OutputSwap(cfg, pool, side, amount, numerator) ==
    LET wanted == IF FeesOnInput(cfg.quoteOnly, side) THEN amount ELSE IncludedFeeAmount(numerator, amount)
    IN  OutputFilled(IF side = "buy" THEN BuyOut(cfg, pool.sqrtPrice, wanted)
                     ELSE SellOut(cfg, pool.sqrtPrice, wanted),
                     cfg, side, amount, wanted, numerator)

\* The pool after the swap of quote.
PoolAfter(pool, side, quote) ==
    LET in == IF side = "buy" THEN "quoteReserve" ELSE "baseReserve"
        out == IF side = "buy" THEN "baseReserve" ELSE "quoteReserve"
    IN  [pool EXCEPT !.sqrtPrice = quote.price, ![in] = @ + quote.excluded, ![out] = @ - quote.moved]

WithPool(quote, pool, side) ==
    CASE quote.error # "none" -> quote
      [] quote.error = "none" /\ quote.moved > pool[IF side = "buy" THEN "baseReserve" ELSE "quoteReserve"] ->
            Failed("MathOverflow")
      [] OTHER -> quote @@ [pool |-> PoolAfter(pool, side, quote)]

SwapQuote(cfg, pool, side, mode, amount, numerator) ==
    IF mode = "exactOut" THEN OutputSwap(cfg, pool, side, amount, numerator)
    ELSE InputSwap(cfg, pool, side, mode = "partialFill", amount, numerator)

QuoteDbcSwap(cfg, pool, side, mode, amount, elapsed) ==
    CASE amount = 0 -> Failed("AmountIsZero")
      [] amount # 0 /\ pool.quoteReserve >= cfg.threshold -> Failed("PoolIsCompleted")
      [] OTHER ->
            WithPool(SwapQuote(cfg, pool, side, mode, amount, TradeFeeNumerator(cfg.schedule, elapsed)),
                     pool, side)

-----------------------------------------------------------------------------

(***************************************************************************)
(* swap2 ExactIn of a DAMM v2 pool [sqrtPrice, liquidity] over the whole   *)
(* range of prices, its fee collected in quote.                            *)
(***************************************************************************)
QuoteDammSwap(pool, side, amount, numerator) ==
    LET onInput == side = "buy"
        offered == IF onInput THEN amount - FeeOnAmount(numerator, amount) ELSE amount
        end == IF side = "buy" THEN NextFromQuoteIn(pool.sqrtPrice, pool.liquidity, offered)
               ELSE NextFromBaseIn(pool.sqrtPrice, pool.liquidity, offered)
        output == IF side = "buy" THEN BaseDown(pool.sqrtPrice, end, pool.liquidity)
                  ELSE QuoteDown(end, pool.sqrtPrice, pool.liquidity)
        fee == IF onInput THEN amount - offered ELSE FeeOnAmount(numerator, output)
    IN  CASE amount = 0 -> Failed("AmountIsZero")
          [] amount # 0 /\ end \notin MinSqrtPrice..MaxSqrtPrice -> Failed("PriceRangeViolation")
          [] OTHER -> [error |-> "none", included |-> amount, excluded |-> offered, moved |-> output,
                       fee |-> fee, output |-> IF onInput THEN output ELSE output - fee, price |-> end]

\* quoteTrade on the curve: a buy that would cross the migration price fills in part.
QuoteCurveTrade(cfg, pool, side, amount, elapsed) ==
    LET OrPartly(exact) ==
            IF side = "buy" /\ exact.error = "InsufficientLiquidity"
            THEN QuoteDbcSwap(cfg, pool, side, "partialFill", amount, elapsed)
            ELSE exact
    IN  OrPartly(QuoteDbcSwap(cfg, pool, side, "exactIn", amount, elapsed))
=============================================================================
