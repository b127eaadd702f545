------------------------------ MODULE Trading ------------------------------
(***************************************************************************)
(* A launch from its first buy to its DAMM v2 pool, traded with the SDK's  *)
(* ports of both venues: the curve a launch is built with                  *)
(* (packages/sdk/src/presets.ts), any sequence of swaps by anyone, the     *)
(* migration, and what the preview promised of the floor.                  *)
(***************************************************************************)
EXTENDS Swaps

CONSTANTS
    Raises,           \* [usd, price, multiplier]: what is raised, in an asset of that price
    Guesses,          \* sqrt prices the solver may start from
    SupplyTarget,     \* supply a launch should have at graduation
    VaultShares,      \* percent of the raise for the vault
    Ratios,           \* [num, den]: graduation price over start price
    Curves,           \* curves of other configs that create_config accepts: [start, curve]
    Schedules,        \* fee schedules of the curve
    DammFee,          \* fee numerator of the DAMM v2 pool
    Amounts,          \* bound: amounts of one trade
    MaxTrades,        \* bound: trades on one venue
    MaxElapsed        \* bound: time

LOCAL INSTANCE SequencesExt

VARIABLES
    cfg,      \* what create_config stored
    pool,     \* the DBC pool
    sold,     \* base bought on the curve and not sold back, or bought and sold on DAMM v2
    damm,     \* [open, sqrtPrice, liquidity, base, quote] of the DAMM v2 pool
    elapsed,  \* time since the activation of the curve
    trades    \* bound: trades made on the venue

vars == <<cfg, pool, sold, damm, elapsed, trades>>

-----------------------------------------------------------------------------

\* computeThresholdQuoteRaw: worth at least the dollars that are to be raised.
ThresholdQuoteRaw(raise) ==
    DivCeil(raise.usd * raise.price.den * raise.multiplier.den, raise.price.num * raise.multiplier.num)

GraduationCuts == 10
MigrationFeePct(share) == share + GraduationCuts

(***************************************************************************)
(* evaluateCurve: one segment up to the graduation price, its liquidity    *)
(* just enough to take the whole threshold.                                *)
(***************************************************************************)
GraduationPrice(start, ratio) == Isqrt((start * start * ratio.num) \div ratio.den)

PresetCurve(threshold, start, ratio) ==
    LET end == GraduationPrice(start, ratio)
    IN  <<[sqrtPrice |-> end, liquidity |-> DivCeil(threshold * Q, end - start)]>>

PresetFits(threshold, start, ratio) ==
    LET end == GraduationPrice(start, ratio)
    IN  start >= MinSqrtPrice /\ end < MaxSqrtPrice /\ end > start
        /\ DivCeil(threshold * Q, end - start) <= U128Max

\* The supply once DAMM v2 has its part.
SupplyAtGraduation(threshold, start, curve, share) ==
    LET price == MigrationThreshold(threshold, start, curve).price
    IN  BaseForSwap(start, price, curve)
        + ConcentratedBase(MigrationQuote(threshold, MigrationFeePct(share)), price, TRUE)

\* computeLaunchCurve: the start price is corrected four times for the supply target;
\* 0 when a price falls out of range on the way.
SolvedStart(threshold, share, ratio, guess) ==
    LET Corrected(start) ==
            IF start = 0 \/ ~PresetFits(threshold, start, ratio) THEN 0
            ELSE Isqrt((start * start * SupplyAtGraduation(threshold, start,
                            PresetCurve(threshold, start, ratio), share)) \div SupplyTarget)
    IN  Corrected(Corrected(Corrected(Corrected(guess))))

\* What previewLaunch shows of the floor: vault over supply.
SdkGraduationSplit(threshold, received) ==
    LET platform == SmallerOf(BpsFloor(threshold, 500), received)
        creator == SmallerOf(BpsFloor(threshold, 500), received - platform)
    IN  [platform |-> platform, creator |-> creator, vault |-> received - platform - creator]

Preview(threshold, start, curve, share) ==
    [vault |-> SdkGraduationSplit(threshold, MigrationFeeDistribution(threshold, MigrationFeePct(share), 0).partner).vault,
     supply |-> SupplyAtGraduation(threshold, start, curve, share)]

CurveIncreases(start, curve) ==
    /\ start >= MinSqrtPrice /\ curve # <<>>
    /\ \A i \in DOMAIN curve :
          /\ curve[i].liquidity \in 1..U128Max
          /\ curve[i].sqrtPrice > (IF i = 1 THEN start ELSE curve[i - 1].sqrtPrice)
          /\ curve[i].sqrtPrice <= MaxSqrtPrice

(***************************************************************************)
(* What create_config derives from the threshold and the curve, and when   *)
(* it refuses them (validateDbcConfigParams, from the threshold on).       *)
(***************************************************************************)
Config(threshold, start, curve, share, schedule, quoteOnly) ==
    LET price == MigrationThreshold(threshold, start, curve).price
        quote == MigrationQuote(threshold, MigrationFeePct(share))
        swapBase == BaseForSwap(start, price, curve)
        base == ConcentratedBase(quote, price, TRUE)
    IN  [threshold |-> threshold, start |-> start, curve |-> curve, share |-> share,
         schedule |-> schedule, quoteOnly |-> quoteOnly,
         migrationSqrtPrice |-> price, swapBase |-> swapBase, migrationBase |-> base,
         migrationQuote |-> quote,
         initialSupply |-> SwapAmountWithBuffer(swapBase, start, curve) + base]

Accepted(threshold, start, curve, share) ==
    LET walk == MigrationThreshold(threshold, start, curve)
        quote == MigrationQuote(threshold, MigrationFeePct(share))
    IN  /\ threshold > 0 /\ CurveIncreases(start, curve)
        /\ walk.left = 0 /\ walk.price < MaxSqrtPrice
        /\ walk.price > MinSqrtPrice /\ InitialLiquidity(quote, walk.price) <= U128Max
        /\ BaseForSwap(start, walk.price, curve) > 0
        /\ ConcentratedBase(quote, walk.price, TRUE) > 0

Presets ==
    {p \in {<<t, SolvedStart(t, v, r, g), r, v>> :
            t \in {ThresholdQuoteRaw(x) : x \in Raises}, v \in VaultShares, r \in Ratios, g \in Guesses} :
        p[2] > 0 /\ PresetFits(p[1], p[2], p[3])}

Configs ==
    {Config(c[1], c[2], c[3], c[4], schedule, quoteOnly) :
        c \in {x \in {<<p[1], p[2], PresetCurve(p[1], p[2], p[3]), p[4]>> : p \in Presets}
                    \cup {<<ThresholdQuoteRaw(r), o.start, o.curve, v>> :
                             r \in Raises, o \in Curves, v \in VaultShares} :
                Accepted(x[1], x[2], x[3], x[4])},
        schedule \in Schedules, quoteOnly \in BOOLEAN}

NoDamm == [open |-> FALSE, sqrtPrice |-> 0, liquidity |-> 0, base |-> 0, quote |-> 0]

Init ==
    /\ cfg \in Configs
    /\ pool = [sqrtPrice |-> cfg.start, quoteReserve |-> 0, baseReserve |-> cfg.initialSupply]
    /\ sold = 0
    /\ damm = NoDamm
    /\ elapsed = 0 /\ trades = 0

Completed == pool.quoteReserve >= cfg.threshold

-----------------------------------------------------------------------------

\* Anyone buys, or sells what was sold, on the curve.
SwapOnCurve ==
    /\ ~damm.open /\ trades < MaxTrades /\ trades' = trades + 1
    /\ \E side \in {"buy", "sell"}, mode \in {"exactIn", "partialFill", "exactOut"}, amount \in Amounts :
          \E quote \in {QuoteDbcSwap(cfg, pool, side, mode, amount, elapsed)} :
              /\ quote.error = "none"
              /\ side = "sell" => quote.included <= sold
              /\ pool' = quote.pool
              /\ sold' = IF side = "buy" THEN sold + quote.output ELSE sold - quote.included
    /\ UNCHANGED <<cfg, damm, elapsed>>

\* The curve's fee schedule goes on.
TimePasses ==
    /\ ~damm.open /\ elapsed < MaxElapsed /\ cfg.schedule.frequency > 0
    /\ elapsed' = elapsed + 1
    /\ UNCHANGED <<cfg, pool, sold, damm, trades>>

(***************************************************************************)
(* DBC migrates the completed curve: the quote that is not the migration   *)
(* fee, less DBC's 0.2%, and base to match, as full-range liquidity.       *)
(***************************************************************************)
MigratedPool ==
    LET price == cfg.migrationSqrtPrice
        quote == cfg.migrationQuote - ProtocolMigrationFees(cfg.migrationQuote, price).quote
        liquidity == InitialLiquidity(quote, price)
    IN  [open |-> TRUE, sqrtPrice |-> price, liquidity |-> liquidity,
         base |-> BaseUp(price, MaxSqrtPrice, liquidity), quote |-> QuoteUp(MinSqrtPrice, price, liquidity)]

Migrate ==
    /\ ~damm.open /\ Completed
    /\ damm' = MigratedPool
    /\ pool' = [sqrtPrice |-> cfg.migrationSqrtPrice, quoteReserve |-> 0, baseReserve |-> 0]
    /\ elapsed' = 0 /\ trades' = 0
    /\ UNCHANGED <<cfg, sold>>

SwapOnDamm ==
    /\ damm.open /\ trades < MaxTrades /\ trades' = trades + 1
    /\ \E side \in {"buy", "sell"}, amount \in Amounts :
          \E quote \in {QuoteDammSwap(damm, side, amount, DammFee)} :
              /\ quote.error = "none"
              /\ side = "sell" => amount <= sold
              /\ sold' = IF side = "buy" THEN sold + quote.output ELSE sold - amount
              /\ damm' = IF side = "buy"
                         THEN [damm EXCEPT !.sqrtPrice = quote.price, !.quote = @ + quote.excluded,
                                           !.base = @ - quote.moved]
                         ELSE [damm EXCEPT !.sqrtPrice = quote.price, !.base = @ + quote.excluded,
                                           !.quote = @ - quote.moved]
    /\ UNCHANGED <<cfg, pool, elapsed>>

Next == SwapOnCurve \/ TimePasses \/ Migrate \/ SwapOnDamm

Spec == Init /\ [][Next]_vars

-----------------------------------------------------------------------------

TypeOK ==
    /\ pool.sqrtPrice \in cfg.start..cfg.migrationSqrtPrice
    /\ pool.quoteReserve \in Nat /\ pool.baseReserve \in Nat
    /\ sold \in Nat /\ damm.base \in Nat /\ damm.quote \in Nat

\* Holders can leave: at any time before the curve is complete, whatever part of what
\* was sold is offered for sale, the quote is not refused.
SellersCanLeave ==
    ~damm.open /\ ~Completed =>
        \A amount \in 1..sold : QuoteCurveTrade(cfg, pool, "sell", amount, elapsed).error = "none"

\* A buy of any size is quoted until the curve is complete, if need be in part, and
\* never for more than was offered.
BuyersAreServed ==
    ~damm.open /\ ~Completed =>
        \A amount \in Amounts :
            \E quote \in {QuoteCurveTrade(cfg, pool, "buy", amount, elapsed)} :
                quote.error = "none" /\ quote.included <= amount

\* A curve that has no base left to sell is complete (assertCurveCanComplete).
CurveCanComplete == ~damm.open /\ pool.sqrtPrice = cfg.migrationSqrtPrice => Completed

\* Completed, the reserves hold what was set aside for the DAMM v2 pool, and the
\* pool's deposits take no more.
MigrationFunded ==
    ~damm.open /\ Completed =>
        /\ pool.baseReserve >= cfg.migrationBase
        /\ MigratedPool.base <= cfg.migrationBase /\ MigratedPool.quote <= cfg.migrationQuote

\* The floor the preview shows is not overstated: whatever was bought and sold on the
\* curve, the vault holds as much per token after the migration.
PreviewConservative ==
    ~damm.open =>
        LET preview == Preview(cfg.threshold, cfg.start, cfg.curve, cfg.share)
            vault == VaultAtGraduation(cfg.threshold, MigrationFeePct(cfg.share))
        IN  vault * preview.supply >= preview.vault * (sold + cfg.migrationBase)

\* What exact-out asks for buys at least that when it is offered as exact-in.
ExactOutHonoured ==
    ~damm.open /\ ~Completed =>
        \A amount \in Amounts :
            \A quote \in {QuoteDbcSwap(cfg, pool, "buy", "exactOut", amount, elapsed)} :
                quote.error = "none" =>
                    \E again \in {QuoteDbcSwap(cfg, pool, "buy", "exactIn", quote.included, elapsed)} :
                        again.error = "none" /\ again.output >= amount

TradesSound ==
    /\ SellersCanLeave /\ BuyersAreServed /\ CurveCanComplete
    /\ MigrationFunded /\ PreviewConservative /\ ExactOutHonoured
=============================================================================
