---------------------------- MODULE QuoteAmounts ----------------------------
(***************************************************************************)
(* Amounts of a quote asset whose issuer sets what a raw unit is shown as  *)
(* (Token-2022 ScaledUiAmount): what a page shows, what is typed and what  *)
(* is asked for in USD, between polls that read the multiplier on chain    *)
(* and the price, per shown token, from a cache (sdk math.ts, format.ts,   *)
(* metrics.ts, data/chain.ts, data/chainActions.ts).  The raw unit keeps   *)
(* its worth throughout; how prices move is left out.                      *)
(***************************************************************************)
EXTENDS FloorMath

CONSTANTS
    Unit,          \* raw units of one token, 10^decimals
    Scale,         \* multipliers are counted in 1/Scale
    Multipliers,   \* what the issuer may set
    Worth,         \* USD of Unit raw units
    Asked,         \* USD the threshold of a launch is asked for
    Bought,        \* what a buy pays and gets, both raw
    ExitFee,
    Ttl,           \* lifetime of the cached price
    MaxTime        \* bound of the clock

VARIABLES
    now,
    config,        \* the mint's ScaledUiAmountConfig
    price,         \* the price cache: when it was read, and under which multiplier
    vault, supply, \* of the launch the page shows
    page,          \* what the page has polled: the launch, the price and the multiplier
    balance,       \* raw, of the wallet
    form           \* the amount field in last digits and the multiplier Max was pressed at,
                   \* the threshold of a launch, or tokens bought with the loss the page showed

vars == <<now, config, price, vault, supply, page, balance, form>>

Ceil(n, d) == (n + d - 1) \div d

\* "newMultiplier once its effective timestamp has passed".
EffectiveMultiplier(c, t) == IF t >= c.at THEN c.newMultiplier ELSE c.multiplier
InForce == EffectiveMultiplier(config, now)

\* Jupiter prices a shown token; n / d in USD.
JupiterPrice(m) == [n |-> Worth * Scale, d |-> m]

UiToRaw(ui, m) == (ui * Scale) \div m
\* Mutant: rounded to the nearest digit.
FormatTokenAmountNearest(raw, m) == (2 * raw * m + Scale) \div (2 * Scale)
\* Rounded down, so balances are never overstated.
FormatTokenAmount(raw, m) == (raw * m) \div Scale

UsdToQuoteRaw(usd, p, m) == Ceil(usd * Unit * p.d * Scale, p.n * m)

\* USD of a raw amount, n / d.
QuoteRawToUsd(num, den, seen) ==
    LET p == JupiterPrice(seen.of) IN [n |-> num * seen.multiplier * p.n, d |-> den * Unit * Scale * p.d]

\* Mutant: the floor is shown at the multiplier in force.
LaunchFloorUsdFresh(seen) == QuoteRawToUsd(seen.vault, seen.supply, [seen EXCEPT !.multiplier = InForce])
LaunchFloorUsd(seen) == QuoteRawToUsd(seen.vault, seen.supply, seen)
BuyAveragePriceUsd(buy, seen) == QuoteRawToUsd(buy.paid, buy.tokens, seen)

\* 1 - floor / price, clamped at 0.
MaxLossFraction(p, floor) ==
    IF p.n * floor.d <= floor.n * p.d THEN [n |-> 0, d |-> 1]
    ELSE [n |-> p.n * floor.d - floor.n * p.d, d |-> p.n * floor.d]

Typed(ui, max) == [is |-> "amount", ui |-> ui, max |-> max]
NoAmount == Typed(0, {})

Init ==
    /\ now = 0
    /\ \E m \in Multipliers :
          /\ config = [multiplier |-> m, newMultiplier |-> m, at |-> 0]
          /\ price = [of |-> m, at |-> 0]
          /\ page = [vault |-> 5, supply |-> 3, multiplier |-> m, of |-> m]
    /\ vault = 5 /\ supply = 3
    /\ balance = 3
    /\ form = NoAmount

-----------------------------------------------------------------------------
(* The clock, the issuer and other holders.                                *)

Tick == now < MaxTime /\ now' = now + 1 /\ UNCHANGED <<config, price, vault, supply, page, balance, form>>

\* The issuer announces a multiplier for a later time, or for now.
UpdateMultiplier ==
    /\ config.at <= now
    /\ \E m \in Multipliers \ {InForce}, at \in now..MaxTime :
          config' = [multiplier |-> InForce, newMultiplier |-> m, at |-> at]
    /\ UNCHANGED <<now, price, vault, supply, page, balance, form>>

\* Fees are harvested into the vault; somebody redeems a token.
Harvest == vault < 6 /\ vault' = vault + 1 /\ UNCHANGED <<now, config, price, supply, page, balance, form>>
RedeemOne ==
    LET gross == ProRataFloor(vault, 1, supply) IN
    /\ supply > 2
    /\ vault' = vault - (gross - FeeCeil(gross, ExitFee)) /\ supply' = supply - 1
    /\ UNCHANGED <<now, config, price, page, balance, form>>

-----------------------------------------------------------------------------
(* The page.                                                               *)

\* The multiplier is read on chain; the price may be as old as its cache, or older when
\* Jupiter does not answer.
GetQuoteMarkets ==
    /\ \/ now - price.at < Ttl /\ UNCHANGED price
       \/ now - price.at >= Ttl /\ price' \in {price, [of |-> InForce, at |-> now]}
    /\ page' = [vault |-> vault, supply |-> supply, multiplier |-> InForce, of |-> price'.of]
    /\ UNCHANGED <<now, config, vault, supply, balance, form>>

Type ==
    /\ form.is = "amount"
    /\ \E ui \in 1..FormatTokenAmount(balance, page.multiplier) : form' = Typed(ui, {})
    /\ UNCHANGED <<now, config, price, vault, supply, page, balance>>

Max ==
    /\ form.is = "amount" /\ balance > 0
    /\ form' = Typed(FormatTokenAmount(balance, page.multiplier), {page.multiplier})
    /\ UNCHANGED <<now, config, price, vault, supply, page, balance>>

AmountRaw == UiToRaw(form.ui, page.multiplier)
InputError == AmountRaw > balance

\* A first buy, or a payment for tokens.
Pay ==
    /\ form.is = "amount" /\ AmountRaw > 0 /\ ~InputError
    /\ balance' = balance - AmountRaw /\ form' = NoAmount
    /\ UNCHANGED <<now, config, price, vault, supply, page>>

\* The label above the buy button.
BuyRisk(buy) == MaxLossFraction(BuyAveragePriceUsd(buy, page), LaunchFloorUsd(page))

Buy ==
    /\ form.is = "amount"
    /\ \E buy \in Bought :
          /\ buy.tokens <= supply
          /\ form' = [is |-> "tokens", paid |-> buy.paid, tokens |-> buy.tokens, loss |-> BuyRisk(buy)]
    /\ UNCHANGED <<now, config, price, vault, supply, page, balance>>

\* Mutant: the threshold is rounded to the nearest raw unit.
ThresholdNearest(p, m) == (2 * Asked * Unit * p.d * Scale + p.n * m) \div (2 * p.n * m)
\* The price is the form's, "the on-chain multiplier at the cluster clock is authoritative".
Threshold(p, m) == UsdToQuoteRaw(Asked, p, m)

PrepareLaunch ==
    /\ form.is = "amount"
    /\ form' = [is |-> "launch", raw |-> Threshold(JupiterPrice(page.of), InForce), of |-> page.of, multiplier |-> InForce]
    /\ UNCHANGED <<now, config, price, vault, supply, page, balance>>

Done == form.is = "launch" /\ form' = NoAmount /\ UNCHANGED <<now, config, price, vault, supply, page, balance>>

Next ==
    \/ Tick \/ UpdateMultiplier \/ Harvest \/ RedeemOne
    \/ GetQuoteMarkets \/ Type \/ Max \/ Pay \/ Buy \/ PrepareLaunch \/ Done

Spec == Init /\ [][Next]_vars

-----------------------------------------------------------------------------

\* Types of the amounts.
TypeOK ==
    /\ now \in 0..MaxTime /\ vault \in Nat /\ supply \in Nat \ {0} /\ balance \in Nat
    /\ config.multiplier \in Multipliers /\ config.newMultiplier \in Multipliers

\* Max, and whatever was typed up to the balance that is shown, is not refused as more than
\* the balance while the page stays at its multiplier, and Max leaves less than the last
\* digit shown and a raw unit.
MaxIsHeld ==
    /\ form.is = "amount" /\ form.max = {page.multiplier} =>
          ~InputError /\ (balance - AmountRaw - 1) * page.multiplier < Scale
    /\ \A m \in Multipliers : UiToRaw(FormatTokenAmount(balance, m), m) <= balance

\* "Rounded up so the threshold is worth at least thresholdUsd" (presets.ts:333-337), and no
\* raw unit more, whenever the multiplier that the price was read under is still in force.
\* A switch between the two makes the launch as much too large or small as the switch.
ThresholdAsked ==
    form.is = "launch" /\ form.of = form.multiplier =>
        /\ form.raw * Worth >= Asked * Unit
        /\ (form.raw - 1) * Worth < Asked * Unit

\* "Max loss if you buy now" stays true for whoever bought: whatever the multiplier, the
\* price and the poll it was computed from, and whatever is redeemed or harvested
\* afterwards, all that comes on top of it is the exit fee and a raw unit.
LossBound ==
    form.is = "tokens" /\ form.tokens <= supply =>
        LET gross == ProRataFloor(vault, form.tokens, supply)
        IN  (form.paid - gross - 1) * form.loss.d <= form.loss.n * form.paid

=============================================================================
