----------------------------- MODULE TokenPage -----------------------------
(***************************************************************************)
(* The token page: the panel that trades and the panel that redeems, drawn *)
(* from the copy of the chain that was polled last (components/token,      *)
(* tradeQuote.ts, metrics.ts), and the calls of ChainLaunchActions.trade   *)
(* and redeem, which read the chain again before they sign.  When the page *)
(* learns that the launch graduated, other panels take the place of the    *)
(* old one, whose call goes on.                                            *)
(***************************************************************************)
EXTENDS Sequences, FiniteSetsExt, FloorMath

CONSTANTS
    Rates,      \* base paid for a unit of the quote asset: what moves the price
    Routing,    \* Jupiter may be used: the cluster is mainnet
    MaxEvents   \* bound: buttons pressed and moves of others on chain

VARIABLES
    chain,    \* the launch on chain
    purse,    \* what the wallet holds
    page,     \* the launch as last polled
    pending,  \* the pending flags of the two panels
    presses,  \* the calls made so far
    moves     \* how often others acted

vars == <<chain, purse, page, pending, presses, moves>>

Phases == {"presale", "graduating", "graduated", "redeemable"}
ExitFeeBps == 200
\* A coarser slippage than the 1% of DEFAULT_SLIPPAGE_BPS, for small amounts.
MinOut(out) == (3 * out) \div 4

Buys == {2}
Sells == {40}
Supply == 80

\* What a wallet with all of Sells can find; left is what the curve still takes.
Init ==
    /\ \E phase \in {"presale", "graduated", "redeemable"} :
          chain = [phase |-> phase, paused |-> FALSE, rate |-> Max(Rates), left |-> 2,
                   vault |-> IF phase = "redeemable" THEN 9 ELSE 1, supply |-> Supply]
    /\ purse = [base |-> 40, quote |-> 2, usdc |-> 2]
    /\ page = chain
    /\ pending = [trade |-> FALSE, redeem |-> FALSE]
    /\ presses = <<>>
    /\ moves = 0

-----------------------------------------------------------------------------
(* Quotes, by the page and again by the call.                              *)

\* No quote, or an error in its place.
NoQuote == [venue |-> "none", in |-> 0, out |-> 0, partial |-> FALSE]

\* A buy that would cross the end of the curve takes only what is left.
QuoteTrade(state, side, amount) ==
    CASE state.phase = "presale" /\ side = "buy" ->
            LET in == SmallerOf(amount, state.left)
            IN  [venue |-> "dbc", in |-> in, out |-> in * state.rate, partial |-> amount > state.left]
      [] state.phase = "presale" /\ side = "sell" ->
            [venue |-> "dbc", in |-> amount, out |-> amount \div state.rate, partial |-> FALSE]
      [] state.phase = "graduating" -> NoQuote
      [] OTHER ->
            [venue |-> "damm", in |-> amount, partial |-> FALSE,
             out |-> IF side = "buy" THEN amount * state.rate ELSE amount \div state.rate]

\* What the page tells the call that it has shown: the venue and the least it pays.
Expected(quote) == [venue |-> quote.venue, min |-> MinOut(quote.out)]
Nothing == Expected(NoQuote)

RedeemOpen(state) == state.phase = "redeemable"

\* Mutant: the exit fee is forgotten.
PreviewRedeemGross(state, amount) == Gross(state.vault, state.supply, amount)
PreviewRedeem(state, amount) == Net(state.vault, state.supply, amount, ExitFeeBps)

-----------------------------------------------------------------------------
(* The page.                                                               *)

View(launch) == IF launch.phase \in {"graduated", "redeemable"} THEN "market" ELSE "presale"

\* The launch is read again, by the poll or after a call; other panels begin afresh.
Poll ==
    /\ page # chain /\ page' = chain
    /\ pending' = IF View(page) = View(page') THEN pending ELSE [p \in DOMAIN pending |-> FALSE]
    /\ UNCHANGED <<chain, purse, presses, moves>>

PayTokens == {"quote"} \cup IF Routing THEN {"usdc"} ELSE {}

\* What the forms take: a sale on the curve pays the quote asset.  A balance that the
\* page has not read yet bounds no amount.
PresaleForm == [side : {"buy"}, pay : PayTokens, amount : Buys] \cup [side : {"sell"}, pay : {"quote"}, amount : Sells]
MarketForm == [side : {"buy"}, pay : PayTokens, amount : Buys] \cup [side : {"sell"}, pay : PayTokens, amount : Sells]

\* Only a trade that pays or is paid in the quote asset has an exact quote.
Shown(entry) ==
    IF entry.pay = "quote" THEN Expected(QuoteTrade(page, entry.side, entry.amount)) ELSE Nothing

Unread == [phase |-> "none"]
Call(kind, entry, shown) ==
    [kind |-> kind, view |-> View(page), side |-> entry.side, pay |-> entry.pay, amount |-> entry.amount,
     shown |-> shown, pc |-> "begin", state |-> Unread, before |-> Unread, quote |-> NoQuote, min |-> 0,
     spent |-> 0, received |-> 0, alone |-> TRUE]
\* Nothing is kept of a call that is over.
Over == [Call("none", [side |-> "none", pay |-> "none", amount |-> 0], Nothing) EXCEPT !.view = "none", !.pc = "over"]

Submit(panel, call) ==
    /\ ~pending[panel] /\ Len(presses) + moves < MaxEvents
    /\ pending' = [pending EXCEPT ![panel] = TRUE]
    /\ presses' = Append(presses, call)
    /\ UNCHANGED <<chain, purse, page, moves>>

\* The curve's panel is open while the curve is.
PresalePress ==
    /\ page.phase = "presale" /\ ~page.paused
    /\ \E entry \in PresaleForm : Submit("trade", Call("trade", entry, Shown(entry)))

MarketPress ==
    /\ View(page) = "market" /\ ~page.paused
    /\ \E entry \in MarketForm : Submit("trade", Call("trade", entry, Shown(entry)))

\* RedeemPanel: what is shown is what the redemption would pay now.
RedeemPress ==
    /\ View(page) = "market" /\ RedeemOpen(page) /\ ~page.paused
    /\ \E amount \in Sells :
          /\ amount <= page.supply
          /\ PreviewRedeem(page, amount) > 0
          /\ Submit("redeem", Call("redeem", [side |-> "sell", pay |-> "quote", amount |-> amount],
                                   [venue |-> "vault", min |-> PreviewRedeem(page, amount)]))

\* Editing the amount to redeem takes the run for over.
RedeemEdit ==
    /\ pending.redeem /\ pending' = [pending EXCEPT !.redeem = FALSE]
    /\ UNCHANGED <<chain, purse, page, presses, moves>>

-----------------------------------------------------------------------------
(* A call, number k.                                                       *)

Goes(k, call) == presses' = [presses EXCEPT ![k] = call] /\ UNCHANGED pending
Returns(k, call) ==
    /\ presses' = [presses EXCEPT ![k] = Over]
    /\ pending' = IF call.view = View(page) THEN [pending EXCEPT ![call.kind] = FALSE] ELSE pending

\* Before anything is read: the wallet, the cluster, the amount, lamports.
Fails(k) ==
    /\ presses[k].pc \in {"begin", "build"} /\ Returns(k, presses[k])
    /\ UNCHANGED <<chain, purse, page, moves>>

\* The chain is read again.
BeginTrade(k) ==
    /\ presses[k].pc = "begin" /\ presses[k].kind = "trade"
    /\ IF chain.paused \/ chain.phase = "graduating" THEN Returns(k, presses[k])
       ELSE Goes(k, [presses[k] EXCEPT !.state = chain,
                                       !.pc = IF presses[k].pay = "quote" THEN "build" ELSE "route"])
    /\ UNCHANGED <<chain, purse, page, moves>>
BeginRedeem(k) ==
    /\ presses[k].pc = "begin" /\ presses[k].kind = "redeem"
    /\ Goes(k, [presses[k] EXCEPT !.state = chain, !.pc = "build"])
    /\ UNCHANGED <<chain, purse, page, moves>>

\* Moving what the wallet holds; a call in flight beside this one is not alone any more.
Moves(k, from, in, to, out, call) ==
    /\ purse' = [purse EXCEPT ![from] = @ - in, ![to] = @ + out]
    /\ presses' = [j \in DOMAIN presses |->
          IF j = k THEN call
          ELSE IF presses[j].pc \in {"send", "after"} THEN [presses[j] EXCEPT !.alone = FALSE] ELSE presses[j]]

\* An order names the least it will pay; the result of its execution may not say what it paid.
GetUltraOrder(out) == [outAmount |-> out, otherAmountThreshold |-> MinOut(out)]
ExecuteUltraOrder(order) == {[status |-> "Success", told |-> told] : told \in {{order.outAmount}, {}}}
UltraSwap(out) ==
    LET order == GetUltraOrder(out)
    IN  {IF result.told = {} THEN order.otherAmountThreshold ELSE out : result \in ExecuteUltraOrder(order)}

\* Through Jupiter: all of the trade, or the quote asset for a buy on the curve.
Route(k) ==
    LET call == presses[k]
        curve == call.state.phase = "presale"
        from == IF call.side = "buy" THEN "usdc" ELSE "base"
        to == IF call.side = "sell" THEN "usdc" ELSE IF curve THEN "quote" ELSE "base"
        out == CASE to = "quote" -> call.amount
                 [] to = "base" -> call.amount * chain.rate
                 [] OTHER -> call.amount \div chain.rate
    IN
    /\ call.pc = "route"
    /\ \/ UNCHANGED purse /\ Returns(k, call)
       \/ /\ purse[from] >= call.amount
          /\ \E told \in UltraSwap(out) :
                Moves(k, from, call.amount, to, out,
                      IF curve THEN [call EXCEPT !.pc = "again", !.amount = told] ELSE [call EXCEPT !.pc = "return"])
          /\ UNCHANGED pending
    /\ UNCHANGED <<chain, page, moves>>

\* The chain is read again for the second leg, which no quote was shown for.
Again(k) ==
    /\ presses[k].pc = "again"
    /\ Goes(k, [presses[k] EXCEPT !.pc = "build", !.state = chain])
    /\ UNCHANGED <<chain, purse, page, moves>>

\* Mutant: slippage is taken from the fresh quote alone.
SignedMinFresh(quote, shown) == MinOut(quote.out)
\* The minimum that is signed: the one of the fresh quote, or the higher one shown.
SignedMin(quote, shown) ==
    IF shown.min > MinOut(quote.out) THEN shown.min ELSE MinOut(quote.out)

Holds(call) == IF call.side = "buy" THEN purse.quote ELSE purse.base

\* Balances are read, and the transaction is built from the state read before.
BuildTrade(k) ==
    LET call == [presses[k] EXCEPT !.before = purse]
        quote == QuoteTrade(call.state, call.side, call.amount)
    IN
    /\ call.pc = "build" /\ call.kind = "trade"
    /\ IF \/ call.shown # Nothing /\ call.shown.venue # quote.venue
          \/ Holds(call) < call.amount \/ quote.venue = "none" \/ quote.out < call.shown.min
       THEN Returns(k, call)
       ELSE Goes(k, [call EXCEPT !.pc = "send", !.quote = quote, !.min = SignedMin(quote, call.shown)])
    /\ UNCHANGED <<chain, purse, page, moves>>
BuildRedeem(k) ==
    LET call == [presses[k] EXCEPT !.before = purse] IN
    /\ call.pc = "build" /\ call.kind = "redeem"
    /\ IF \/ Holds(call) < call.amount \/ ~RedeemOpen(call.state) \/ call.state.paused
          \/ call.amount > call.state.supply
       THEN Returns(k, call)
       ELSE IF PreviewRedeem(call.state, call.amount) = 0 THEN Returns(k, call)
       ELSE Goes(k, [call EXCEPT !.pc = "send", !.quote = [NoQuote EXCEPT !.venue = "vault", !.in = call.amount]])
    /\ UNCHANGED <<chain, purse, page, moves>>

\* What the transaction pays if it is executed now: nothing when it is refused, as a swap
\* below its minimum is, or an exact one across the end of the curve.
Executed(call) ==
    IF call.quote.venue = "vault"
    THEN IF RedeemOpen(chain) /\ Redeemable(chain.vault, chain.supply, call.amount, ExitFeeBps)
         THEN [in |-> call.amount, out |-> Net(chain.vault, chain.supply, call.amount, ExitFeeBps)]
         ELSE NoQuote
    ELSE LET now == QuoteTrade(chain, call.side, call.amount)
         IN  IF now.venue = call.quote.venue /\ (now.partial => call.quote.partial) /\ now.out >= call.min
             THEN now ELSE NoQuote

Send(k) ==
    LET call == presses[k]
        from == IF call.side = "buy" THEN "quote" ELSE "base"
        to == IF call.side = "buy" THEN "base" ELSE "quote"
        done == Executed(call)
    IN
    /\ call.pc = "send"
    /\ \/ Returns(k, call) /\ UNCHANGED <<chain, purse>>
       \/ /\ ~chain.paused /\ done.out > 0 /\ Holds(call) >= done.in
          /\ \E pc \in {"after", "lost"} :
                Moves(k, from, done.in, to, done.out,
                      [call EXCEPT !.pc = pc, !.spent = done.in, !.received = done.out])
          /\ chain' = CASE call.quote.venue = "vault" ->
                              [chain EXCEPT !.vault = @ - done.out, !.supply = @ - call.amount]
                        [] call.quote.venue = "dbc" /\ call.side = "buy" ->
                              [chain EXCEPT !.left = @ - done.in,
                                            !.phase = IF chain.left = done.in THEN "graduating" ELSE @]
                        [] OTHER -> chain
          /\ UNCHANGED pending
    /\ UNCHANGED <<page, moves>>

\* A transaction that landed unconfirmed ends its call; a confirmed one is told by the
\* difference of the balances.
Lost(k) ==
    /\ presses[k].pc = "lost" /\ Returns(k, presses[k])
    /\ UNCHANGED <<chain, purse, page, moves>>
Told(call) == IF call.side = "buy" THEN purse.base - call.before.base ELSE purse.quote - call.before.quote
After(k) ==
    /\ presses[k].pc \in {"after", "return"}
    /\ Returns(k, presses[k])
    /\ UNCHANGED <<chain, purse, page, moves>>

Step(k) ==
    \/ Fails(k) \/ BeginTrade(k) \/ BeginRedeem(k) \/ Route(k) \/ Again(k)
    \/ BuildTrade(k) \/ BuildRedeem(k) \/ Send(k) \/ Lost(k) \/ After(k)

-----------------------------------------------------------------------------
(* Others: traders, the crank, holders who redeem, the issuer.             *)

Trades ==
    \/ \E rate \in Rates \ {chain.rate} : chain' = [chain EXCEPT !.rate = rate]
    \/ /\ chain.phase = "presale" /\ chain.left > 0
       /\ chain' = [chain EXCEPT !.left = @ - 1, !.phase = IF chain.left = 1 THEN "graduating" ELSE @]
Cranks ==
    \/ chain.phase = "graduating" /\ chain' = [chain EXCEPT !.phase = "graduated"]
    \/ chain.phase = "graduated" /\ chain' = [chain EXCEPT !.phase = "redeemable", !.vault = @ + 8]
    \/ chain.phase = "redeemable" /\ chain' = [chain EXCEPT !.vault = @ + 1]
Redeems ==
    LET amount == 20 IN
    /\ RedeemOpen(chain) /\ purse.base + amount <= chain.supply
    /\ chain' = [chain EXCEPT !.supply = @ - amount, !.vault = @ - Net(chain.vault, chain.supply, amount, ExitFeeBps)]
Pauses == chain' = [chain EXCEPT !.paused = ~@]

Others ==
    /\ Len(presses) + moves < MaxEvents /\ moves' = moves + 1
    /\ Trades \/ Cranks \/ Redeems \/ Pauses
    /\ UNCHANGED <<purse, page, pending, presses>>

Next ==
    \/ Poll \/ PresalePress \/ MarketPress \/ RedeemPress \/ RedeemEdit
    \/ \E k \in DOMAIN presses : Step(k)
    \/ Others

\* An open page polls, and calls end.
Fairness ==
    /\ WF_vars(Poll)
    /\ \A k \in 1..MaxEvents : WF_vars(k \in DOMAIN presses /\ Step(k))

Spec == Init /\ [][Next]_vars /\ Fairness

-----------------------------------------------------------------------------

\* Types of the page and of the calls.
TypeOK ==
    /\ chain.phase \in Phases /\ page.phase \in Phases /\ chain.rate \in Rates
    /\ chain.left \in 0..2 /\ chain.vault >= 0 /\ chain.supply >= 0
    /\ purse.base >= 0 /\ purse.quote >= 0 /\ purse.usdc >= 0
    /\ pending \in [trade : BOOLEAN, redeem : BOOLEAN]
    /\ \A k \in DOMAIN presses :
          presses[k].pc \in {"begin", "route", "again", "build", "send", "after", "return", "lost", "over"}

\* "You never receive less than the minimum shown" (PresaleTradePanel.tsx:299), whatever
\* happens between the poll and the transaction; a redemption, which carries no
\* minimum, pays what was previewed, because the floor never falls.
NeverBelowShown ==
    \A k \in DOMAIN presses :
        presses[k].spent > 0 /\ presses[k].shown # Nothing =>
            presses[k].received >= presses[k].shown.min /\ presses[k].spent <= presses[k].amount

\* A redemption that the page offers is open: only a pause, the balance or an error
\* can refuse it.
OfferedIsOpen ==
    \A k \in DOMAIN presses :
        presses[k].kind = "redeem" /\ presses[k].pc # "over" => RedeemOpen(chain)

\* What a call says was received is what its transaction paid, unless another call
\* of the wallet moved the balances meanwhile.
ToldIsReceived ==
    \A k \in DOMAIN presses :
        presses[k].pc = "after" /\ presses[k].alone => Told(presses[k]) = presses[k].received

\* A button that was pressed comes back.
ButtonsComeBack == \A panel \in {"trade", "redeem"} : pending[panel] ~> ~pending[panel]

\* A launch that became redeemable is offered for redemption.
RedeemGetsOffered == chain.phase = "redeemable" ~> RedeemOpen(page)

=============================================================================
