---------------------------- MODULE ChartSeries ----------------------------
(***************************************************************************)
(* From the trades of a launch to the price chart: chainBody's anchors     *)
(* (chart/history.ts), the series helpers (chart/series.ts) and what       *)
(* PriceChartCard makes of them.  The server reads the launch first and    *)
(* its trades later; how the trades are collected is PoolHistory.          *)
(***************************************************************************)
EXTENDS Integers, Sequences, SequencesExt, FiniteSetsExt

CONSTANTS
    Prices,          \* after a trade; a launch starts at the least
    Interval,        \* seconds of a candle
    MaxCandles,      \* MAX_CANDLES
    Offsets,         \* seconds between UTC and the viewer's wall clock
    MaxTrades,       \* bound
    MaxTime          \* bound of the clock

VARIABLES
    now,        \* the cluster's clock, in seconds; the launch was created at 0
    trades,     \* the trades of the launch, oldest first
    reading,    \* the request in progress: what was read of the launch
    body        \* the answer the page has just received; none depends on an earlier one

vars == <<now, trades, reading, body>>

Trade(t, price) == [t |-> t, price |-> price, volume |-> 1, anchor |-> FALSE]
Anchor(t, price) == [t |-> t, price |-> price, volume |-> 0, anchor |-> TRUE]
StartPrice == Min(Prices)
CurrentPrice == IF trades = <<>> THEN StartPrice ELSE Last(trades).price

-----------------------------------------------------------------------------
(* The series helpers.                                                     *)

\* Mutant: the price of now is always the last point.
NowAlways(points, current) == points = <<>> \/ TRUE
\* A trade may be newer than the price that was read before it.
NowIsLater(points, current) == points = <<>> \/ current.t > Last(points).t

WithAnchors(points, start, current) ==
    LET begun == IF start # {} /\ (points = <<>> \/ 0 < points[1].t)
                 THEN <<Anchor(0, StartPrice)>> \o points ELSE points
    IN  IF NowIsLater(begun, current) THEN Append(begun, Anchor(current.t, current.price)) ELSE begun

\* One point per second: the last price wins, volumes add up.
Merged(prev, p) == [p EXCEPT !.volume = prev.volume + p.volume, !.anchor = prev.anchor /\ p.anchor]
DedupePerSecond(points) ==
    FoldLeft(LAMBDA out, p : IF out = <<>> \/ p.t > Last(out).t THEN Append(out, p)
                             ELSE IF Last(out).t = p.t THEN [out EXCEPT ![Len(out)] = Merged(@, p)]
                             ELSE out,
             <<>>, points)

BucketOf(t) == (t \div Interval) * Interval

\* Mutant: what is older than the first candle is forgotten.
CarriedNone(points, start) == points[1].price
\* The price with which the first candle opens.
Carried(points, start) ==
    LET older == {i \in DOMAIN points : points[i].t < start} IN points[IF older = {} THEN 1 ELSE Max(older)].price

\* Each candle opens at the previous close; empty buckets are flat; the newest are kept.
BucketCandles(points, until) ==
    LET lastTime == Max({BucketOf(until), BucketOf(Last(points).t)})
        start == Max({BucketOf(points[1].t), lastTime - (MaxCandles - 1) * Interval})
        Candle(open, time) ==
            LET in == SelectSeq(points, LAMBDA p : p.t >= time /\ p.t < time + Interval)
                prices == {open} \cup {in[i].price : i \in DOMAIN in}
            IN  [time |-> time, open |-> open, high |-> Max(prices), low |-> Min(prices),
                 close |-> IF in = <<>> THEN open ELSE Last(in).price,
                 volume |-> FoldLeft(LAMBDA sum, p : sum + p.volume, 0, in)]
        times == [k \in 1..((lastTime - start) \div Interval + 1) |-> start + (k - 1) * Interval]
    IN  FoldLeft(LAMBDA out, time : Append(out, Candle(IF out = <<>> THEN Carried(points, start) ELSE Last(out).close, time)),
                 <<>>, times)

-----------------------------------------------------------------------------

Init == now = 0 /\ trades = <<>> /\ reading = {} /\ body = {}

Tick == now < MaxTime /\ now' = now + 1 /\ body' = {} /\ UNCHANGED <<trades, reading>>

Swap ==
    /\ Len(trades) < MaxTrades
    /\ \E price \in Prices : trades' = Append(trades, Trade(now, price))
    /\ body' = {}
    /\ UNCHANGED <<now, reading>>

\* The time is taken after the launch was read.
ReadLaunch ==
    /\ reading = {}
    /\ reading' = {[price |-> CurrentPrice, known |-> Len(trades), t |-> -1]}
    /\ body' = {}
    /\ UNCHANGED <<now, trades>>
TakeTime ==
    /\ \E r \in reading : r.t = -1 /\ reading' = {[r EXCEPT !.t = now]}
    /\ UNCHANGED <<now, trades, body>>

Picked(read) == FoldLeftDomain(LAMBDA out, i : IF i \in read THEN Append(out, trades[i]) ELSE out, <<>>, trades)

\* A history that is capped, or that waits for a transaction, misses some of its trades;
\* those up to curve were made before the migration, and only they decide on the start.
ReadHistory ==
    /\ \E r \in reading, read \in SUBSET DOMAIN trades, curve \in 0..Len(trades) :
          /\ r.t >= 0
          /\ body' = {[points |-> WithAnchors(Picked(read), IF 1..curve \subseteq read THEN {"start"} ELSE {}, r),
                       until |-> r.t, partial |-> read # DOMAIN trades, read |-> read,
                       current |-> r.price, known |-> r.known]}
    /\ reading' = {}
    /\ UNCHANGED <<now, trades>>

HistoryFails ==
    /\ \E r \in reading :
          /\ r.t >= 0
          /\ body' = {[points |-> <<Anchor(Min({0, r.t - 1}), r.price), Anchor(r.t, r.price)>>,
                       until |-> r.t, partial |-> TRUE, read |-> {}, current |-> r.price, known |-> r.known]}
    /\ reading' = {}
    /\ UNCHANGED <<now, trades>>

Next == Tick \/ Swap \/ ReadLaunch \/ TakeTime \/ ReadHistory \/ HistoryFails

Spec == Init /\ [][Next]_vars

-----------------------------------------------------------------------------
(* The card draws the points on the viewer's clock.                        *)

Local(points, offset) == [i \in DOMAIN points |-> [points[i] EXCEPT !.t = @ + offset]]
Line(b, offset) == DedupePerSecond(Local(b.points, offset))
Candles(b, offset) == BucketCandles(Line(b, offset), b.until + offset)
TradeCount(points) == Len(SelectSeq(points, LAMBDA p : ~p.anchor))

Volume(points) == FoldLeft(LAMBDA sum, p : sum + p.volume, 0, points)
Read(b) == Picked(b.read)

\* Types of the body.
TypeOK == now \in 0..MaxTime /\ \A b \in body : b.points # <<>> /\ b.until \in 0..MaxTime

\* "The chart needs strictly increasing times": whatever landed within a second or between
\* the two reads, the line is in order, draws the volume of every trade that was read, and
\* each second at the price after its last trade.
LineHolds ==
    \A b \in body :
        LET line == Line(b, 0) IN
        /\ \A i \in 1..(Len(line) - 1) : line[i].t < line[i + 1].t
        /\ Volume(line) = Len(Read(b)) /\ TradeCount(b.points) = Len(Read(b))
        /\ \A i \in DOMAIN Read(b) :
              (i < Len(Read(b)) => Read(b)[i + 1].t > Read(b)[i].t) =>
                  \E p \in Range(line) : p.t = Read(b)[i].t /\ p.price = Read(b)[i].price

\* The line ends at the newest price, unless a trade landed while the chart was read or the
\* newest one was not read (a chart read in the second of the launch aside), and
\* the change "since launch" of a chart that is not partial counts from the start price
\* (a trade in the second of the launch excepted).
EndsHold ==
    \A b \in body :
        /\ b.known = Len(trades) /\ (trades # <<>> => Len(trades) \in b.read) /\ b.until > 0 => Last(Line(b, 0)).price = b.current
        /\ b.until > 0 => Last(Line(b, 0)).price \in {b.current} \cup {p.price : p \in Range(Read(b))}
        /\ ~b.partial /\ (trades # <<>> => trades[1].t > 0) => Head(Line(b, 0)).price = StartPrice

\* Candles follow one another without a gap up to now, open where the last one closed, end
\* at the last price, and no trade of the time they cover lies outside of its candle.
CandlesHold ==
    \A b \in body, offset \in Offsets :
        LET line == Line(b, offset)
            candles == Candles(b, offset)
        IN
        /\ Len(candles) \in 1..MaxCandles /\ Last(candles).close = Last(line).price
        /\ Last(candles).time + Interval > b.until + offset
        /\ \A k \in 1..(Len(candles) - 1) :
              candles[k + 1].time = candles[k].time + Interval /\ candles[k + 1].open = candles[k].close
        /\ \A p \in Range(line) : p.t >= candles[1].time =>
              \E c \in Range(candles) :
                  c.time <= p.t /\ p.t < c.time + Interval /\ c.low <= p.price /\ p.price <= c.high
        /\ \A p \in Range(line) : p.t < candles[1].time =>
              Len(candles) = MaxCandles
              /\ ((\A q \in Range(line) : q.t < candles[1].time => q.t <= p.t) => candles[1].open = p.price)
        /\ FoldLeft(LAMBDA sum, c : sum + c.volume, 0, candles)
             = Volume(SelectSeq(line, LAMBDA p : p.t >= candles[1].time))

=============================================================================
