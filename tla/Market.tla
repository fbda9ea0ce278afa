------------------------------- MODULE Market -------------------------------
(***************************************************************************)
(* M1, the deterministic features of a symbol (src/backend/app/market:     *)
(* indicators.py, state.py, models.py), as operators over the bars and the *)
(* snapshot a gateway returned.                                            *)
(*                                                                         *)
(* Prices are cents and volumes hundreds of shares, so that a price times  *)
(* a volume is dollars; means and ratios (thousandths) are rounded down.   *)
(* The standard deviation of logarithms is a parameter, and features that  *)
(* no score reads (exponential averages, drawdown, average true range) are *)
(* left out.                                                               *)
(***************************************************************************)
EXTENDS Integers, SequencesExt

CONSTANTS
    None,                    \* Python's None
    RealizedVolatility(_)    \* of a sequence of closes: thousandths, or None

ASSUME NoneAssumption == None \notin Int /\ None \notin STRING

ShortPeriod == 20
LongPeriod == 50
RsiPeriod == 14

Thousandths(a, b) == (1000 * a) \div b
Total(values) == SumFunction(values)
Latest(values, n) == SubSeq(values, Len(values) - n + 1, Len(values))

---------------------------------------------------------------------------
(* Bars: [time, open, high, low, close, volume]. *)

(* Of the bars of one moment the first is kept. *)
Unique(bars) ==
  LET firsts == {i \in DOMAIN bars : \A j \in 1..(i - 1) : bars[j].time # bars[i].time}
      place(i) == Cardinality({j \in firsts : j <= i})
  IN [k \in 1..Cardinality(firsts) |-> bars[CHOOSE i \in firsts : place(i) = k]]

ValidOhlc(b) ==
  /\ b.high >= b.open /\ b.high >= b.close
  /\ b.low <= b.open /\ b.low <= b.close

(* The status of what was received, when enough bars are needed. *)
QualityStatus(bars, enough) ==
  LET kept == Unique(bars)
      invalid == Cardinality({i \in DOMAIN kept : ~ValidOhlc(kept[i])})
  IN CASE 10 * invalid > Len(kept) -> "DEGRADED"
       [] 10 * invalid <= Len(kept) /\ Len(kept) < enough -> "INSUFFICIENT"
       [] OTHER -> IF invalid > 0 \/ Len(kept) < Len(bars) THEN "DEGRADED" ELSE "GOOD"

Closes(bars) == [i \in DOMAIN bars |-> bars[i].close]
Volumes(bars) == [i \in DOMAIN bars |-> bars[i].volume]

(* The last trade, the midpoint of a valid quote, or the last close. *)
ValidQuote(q) == q # None /\ q.ask >= q.bid /\ q.bid > 0
CurrentPrice(snapshot, bars) ==
  CASE snapshot.trade # None -> snapshot.trade
    [] snapshot.trade = None /\ ValidQuote(snapshot.quote) ->
         (snapshot.quote.bid + snapshot.quote.ask) \div 2
    [] OTHER -> bars[Len(bars)].close

---------------------------------------------------------------------------
(* Indicators, None where there is too little to compute them from. *)

Return(prices, n) ==
  LET last == Len(prices)
  IN IF last < n + 1 \/ prices[last - n] = 0 THEN None
     ELSE Thousandths(prices[last] - prices[last - n], prices[last - n])

Sma(values, n) == IF Len(values) < n THEN None ELSE Total(Latest(values, n)) \div n

Distance(price, average) ==
  IF average \in {None, 0} THEN None ELSE Thousandths(price - average, average)

Deltas(prices) == [i \in 1..(Len(prices) - 1) |-> prices[i + 1] - prices[i]]
Gain(delta) == IF delta > 0 THEN delta ELSE 0
Loss(delta) == IF delta < 0 THEN -delta ELSE 0

Strength(gains, losses) == IF losses = 0 THEN 1000 ELSE Thousandths(gains, gains + losses)

(* Of the first RsiPeriod changes of the series; the later ones are not    *)
(* smoothed in.                                                            *)
Rsi(prices) ==
  IF Len(prices) < RsiPeriod + 1 THEN None
  ELSE LET first == SubSeq(Deltas(prices), 1, RsiPeriod)
       IN Strength(Total([i \in DOMAIN first |-> Gain(first[i])]),
                   Total([i \in DOMAIN first |-> Loss(first[i])]))

Ratio(volume, average) ==
  IF average \in {None, 0} THEN None ELSE Thousandths(volume, average)

(* volume_zscore against 2 and -2: the square of the distance from the     *)
(* mean against four times the variance.                                   *)
Surprise(volumes) ==
  LET window == Latest(volumes, ShortPeriod)
      n == ShortPeriod
      mean == Total(window) \div n
      squares == Total([i \in DOMAIN window |-> (window[i] - mean) * (window[i] - mean)])
      off == volumes[Len(volumes)] - mean
      far == (n - 1) * off * off >= 4 * squares
  IN IF Len(volumes) < n \/ squares = 0 THEN None
     ELSE IF ~far THEN "USUAL" ELSE IF off > 0 THEN "HIGH" ELSE "LOW"

Trend(price, short, long, fromShort, fromLong) ==
  CASE None \in {short, long, fromShort, fromLong} -> "UNKNOWN"
    [] None \notin {short, long, fromShort, fromLong} /\ price > short /\ short > long ->
         IF fromShort > 20 /\ fromLong > 20 THEN "STRONG_UP" ELSE "UP"
    [] None \notin {short, long, fromShort, fromLong} /\ price < short /\ short < long ->
         IF fromShort < -20 /\ fromLong < -20 THEN "STRONG_DOWN" ELSE "DOWN"
    [] OTHER -> "NEUTRAL"

(* What the screening computes of its bars. *)
Features(bars, snapshot) ==
  LET closes == Closes(bars)
      price == CurrentPrice(snapshot, bars)
      short == Sma(closes, ShortPeriod)
      long == Sma(closes, LongPeriod)
      volume == bars[Len(bars)].volume
      average == Sma(Volumes(bars), ShortPeriod)
      fromShort == Distance(price, short)
      fromLong == Distance(price, long)
  IN [price |-> price, day |-> Return(closes, 1), week |-> Return(closes, 5),
      month |-> Return(closes, 20), fromShort |-> fromShort, fromLong |-> fromLong,
      rsi |-> Rsi(closes), volatility |-> RealizedVolatility(closes),
      volume |-> volume, average |-> average, ratio |-> Ratio(volume, average),
      surprise |-> Surprise(Volumes(bars)),
      trendShort |-> Trend(price, short, long, fromShort, fromLong),
      trendMedium |-> Trend(price, long, short, fromLong, fromShort),
      dollars |-> IF average = None \/ price = 0 THEN None ELSE average * price]

(* MarketStateBuilder.build, which raises without LongPeriod bars; what is *)
(* missing of a snapshot is no failure.                                    *)
Builds(answer) == answer.bars # None /\ Len(Unique(answer.bars)) >= LongPeriod /\ answer.snapshot # None
=============================================================================
