----------------------------- MODULE MCCouncil -----------------------------
(* Instances of Council for TLC: a curated universe of two shares and two  *)
(* funds, an Alpaca one of a share and three funds, and a gateway that     *)
(* answers in one of a few ways for each, with daily bars around a price   *)
(* of a hundred dollars and a volume of a hundred thousand shares.         *)
EXTENDS Council

Bar(t, close, volume) ==
  [time |-> t, open |-> close, high |-> close + 10, low |-> close - 10, close |-> close, volume |-> volume]
Series(n, Close(_), Volume(_)) == [t \in 1..n |-> Bar(t, Close(t), Volume(t))]

Usual(t) == IF t % 2 = 0 THEN 900 ELSE 1100
Calm(t) == 10000 + (IF t % 2 = 0 THEN 40 ELSE 0)
Rally(t) == 8000 + 30 * t + (IF t > 55 THEN 200 * (t - 55) ELSE 0)
Slide(t) == 12000 - 25 * t
Dip(t) == 7000 + 40 * t - (IF t > 96 THEN 50 * (t - 96) ELSE 0)
Crest(t) == IF t <= 25 THEN 9000 + 60 * t ELSE 10500 - 50 * (t - 25)
Jump(t) == IF t <= 57 THEN 6000 ELSE 60000
Crash(t) == 10000 + (IF t % 2 = 0 THEN 40 ELSE 0) - (IF t > 50 THEN 300 * (t - 50) ELSE 0)
Thin(t) == 10
Burst(t) == IF t = 60 THEN 4000 ELSE Usual(t)
Dry(t) == IF t = 60 THEN 100 ELSE Usual(t)

Quiet == [trade |-> None, quote |-> None]
Answered(bars) == [bars |-> bars, snapshot |-> Quiet, error |-> None]

(* Strong, weak and middling symbols, and one answer for each way that a   *)
(* symbol is rejected.                                                     *)
MCHeard ==
  [rally |-> [Answered(Series(60, Rally, Burst)) EXCEPT !.snapshot.quote = [bid |-> 10790, ask |-> 10810]],
   slide |-> Answered(Series(60, Slide, Usual)),
   dip |-> [Answered(Series(100, Dip, Usual)) EXCEPT !.snapshot.trade = 10400],
   jump |-> Answered(Series(60, Jump, Usual)),
   crash |-> Answered(Series(60, Crash, Dry)),
   thin |-> Answered(Series(60, Calm, Thin)),
   short |-> Answered(Series(30, Calm, Usual)),
   double |-> Answered(Append(Series(60, Crest, Usual), Bar(60, 8700, 900))),
   lost |-> [bars |-> None, snapshot |-> None, error |-> "PROVIDER_ERROR"]]

(* Too few bars, and bars without a snapshot. *)
Few == Answered(Series(10, Calm, Usual))
Half == [Answered(Series(60, Calm, Usual)) EXCEPT !.snapshot = None, !.error = "INVALID_DATA"]

(* The answers tell the rejections apart, and the weights are in balance. *)
ASSUME MCAssumption ==
  /\ MomentumIsOutweighed
  /\ {Opportunity[n].rejection : n \in Names} =
       {None, "PRICE_TOO_LOW", "LOW_LIQUIDITY", "INSUFFICIENT_HISTORY", "DATA_QUALITY_DEGRADED"}
  /\ Cardinality({n \in Names : Viable(n)}) >= 4 /\ Buildable = Names \ {"short", "lost"}
  /\ Rejection(Screened(Few)) = "INSUFFICIENT_HISTORY" /\ Rejection(Screened(Half)) = "PRICE_TOO_LOW"
  /\ ~Builds(Few) /\ ~Builds(Half)

MCSymbols == <<3, 1, 4, 2>>
MCETFs == {1, 2, 5}

(* Alpaca's list, or none: with an asset that fails each of the tests. *)
Asset(s) == [symbol |-> s, tradable |-> TRUE, active |-> TRUE, equity |-> TRUE, plain |-> TRUE]
MCListings ==
  { None,
    << Asset(5), [Asset(6) EXCEPT !.tradable = FALSE], Asset(2), [Asset(7) EXCEPT !.plain = FALSE],
       Asset(3), [Asset(8) EXCEPT !.equity = FALSE], Asset(1), [Asset(9) EXCEPT !.active = FALSE] >> }
MCWeights ==
  [n \in Signals |-> CASE n \in {"momentum", "trend"} -> 20
                       [] n \in {"volume", "volatility"} -> 15
                       [] OTHER -> 10]
MCLog10(dollars) == IF dollars >= 10000000 THEN 7000 ELSE IF dollars >= 7000000 THEN 6850 ELSE 6700
MCVolatility(closes) ==
  IF Len(closes) < 21 THEN None
  ELSE CASE closes[Len(closes)] \notin 8000..50000 -> 900
         [] closes[Len(closes)] \in 10500..50000 -> 300
         [] OTHER -> 120
MCRequests == [demo : {TRUE}, max : {-1, 0, 3, 10}] \cup [demo : {FALSE}, max : {10}]
=============================================================================
