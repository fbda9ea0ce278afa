----------------------------- MODULE Discovery -----------------------------
(***************************************************************************)
(* M2, the discovery of opportunities (src/backend/app/discovery:          *)
(* screening.py, filters.py, signals.py, scoring.py, diversification.py,   *)
(* universe.py and service.py), over the features of Market.               *)
(*                                                                         *)
(* Scores of a signal are tenths of a point, weights hundredths and totals *)
(* hundredths of a point.  Symbols are numbers in the order of their       *)
(* spelling.  What the market gateway answers for a symbol is the name of  *)
(* an answer: [bars, snapshot, error], where a part that raised is None    *)
(* and error says how.  The reasons and the average true range, which only *)
(* explain a score, are left out.                                          *)
(*                                                                         *)
(* Operators named Faulty... are not part of the specification: each is an *)
(* operator of it with a plausible bug, for testing the properties.        *)
(***************************************************************************)
EXTENDS Market

CONSTANTS
    Symbols,             \* CuratedUniverseProvider: the universe, a sequence
    Listings,            \* AlpacaUniverseProvider: what get_all_assets answers
    ETFs,                \* the symbols that are exchange traded funds
    Heard,               \* the answers of the gateway, by name
    Weights,             \* discovery_weight_...
    MinPrice,            \* discovery_min_price, cents
    MinDollarVolume,     \* discovery_min_avg_dollar_volume
    MinHistory,          \* discovery_min_history_bars
    MaxPerGroup,         \* discovery_max_per_group
    DeepK,               \* discovery_deep_analysis_k
    FinalK,              \* discovery_final_k
    Log10(_)             \* of dollars: thousandths

Signals == {"momentum", "trend", "volume", "volatility", "reversion", "liquidity", "quality"}

ASSUME DiscoveryAssumption ==
  /\ Symbols \in Seq(Nat) /\ IsInjective(Symbols)
  /\ Weights \in [Signals -> Nat]
  /\ SumFunction(Weights) = 100
  /\ {MinPrice, MinDollarVolume} \subseteq Nat
  /\ {MinHistory, MaxPerGroup, DeepK, FinalK} \subseteq Nat \ {0}

Names == DOMAIN Heard

(* The gateway's bars have no negative closes and volumes, and the         *)
(* volatility of what is kept of them is a number, or missing.             *)
Bars == [time : Int, open : Int, high : Int, low : Int, close : Nat, volume : Nat]
ASSUME HeardAssumption ==
  \A name \in Names :
    LET answer == Heard[name]
    IN /\ answer.bars # None =>
            /\ answer.bars \in Seq(Bars)
            /\ RealizedVolatility(Closes(Unique(answer.bars))) \in Int \cup {None}
       /\ answer.snapshot # None =>
            /\ answer.snapshot.trade \in Int \cup {None}
            /\ answer.snapshot.quote # None => {answer.snapshot.quote.bid, answer.snapshot.quote.ask} \subseteq Int

---------------------------------------------------------------------------
(* The universe of either provider, and the categories it gives.           *)

(* get_all_assets is None where it raised or the gateway has no client,    *)
(* and otherwise a sequence of assets; plain is what _is_valid_symbol asks *)
(* of the spelling.                                                        *)
Assets == [symbol : Nat, tradable : BOOLEAN, active : BOOLEAN, equity : BOOLEAN, plain : BOOLEAN]
Wanted(asset) == asset.tradable /\ asset.active /\ asset.equity /\ asset.plain
Listed(assets) ==
  IF assets = None THEN <<>>
  ELSE LET kept == SelectSeq(assets, Wanted) IN [i \in DOMAIN kept |-> kept[i].symbol]
Universes(mode) == IF mode = "curated" THEN {Symbols} ELSE {Listed(assets) : assets \in Listings}

(* The provider lists no symbol twice. *)
ASSUME ListingsAssumption ==
  /\ Listings \subseteq Seq(Assets) \cup {None}
  /\ \A assets \in Listings : Listed(assets) \in Seq(Nat) /\ IsInjective(Listed(assets))

Category(s) == IF s \in ETFs THEN "ETF" ELSE "EQUITY"

FaultyCategorized(known, symbols, failing) ==
  [s \in DOMAIN known \cup symbols |->
     IF s \in failing THEN "EQUITY" ELSE IF s \in symbols THEN Category(s) ELSE known[s]]

(* The categories known after those of symbols were asked for: one that    *)
(* fails to be looked up is an EQUITY, and stays one.                      *)
Categorized(known, symbols, failing) ==
  [s \in DOMAIN known \cup symbols |->
     IF s \in DOMAIN known THEN known[s] ELSE IF s \in failing THEN "EQUITY" ELSE Category(s)]

Clamp(low, high, x) == IF x < low THEN low ELSE IF x > high THEN high ELSE x
AtMost(high, x) == IF x > high THEN high ELSE x
AtLeast(low, x) == IF x < low THEN low ELSE x

---------------------------------------------------------------------------
(* Screening: the observation of a symbol. *)

NoFeatures ==
  [price |-> 0, day |-> None, week |-> None, month |-> None, fromShort |-> None, fromLong |-> None,
   rsi |-> None, volatility |-> None, volume |-> None, average |-> None, ratio |-> None,
   surprise |-> None, trendShort |-> None, trendMedium |-> None, dollars |-> None]
Observed(features, quality, count) == [features |-> features, quality |-> quality, count |-> count]

(* Whatever was raised, the price of the observation is 0. *)
Screened(answer) ==
  IF answer.bars = None THEN Observed(NoFeatures, answer.error, None)
  ELSE LET kept == Unique(answer.bars)
           quality == QualityStatus(answer.bars, ShortPeriod)
       IN CASE kept = <<>> -> Observed(NoFeatures, "INSUFFICIENT", 0)
            [] kept # <<>> /\ Len(kept) < ShortPeriod ->
                 Observed([NoFeatures EXCEPT !.price = kept[Len(kept)].close], quality, Len(kept))
            [] OTHER -> IF answer.snapshot = None THEN Observed(NoFeatures, answer.error, None)
                        ELSE Observed(Features(kept, answer.snapshot), quality, Len(kept))

(* has_sufficient_data *)
Sufficient(f) ==
  None \notin {f.price, f.week, f.month, f.average, f.volume, f.volatility, f.fromShort, f.rsi}

(* The first filter an observation does not pass, or None. *)
Rejection(o) ==
  CASE o.features.price < MinPrice -> "PRICE_TOO_LOW"
    [] o.features.price >= MinPrice /\ o.features.dollars # None
         /\ o.features.dollars < MinDollarVolume -> "LOW_LIQUIDITY"
    [] OTHER ->
         IF o.count # None /\ o.count < MinHistory THEN "INSUFFICIENT_HISTORY"
         ELSE IF ~Sufficient(o.features) THEN "INVALID_DATA"
         ELSE IF o.quality \in {"DEGRADED", "INSUFFICIENT", "STALE"} THEN "DATA_QUALITY_DEGRADED"
         ELSE None

---------------------------------------------------------------------------
(* Signals: a score and a direction each. *)

Signal(score, direction) == [score |-> score, direction |-> direction]

WeekScore(week) ==
  IF week > 50 \/ week < -50 THEN Clamp(0, 1000, 500 + 5 * week)
  ELSE IF week > 20 \/ week < -20 THEN Clamp(0, 1000, 500 + 10 * week)
  ELSE 500

FaultyMomentum(f) ==
  IF None \in {f.week, f.month} THEN Signal(500, "NEUTRAL")
  ELSE Signal((IF f.week > 50 THEN 500 + 5 * f.week ELSE 500) + (IF f.month > 100 THEN 100 ELSE 0),
              IF f.week > 20 THEN "BULLISH" ELSE "NEUTRAL")

(* The month's ten points are added after the clamping. *)
Momentum(f) ==
  IF None \in {f.week, f.month} THEN Signal(500, "NEUTRAL")
  ELSE Signal(WeekScore(f.week)
                + (IF f.month > 100 THEN 100 ELSE IF f.month < -100 THEN -100 ELSE 0),
              IF f.week > 20 THEN "BULLISH" ELSE IF f.week < -20 THEN "BEARISH" ELSE "NEUTRAL")

FromAverages(short, long) ==
  CASE short > 0 /\ long > 0 -> Signal(IF short > 50 /\ long > 50 THEN 900 ELSE 700, "BULLISH")
    [] short < 0 /\ long < 0 -> Signal(IF short < -50 /\ long < -50 THEN 100 ELSE 300, "BEARISH")
    [] OTHER -> Signal(500, "MIXED")

Ups == {"UP", "STRONG_UP"}
Downs == {"DOWN", "STRONG_DOWN"}
ASSUME TrendAssumption == None \notin Ups \cup Downs
BothIn(f, trends) == f.trendShort \in trends /\ f.trendMedium \in trends

TrendSignal(f) ==
  LET base == IF None \in {f.fromShort, f.fromLong} THEN Signal(500, "NEUTRAL")
              ELSE FromAverages(f.fromShort, f.fromLong)
  IN CASE BothIn(f, Ups) -> Signal(AtMost(1000, base.score + 100),
                                   IF base.direction = "BEARISH" THEN "BEARISH" ELSE "BULLISH")
       [] BothIn(f, Downs) -> Signal(AtLeast(0, base.score - 100),
                                     IF base.direction = "BULLISH" THEN "BULLISH" ELSE "BEARISH")
       [] OTHER -> base

VolumeSignal(f) ==
  LET ratio == CASE f.ratio = None -> Signal(500, "NEUTRAL")
                 [] f.ratio # None /\ f.ratio >= 2000 ->
                      Signal(850, IF f.day # None /\ f.day > 0 THEN "BULLISH" ELSE "MIXED")
                 [] OTHER -> Signal(IF f.ratio >= 1500 THEN 700 ELSE IF f.ratio <= 500 THEN 300 ELSE 500,
                                    "NEUTRAL")
  IN CASE f.surprise = "HIGH" -> [ratio EXCEPT !.score = AtLeast(800, @)]
       [] f.surprise = "LOW" -> [ratio EXCEPT !.score = AtMost(200, @)]
       [] OTHER -> ratio

VolatilitySignal(f) ==
  LET v == f.volatility
  IN Signal(CASE v = None -> 500
              [] v # None /\ v < 100 -> 300
              [] v # None /\ v \in 150..400 -> 750
              [] v # None /\ v > 600 -> 400
              [] OTHER -> 600, "NEUTRAL")

Strengths(rsi) ==
  IF rsi = None THEN Signal(500, "NEUTRAL")
  ELSE IF rsi <= 400 THEN Signal(IF rsi <= 300 THEN 700 ELSE 600, "BULLISH")
  ELSE IF rsi >= 600 THEN Signal(IF rsi >= 700 THEN 300 ELSE 400, "BEARISH")
  ELSE Signal(500, "NEUTRAL")
Pullback(f) == None \notin {f.fromShort, f.fromLong} /\ f.fromShort \in -30..10 /\ f.fromLong > 20
Reversion(f) ==
  IF Pullback(f) THEN Signal(AtLeast(650, Strengths(f.rsi).score), "BULLISH") ELSE Strengths(f.rsi)

Liquidity(f) ==
  Signal(IF f.dollars \in {None, 0} THEN 500
         ELSE Clamp(0, 1000, (Log10(f.dollars) - 6000) \div 2), "NEUTRAL")

(* Fewer than a hundred bars are "adequate". *)
Quality(o) ==
  LET base == CASE o.quality = "DEGRADED" -> 700
                [] o.quality = "INSUFFICIENT" -> 300
                [] o.quality = "STALE" -> 200
                [] OTHER -> 1000
  IN Signal(IF o.count # None /\ o.count \in 50..99 THEN AtMost(800, base) ELSE base, "NEUTRAL")

Scores(o) ==
  [momentum |-> Momentum(o.features), trend |-> TrendSignal(o.features),
   volume |-> VolumeSignal(o.features), volatility |-> VolatilitySignal(o.features),
   reversion |-> Reversion(o.features), liquidity |-> Liquidity(o.features), quality |-> Quality(o)]

(* Rounded to hundredths of a point. *)
Weighted(scores) ==
  Weights["momentum"] * scores.momentum.score + Weights["trend"] * scores.trend.score
  + Weights["volume"] * scores.volume.score + Weights["volatility"] * scores.volatility.score
  + Weights["reversion"] * scores.reversion.score + Weights["liquidity"] * scores.liquidity.score
  + Weights["quality"] * scores.quality.score
TotalOf(scores) == (Weighted(scores) + 5) \div 10
Hundred == 0..10000     \* the totals that are points of a hundred

(* A balance of the weights that the defaults keep by far (20 to 60, of    *)
(* core/config.py:50): where the momentum is at an extreme, these four are *)
(* not at theirs.                                                          *)
MomentumIsOutweighed ==
  Weights["momentum"] <= Weights["trend"] + Weights["volume"] + Weights["volatility"] + Weights["reversion"]

(* Half of the weight of a mixed signal on either side: the sums are twice *)
(* what the code sums.                                                     *)
Leaning(scores, direction, Counts(_)) ==
  LET part(n) == IF scores[n].direction = "MIXED" THEN Weights[n]
                 ELSE IF scores[n].direction = direction /\ Counts(scores[n].score) THEN 2 * Weights[n]
                 ELSE 0
  IN SumFunction([n \in Signals |-> part(n)])
Direction(scores) ==
  LET bullish == Leaning(scores, "BULLISH", LAMBDA s : s > 600)
      bearish == Leaning(scores, "BEARISH", LAMBDA s : s < 400)
  IN IF 2 * bullish > 3 * bearish THEN "BULLISH"
     ELSE IF 2 * bearish > 3 * bullish THEN "BEARISH"
     ELSE IF bullish > 0 /\ bearish > 0 THEN "MIXED" ELSE "NEUTRAL"

(* What the screening and the deep analysis make of an answer, by its name. *)
Candidate(o) == [rejection |-> Rejection(o), total |-> TotalOf(Scores(o)), direction |-> Direction(Scores(o))]
Seen == [name \in Names |-> Screened(Heard[name])]
Opportunity == [name \in Names |-> Candidate(Seen[name])]
Buildable == {name \in Names : Builds(Heard[name])}
Viable(name) == Opportunity[name].rejection = None /\ Opportunity[name].total >= 3000

(* The logarithm of a dollar volume is a number. *)
ASSUME LogarithmAssumption ==
  \A name \in Names :
    LET dollars == Seen[name].features.dollars IN dollars \notin {None, 0} => Log10(dollars) \in Int

---------------------------------------------------------------------------
(* Ranking and diversification, of the symbols s that answer[s] is of and  *)
(* that are of category[s].                                                *)

Before(answer, a, b) ==
  \/ Opportunity[answer[a]].total > Opportunity[answer[b]].total
  \/ Opportunity[answer[a]].total = Opportunity[answer[b]].total /\ a < b
Rank(answer, symbols, s) == Cardinality({t \in symbols : Before(answer, t, s)})
Ranked(answer, symbols) ==
  [i \in 1..Cardinality(symbols) |-> CHOOSE s \in symbols : Rank(answer, symbols, s) = i - 1]

(* Of each category the MaxPerGroup that rank highest. *)
Diversified(category, answer, symbols) ==
  {s \in symbols : Rank(answer, {t \in symbols : category[t] = category[s]}, s) < MaxPerGroup}

FirstOf(n, symbols) == SubSeq(symbols, 1, AtMost(Len(symbols), n))
ViableOf(answer) == {s \in DOMAIN answer : Viable(answer[s])}
Shortlist(category, answer) ==
  FirstOf(DeepK, Ranked(answer, Diversified(category, answer, ViableOf(answer))))
Finalists(category, answer, analysed) ==
  FirstOf(FinalK, Ranked(answer, Diversified(category, answer, ToSet(analysed))))
=============================================================================
