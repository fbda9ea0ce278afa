--------------------------- MODULE DiscoveryProofs ---------------------------
(***************************************************************************)
(* What Market and Discovery compute, for any bars, snapshots and weights: *)
(* the types of the features, and the ranges of the signals' scores.       *)
(***************************************************************************)
EXTENDS Discovery, Sums, SequenceTheorems

Number == Int \cup {None}

---------------------------------------------------------------------------
(* Bars without duplicates.                                                *)

(* The k-th of a finite set of integers exists.                            *)
LEMMA PlaceReached ==
  ASSUME NEW F \in SUBSET Int, IsFiniteSet(F), NEW k \in 1..Cardinality(F)
  PROVE  \E i \in F : Cardinality({j \in F : j <= i}) = k
<1> DEFINE n == Cardinality(F)
           upTo(i) == {j \in F : j <= i}
           r == [i \in F |-> Cardinality(upTo(i))]
<1>1. n \in Nat
    BY FS_CardinalityType
<1>2. ASSUME NEW i \in F PROVE IsFiniteSet(upTo(i)) /\ Cardinality(upTo(i)) \in 1..n
  <2>1. upTo(i) \in SUBSET F /\ i \in upTo(i)
      OBVIOUS
  <2> HIDE DEF upTo
  <2>2. IsFiniteSet(upTo(i)) /\ Cardinality(upTo(i)) <= n
      BY <2>1, FS_Subset
  <2>3. Cardinality(upTo(i)) \in Nat /\ Cardinality(upTo(i)) # 0
      BY <2>1, <2>2, FS_CardinalityType, FS_EmptySet
  <2> QED
      BY <1>1, <2>2, <2>3
<1>3. ASSUME NEW a \in F, NEW b \in F, a < b PROVE Cardinality(upTo(a)) < Cardinality(upTo(b))
  <2>1. upTo(a) \in SUBSET upTo(b) /\ b \in upTo(b) /\ b \notin upTo(a)
    <3>1. a \in Int /\ b \in Int /\ \A j \in F : j \in Int
        OBVIOUS
    <3>2. \A j \in F : j <= a => j <= b
        BY <1>3, <3>1
    <3>3. b <= b /\ ~(b <= a)
        BY <1>3, <3>1
    <3> QED
        BY <3>2, <3>3
  <2>2. IsFiniteSet(upTo(a)) /\ IsFiniteSet(upTo(b))
      BY <1>2
  <2> HIDE DEF upTo
  <2>3. upTo(a) \cup {b} \in SUBSET upTo(b)
      BY <2>1
  <2>4. Cardinality(upTo(a) \cup {b}) = Cardinality(upTo(a)) + 1
      BY <2>1, <2>2, FS_AddElement
  <2>5. Cardinality(upTo(a) \cup {b}) <= Cardinality(upTo(b))
      BY <2>2, <2>3, FS_Subset
  <2>6. Cardinality(upTo(a)) \in Nat /\ Cardinality(upTo(b)) \in Nat
      BY <2>2, FS_CardinalityType
  <2> QED
      BY <2>4, <2>5, <2>6
<1>4. r \in [F -> 1..n] /\ \A a, b \in F : r[a] = r[b] => a = b
  <2>1. \A i \in F : r[i] = Cardinality(upTo(i)) /\ r[i] \in 1..n
      BY <1>2
  <2>2. ASSUME NEW a \in F, NEW b \in F, r[a] = r[b], a # b PROVE FALSE
    <3>1. a < b \/ b < a
        BY <2>2
    <3>2. r[a] \in Int /\ r[b] \in Int
        BY <2>1
    <3> HIDE DEF r, upTo
    <3> QED
        BY <1>3, <2>1, <2>2, <3>1, <3>2
  <2> QED
      BY <2>1, <2>2
<1>5. r \in Injection(F, 1..n)
    BY <1>4 DEF Injection, IsInjective
<1>6. IsFiniteSet(1..n) /\ Cardinality(1..n) = n
  <2>1. 1 \in Int /\ n \in Int
      BY <1>1
  <2> QED
      BY <1>1, <2>1, FS_Interval
<1>7. r \in Surjection(F, 1..n)
    BY <1>5, <1>6, FS_Injection
<1>8. PICK i \in F : r[i] = k
    BY <1>7 DEF Surjection
<1> QED
    BY <1>8

LEMMA UniqueType ==
  ASSUME NEW S, NEW bars \in Seq(S)
  PROVE  Unique(bars) \in Seq(S)
<1> DEFINE F == {i \in DOMAIN bars : \A j \in 1..(i - 1) : bars[j].time # bars[i].time}
           n == Cardinality(F)
           at(k) == CHOOSE i \in F : Cardinality({j \in F : j <= i}) = k
<1>1. F \in SUBSET (1..Len(bars)) /\ Len(bars) \in Nat
    OBVIOUS
<1>2. IsFiniteSet(F) /\ F \in SUBSET Int /\ n \in Nat
  <2>1. 1 \in Int /\ Len(bars) \in Int
      BY <1>1
  <2>2. IsFiniteSet(1..Len(bars))
      BY <2>1, FS_Interval
  <2>3. 1..Len(bars) \subseteq Int
      OBVIOUS
  <2> HIDE DEF F
  <2>4. IsFiniteSet(F)
      BY <1>1, <2>2, FS_Subset
  <2> QED
      BY <1>1, <2>3, <2>4, FS_CardinalityType
<1>3. Unique(bars) = [k \in 1..n |-> bars[at(k)]]
    BY DEF Unique
<1> HIDE DEF F
<1>4. \A k \in 1..n : at(k) \in F
    BY <1>2, PlaceReached
<1>5. \A k \in 1..n : bars[at(k)] \in S
  <2> HIDE DEF at
  <2>1. \A i \in 1..Len(bars) : bars[i] \in S
      OBVIOUS
  <2> QED
      BY <1>1, <1>4, <2>1
<1> HIDE DEF at, n
<1>6. Unique(bars) \in [1..n -> S]
    BY <1>3, <1>5
<1> QED
    BY <1>2, <1>6, SeqDef

---------------------------------------------------------------------------
(* The indicators.                                                         *)

LEMMA TotalType ==
  ASSUME NEW values \in Seq(Int)
  PROVE  /\ Total(values) \in Int
         /\ (\A i \in DOMAIN values : values[i] >= 0) => Total(values) >= 0
<1>1. IsFiniteSet(DOMAIN values) /\ Cardinality(DOMAIN values) \in Nat
  <2>1. DOMAIN values = 1..Len(values) /\ 1 \in Int /\ Len(values) \in Int
      OBVIOUS
  <2> QED
      BY <2>1, FS_Interval, FS_CardinalityType
<1>2. \A i \in DOMAIN values : values[i] \in Int
    OBVIOUS
<1>3. Total(values) = SumFunctionOnSet(values, DOMAIN values)
    BY DEF Total, SumFunction, FoldFunction, SumFunctionOnSet
<1>4. SumFunctionOnSet(values, DOMAIN values) \in Int
    BY <1>1, <1>2, SumType
<1>5. ASSUME \A i \in DOMAIN values : values[i] >= 0
      PROVE  0 <= SumFunctionOnSet(values, DOMAIN values)
  <2>1. \A i \in DOMAIN values : values[i] \in Int /\ 0 <= values[i]
      BY <1>2, <1>5
  <2>2. 0 * Cardinality(DOMAIN values) <= SumFunctionOnSet(values, DOMAIN values)
      BY <1>1, <2>1, SumAtLeast
  <2>3. 0 * Cardinality(DOMAIN values) = 0
      BY <1>1
  <2> QED
      BY <2>2, <2>3
<1> QED
    BY <1>3, <1>4, <1>5

LEMMA SmaType ==
  ASSUME NEW values \in Seq(Nat), NEW n \in Nat \ {0}
  PROVE  Sma(values, n) \in Nat \cup {None}
<1>1. CASE Len(values) < n
    BY <1>1 DEF Sma
<1>2. CASE Len(values) >= n
  <2> DEFINE window == Latest(values, n)
  <2>1. window \in Seq(Nat)
      BY <1>2 DEF Latest
  <2> HIDE DEF window
  <2>2. window \in Seq(Int) /\ \A i \in DOMAIN window : window[i] >= 0
      BY <2>1
  <2>3. Total(window) \in Nat
      BY <2>2, TotalType
  <2>4. Total(window) \div n \in Nat
      BY <2>3
  <2>5. Sma(values, n) = Total(window) \div n
      BY <1>2 DEF Sma, window
  <2> QED
      BY <2>4, <2>5
<1> QED
    BY <1>1, <1>2

LEMMA ReturnType ==
  ASSUME NEW prices \in Seq(Nat), NEW n \in Nat \ {0}
  PROVE  Return(prices, n) \in Number
<1> DEFINE last == Len(prices)
<1>1. CASE last < n + 1 \/ prices[last - n] = 0
    BY <1>1 DEF Return, Number
<1>2. CASE ~(last < n + 1 \/ prices[last - n] = 0)
  <2>1. prices[last] \in Nat /\ prices[last - n] \in Nat \ {0}
      BY <1>2
  <2>2. (1000 * (prices[last] - prices[last - n])) \div prices[last - n] \in Int
      BY <2>1
  <2> QED
      BY <1>2, <2>2 DEF Return, Number, Thousandths
<1> QED
    BY <1>1, <1>2

LEMMA DistanceType ==
  ASSUME NEW price \in Int, NEW average \in Nat \cup {None}
  PROVE  Distance(price, average) \in Number /\ Ratio(price, average) \in Number
<1>1. CASE average \in {None, 0}
    BY <1>1 DEF Distance, Ratio, Number
<1>2. CASE average \notin {None, 0}
  <2>1. average \in Nat \ {0}
      BY <1>2
  <2>2. (1000 * (price - average)) \div average \in Int /\ (1000 * price) \div average \in Int
      BY <2>1
  <2> QED
      BY <1>2, <2>2 DEF Distance, Ratio, Number, Thousandths
<1> QED
    BY <1>1, <1>2

LEMMA RsiType ==
  ASSUME NEW prices \in Seq(Nat)
  PROVE  Rsi(prices) \in Number
<1>1. CASE Len(prices) < RsiPeriod + 1
    BY <1>1 DEF Rsi, Number
<1>2. CASE Len(prices) >= RsiPeriod + 1
  <2> DEFINE first == SubSeq(Deltas(prices), 1, RsiPeriod)
             gains == [i \in DOMAIN first |-> Gain(first[i])]
             losses == [i \in DOMAIN first |-> Loss(first[i])]
  <2>1. Deltas(prices) \in Seq(Int) /\ Len(Deltas(prices)) >= RsiPeriod
    <3>1. \A i \in 1..(Len(prices) - 1) : prices[i + 1] - prices[i] \in Int
        OBVIOUS
    <3>2. Deltas(prices) \in [1..(Len(prices) - 1) -> Int] /\ Len(prices) - 1 \in Nat
        BY <1>2, <3>1 DEF Deltas, RsiPeriod
    <3>3. Deltas(prices) \in Seq(Int) /\ Len(Deltas(prices)) = Len(prices) - 1
        BY <3>2, SeqDef
    <3> QED
        BY <1>2, <3>3 DEF RsiPeriod
  <2>2. first \in Seq(Int)
    <3> DEFINE d == Deltas(prices)
    <3>1. \A i \in 1..14 : d[i] \in Int
        BY <2>1 DEF RsiPeriod
    <3> HIDE DEF d
    <3>2. 1 \in Int /\ 14 \in Int
        OBVIOUS
    <3>3. SubSeq(d, 1, 14) \in Seq(Int)
        BY <3>1, <3>2, SubSeqProperties
    <3> QED
        BY <3>3 DEF RsiPeriod, d
  <2> HIDE DEF first
  <2>3. /\ gains \in Seq(Int) /\ \A i \in DOMAIN gains : gains[i] >= 0
        /\ losses \in Seq(Int) /\ \A i \in DOMAIN losses : losses[i] >= 0
    <3>1. \A i \in DOMAIN first : Gain(first[i]) \in Nat /\ Loss(first[i]) \in Nat
        BY <2>2 DEF Gain, Loss
    <3>2. DOMAIN first = 1..Len(first) /\ Len(first) \in Nat
        BY <2>2
    <3>3. gains \in [1..Len(first) -> Nat] /\ losses \in [1..Len(first) -> Nat]
        BY <3>1, <3>2
    <3> HIDE DEF gains, losses
    <3>4. gains \in Seq(Nat) /\ losses \in Seq(Nat)
        BY <3>2, <3>3, SeqDef
    <3> QED
        BY <3>4
  <2>4. Total(gains) \in Nat /\ Total(losses) \in Nat
      BY <2>3, TotalType
  <2> HIDE DEF gains, losses
  <2>5. Strength(Total(gains), Total(losses)) \in Int
    <3> DEFINE g == Total(gains)
               l == Total(losses)
    <3> HIDE DEF g, l
    <3>1. g \in Nat /\ l \in Nat
        BY <2>4 DEF g, l
    <3>2. l # 0 => (1000 * g) \div (g + l) \in Int
        BY <3>1
    <3>3. Strength(g, l) \in Int
        BY <3>1, <3>2 DEF Strength, Thousandths
    <3> QED
        BY <3>3 DEF g, l
  <2> QED
      BY <1>2, <2>5 DEF Rsi, Number, first, gains, losses
<1>3. Len(prices) \in Nat
    OBVIOUS
<1> QED
    BY <1>1, <1>2, <1>3 DEF RsiPeriod

LEMMA PriceType ==
  ASSUME NEW snapshot, NEW bars \in Seq(Bars), bars # <<>>,
         snapshot.trade \in Number,
         snapshot.quote # None => {snapshot.quote.bid, snapshot.quote.ask} \subseteq Int
  PROVE  CurrentPrice(snapshot, bars) \in Int
<1>1. CASE snapshot.trade # None
    BY <1>1 DEF CurrentPrice, Number
<1>2. CASE snapshot.trade = None /\ ValidQuote(snapshot.quote)
  <2>1. (snapshot.quote.bid + snapshot.quote.ask) \div 2 \in Int
      BY <1>2 DEF ValidQuote
  <2> QED
      BY <1>2, <2>1 DEF CurrentPrice
<1>3. CASE snapshot.trade = None /\ ~ValidQuote(snapshot.quote)
  <2>1. bars[Len(bars)] \in Bars
      OBVIOUS
  <2> QED
      BY <1>3, <2>1 DEF CurrentPrice, Bars
<1> QED
    BY <1>1, <1>2, <1>3

LEMMA ColumnTypes ==
  ASSUME NEW bars \in Seq(Bars)
  PROVE  Closes(bars) \in Seq(Nat) /\ Volumes(bars) \in Seq(Nat)
<1>1. DOMAIN bars = 1..Len(bars) /\ Len(bars) \in Nat
    OBVIOUS
<1>2. ASSUME NEW i \in 1..Len(bars) PROVE bars[i].close \in Nat /\ bars[i].volume \in Nat
  <2>1. bars[i] \in Bars
      OBVIOUS
  <2> QED
      BY <2>1 DEF Bars
<1>3. Closes(bars) \in [1..Len(bars) -> Nat] /\ Volumes(bars) \in [1..Len(bars) -> Nat]
    BY <1>1, <1>2 DEF Closes, Volumes
<1>4. [1..Len(bars) -> Nat] \subseteq Seq(Nat)
    BY <1>1, SeqDef
<1> QED
    BY <1>3, <1>4

(* The averages the two trends are of.                                     *)
LEMMA HeardAveragesType ==
  ASSUME NEW name \in Names, Heard[name].bars # None
  PROVE  LET closes == Closes(Unique(Heard[name].bars))
         IN Sma(closes, ShortPeriod) \in Nat \cup {None} /\ Sma(closes, LongPeriod) \in Nat \cup {None}
<1>1. Heard[name].bars \in Seq(Bars)
    BY HeardAssumption
<1> DEFINE kept == Unique(Heard[name].bars)
<1>2. kept \in Seq(Bars)
    BY <1>1, UniqueType
<1> HIDE DEF kept
<1>3. Closes(kept) \in Seq(Nat)
    BY <1>2, ColumnTypes
<1>4. ShortPeriod \in Nat \ {0} /\ LongPeriod \in Nat \ {0}
    BY DEF ShortPeriod, LongPeriod
<1> QED
    BY <1>3, <1>4, SmaType DEF kept

(* The two trends of a symbol are of the same two averages, one in either  *)
(* order: they have no direction in common.                                *)
LEMMA TrendsOf ==
    ASSUME NEW name \in Names, NEW f, f = Seen[name].features
    PROVE  ~BothIn(f, Ups) /\ ~BothIn(f, Downs)
<1> DEFINE answer == Heard[name]
           kept == Unique(answer.bars)
           short == Sma(Closes(kept), ShortPeriod)
           long == Sma(Closes(kept), LongPeriod)
<1>1. None \notin Ups /\ None \notin Downs
    BY TrendAssumption
<1>2. \/ f.trendShort = None
      \/ answer.bars # None /\ \E price, fromShort, fromLong :
           /\ f.trendShort = Trend(price, short, long, fromShort, fromLong)
           /\ f.trendMedium = Trend(price, long, short, fromLong, fromShort)
  <2>1. f = Screened(answer).features
      BY DEF Seen
  <2> HIDE DEF answer
  <2>2. CASE f = NoFeatures
      BY <2>2 DEF NoFeatures
  <2>3. CASE \E p : f = [NoFeatures EXCEPT !.price = p]
      BY <2>3 DEF NoFeatures
  <2>4. CASE answer.bars # None /\ f = Features(kept, answer.snapshot)
    <3> HIDE DEF kept
    <3> QED
        BY <2>4 DEF Features
  <2> QED
      BY <2>1, <2>2, <2>3, <2>4 DEF Screened, Observed
<1>3. ASSUME answer.bars # None PROVE short \in Int \cup {None} /\ long \in Int \cup {None}
    BY <1>3, HeardAveragesType
<1> HIDE DEF answer, kept, short, long
<1>4. ASSUME NEW price, NEW fromShort, NEW fromLong,
             short \in Int \cup {None}, long \in Int \cup {None},
             f.trendShort = Trend(price, short, long, fromShort, fromLong),
             f.trendMedium = Trend(price, long, short, fromLong, fromShort)
      PROVE  ~BothIn(f, Ups) /\ ~BothIn(f, Downs)
  <2>1. CASE None \in {short, long, fromShort, fromLong}
    <3>1. f.trendShort = "UNKNOWN"
        BY <1>4, <2>1 DEF Trend
    <3> QED
        BY <3>1 DEF BothIn, Ups, Downs
  <2>2. CASE None \notin {short, long, fromShort, fromLong}
    <3>1. short \in Int /\ long \in Int
        BY <1>4, <2>2
    <3>2. f.trendShort \in Ups => short > long
        BY <1>4, <2>2 DEF Trend, Ups
    <3>3. f.trendMedium \in Ups => long > short
        BY <1>4, <2>2 DEF Trend, Ups
    <3>4. f.trendShort \in Downs => short < long
        BY <1>4, <2>2 DEF Trend, Downs
    <3>5. f.trendMedium \in Downs => long < short
        BY <1>4, <2>2 DEF Trend, Downs
    <3> QED
        BY <3>1, <3>2, <3>3, <3>4, <3>5 DEF BothIn
  <2> QED
      BY <2>1, <2>2
<1> QED
    BY <1>1, <1>2, <1>3, <1>4 DEF BothIn

---------------------------------------------------------------------------
(* The observation of an answer.                                           *)

FeatureTypes(f) ==
  /\ f.week \in Number /\ f.month \in Number /\ f.fromShort \in Number /\ f.fromLong \in Number
  /\ f.ratio \in Number /\ f.rsi \in Number /\ f.volatility \in Number

LEMMA FeaturesType ==
  ASSUME NEW bars \in Seq(Bars), bars # <<>>, NEW snapshot,
         snapshot.trade \in Number,
         snapshot.quote # None => {snapshot.quote.bid, snapshot.quote.ask} \subseteq Int,
         RealizedVolatility(Closes(bars)) \in Number
  PROVE  FeatureTypes(Features(bars, snapshot))
<1> DEFINE closes == Closes(bars)
           price == CurrentPrice(snapshot, bars)
           volume == bars[Len(bars)].volume
<1>1. closes \in Seq(Nat) /\ Volumes(bars) \in Seq(Nat)
    BY ColumnTypes
<1>2. price \in Int
    BY PriceType
<1>3. volume \in Int
  <2>1. bars[Len(bars)] \in Bars
      OBVIOUS
  <2> QED
      BY <2>1 DEF Bars
<1>4. ShortPeriod \in Nat \ {0} /\ LongPeriod \in Nat \ {0} /\ 5 \in Nat \ {0} /\ 20 \in Nat \ {0}
    BY DEF ShortPeriod, LongPeriod
<1> HIDE DEF closes, price, volume
<1>5. Return(closes, 5) \in Number /\ Return(closes, 20) \in Number
    BY <1>1, <1>4, ReturnType
<1>6. Distance(price, Sma(closes, ShortPeriod)) \in Number /\ Distance(price, Sma(closes, LongPeriod)) \in Number
    BY <1>1, <1>2, <1>4, SmaType, DistanceType
<1>7. Ratio(volume, Sma(Volumes(bars), ShortPeriod)) \in Number
    BY <1>1, <1>3, <1>4, SmaType, DistanceType
<1>8. Rsi(closes) \in Number
    BY <1>1, RsiType
<1>9. RealizedVolatility(closes) \in Number
    BY DEF closes
<1> QED
    BY <1>5, <1>6, <1>7, <1>8, <1>9 DEF Features, FeatureTypes, closes, price, volume

LEMMA ObservationType ==
  ASSUME NEW name \in Names
  PROVE  FeatureTypes(Seen[name].features)
<1> DEFINE answer == Heard[name]
           kept == Unique(answer.bars)
           o == Screened(answer)
<1>1. Seen[name].features = o.features
    BY DEF Seen
<1>2. FeatureTypes(NoFeatures) /\ \A p : FeatureTypes([NoFeatures EXCEPT !.price = p])
    BY DEF FeatureTypes, NoFeatures, Number
<1>3. CASE answer.bars = None \/ kept = <<>>
  <2>1. o.features = NoFeatures
      BY <1>3 DEF Screened, Observed
  <2> QED
      BY <1>1, <1>2, <2>1
<1>4. CASE answer.bars # None /\ kept # <<>> /\ Len(kept) < ShortPeriod
  <2>1. o.features = [NoFeatures EXCEPT !.price = kept[Len(kept)].close]
      BY <1>4 DEF Screened, Observed
  <2> QED
      BY <1>1, <1>2, <2>1
<1>5. CASE answer.bars # None /\ kept # <<>> /\ ~(Len(kept) < ShortPeriod)
  <2>1. o.features = IF answer.snapshot = None THEN NoFeatures ELSE Features(kept, answer.snapshot)
      BY <1>5 DEF Screened, Observed
  <2>2. CASE answer.snapshot = None
      BY <1>1, <1>2, <2>1, <2>2
  <2>3. CASE answer.snapshot # None
    <3>1. answer.bars \in Seq(Bars) /\ RealizedVolatility(Closes(kept)) \in Number
        BY <1>5, HeardAssumption DEF Number
    <3>2. /\ answer.snapshot.trade \in Number
          /\ answer.snapshot.quote # None => {answer.snapshot.quote.bid, answer.snapshot.quote.ask} \subseteq Int
        BY <2>3, HeardAssumption DEF Number
    <3>3. kept \in Seq(Bars)
        BY <3>1, UniqueType
    <3> HIDE DEF answer, kept, o
    <3>4. FeatureTypes(Features(kept, answer.snapshot))
        BY <1>5, <3>1, <3>2, <3>3, FeaturesType
    <3> QED
        BY <1>1, <2>1, <2>3, <3>4
  <2> QED
      BY <2>2, <2>3
<1> QED
    BY <1>3, <1>4, <1>5

---------------------------------------------------------------------------
(* The scores.  Only the momentum leaves 0..1000: the month's ten points   *)
(* come after its clamping.                                                *)

LEMMA ClampRange ==
  ASSUME NEW x \in Int
  PROVE  Clamp(0, 1000, x) \in 0..1000
BY DEF Clamp

LEMMA MomentumRange ==
  ASSUME NEW f, FeatureTypes(f)
  PROVE  Momentum(f).score \in -100..1100
<1>1. CASE None \in {f.week, f.month}
    BY <1>1 DEF Momentum, Signal
<1>2. CASE None \notin {f.week, f.month}
  <2>1. f.week \in Int /\ f.month \in Int
      BY <1>2 DEF FeatureTypes, Number
  <2>2. WeekScore(f.week) \in 0..1000
    BY <2>1 DEF WeekScore, Clamp
  <2>3. Momentum(f).score =
          WeekScore(f.week) + (IF f.month > 100 THEN 100 ELSE IF f.month < -100 THEN -100 ELSE 0)
      BY <1>2 DEF Momentum, Signal
  <2> QED
      BY <2>1, <2>2, <2>3
<1> QED
    BY <1>1, <1>2

(* The trends never agreeing, the trend keeps a tenth from either end.     *)
LEMMA TrendRange ==
  ASSUME NEW name \in Names, NEW f, f = Seen[name].features
  PROVE  TrendSignal(f).score \in 100..900
<1>1. ~BothIn(f, Ups) /\ ~BothIn(f, Downs)
    BY TrendsOf
<1> DEFINE still == Signal(500, "NEUTRAL")
           moved == FromAverages(f.fromShort, f.fromLong)
<1>2. TrendSignal(f) = still \/ TrendSignal(f) = moved
    BY <1>1 DEF TrendSignal
<1>3. moved.score \in 100..900
    BY DEF FromAverages, Signal
<1>4. still.score \in 100..900
    BY DEF Signal
<1> HIDE DEF still, moved
<1> QED
    BY <1>2, <1>3, <1>4

LEMMA VolumeRange ==
  ASSUME NEW f
  PROVE  VolumeSignal(f).score \in 200..850
<1> DEFINE ratio == CASE f.ratio = None -> Signal(500, "NEUTRAL")
                      [] f.ratio # None /\ f.ratio >= 2000 ->
                           Signal(850, IF f.day # None /\ f.day > 0 THEN "BULLISH" ELSE "MIXED")
                      [] OTHER -> Signal(IF f.ratio >= 1500 THEN 700 ELSE IF f.ratio <= 500 THEN 300 ELSE 500,
                                         "NEUTRAL")
<1>1. ratio.score \in 300..850 /\ ratio = [score |-> ratio.score, direction |-> ratio.direction]
    BY DEF Signal
<1>2. VolumeSignal(f) = CASE f.surprise = "HIGH" -> [ratio EXCEPT !.score = AtLeast(800, @)]
                          [] f.surprise = "LOW" -> [ratio EXCEPT !.score = AtMost(200, @)]
                          [] OTHER -> ratio
    BY DEF VolumeSignal
<1> HIDE DEF ratio
<1>3. AtLeast(800, ratio.score) \in 800..850 /\ AtMost(200, ratio.score) = 200
    BY <1>1 DEF AtLeast, AtMost
<1>4. /\ [ratio EXCEPT !.score = AtLeast(800, @)].score = AtLeast(800, ratio.score)
      /\ [ratio EXCEPT !.score = AtMost(200, @)].score = AtMost(200, ratio.score)
    BY <1>1
<1> QED
    BY <1>1, <1>2, <1>3, <1>4

LEMMA VolatilityRange ==
  ASSUME NEW f
  PROVE  VolatilitySignal(f).score \in 300..750
BY DEF VolatilitySignal, Signal

LEMMA ReversionRange ==
  ASSUME NEW f
  PROVE  Reversion(f).score \in 300..700
<1>1. Strengths(f.rsi).score \in 300..700
    BY DEF Strengths, Signal
<1>2. AtLeast(650, Strengths(f.rsi).score) \in 650..700
    BY <1>1 DEF AtLeast
<1> QED
    BY <1>1, <1>2 DEF Reversion, Signal

LEMMA LiquidityRange ==
  ASSUME NEW name \in Names, NEW f, f = Seen[name].features
  PROVE  Liquidity(f).score \in 0..1000
<1>1. CASE f.dollars \in {None, 0}
    BY <1>1 DEF Liquidity, Signal
<1>2. CASE f.dollars \notin {None, 0}
  <2>1. Log10(f.dollars) \in Int
      BY <1>2, LogarithmAssumption
  <2> DEFINE y == (Log10(f.dollars) - 6000) \div 2
             x == Clamp(0, 1000, y)
  <2>2. y \in Int
      BY <2>1
  <2>3. x \in 0..1000
    <3> HIDE DEF y
    <3> QED
        BY <2>2 DEF Clamp
  <2>4. Liquidity(f) = [score |-> x, direction |-> "NEUTRAL"]
      BY <1>2 DEF Liquidity, Signal
  <2> HIDE DEF x
  <2> QED
      BY <2>3, <2>4
<1> QED
    BY <1>1, <1>2

LEMMA QualityRange ==
  ASSUME NEW o
  PROVE  Quality(o).score \in 200..1000
<1> DEFINE base == CASE o.quality = "DEGRADED" -> 700
                     [] o.quality = "INSUFFICIENT" -> 300
                     [] o.quality = "STALE" -> 200
                     [] OTHER -> 1000
<1>1. base \in 200..1000
    OBVIOUS
<1> HIDE DEF base
<1>2. AtMost(800, base) \in 200..1000
    BY <1>1 DEF AtMost
<1> QED
    BY <1>1, <1>2 DEF Quality, Signal, base

---------------------------------------------------------------------------
(* The totals.                                                             *)

Within(low, high, x) == x \in low..high
Product(w, low, high, x) == x \in Int /\ low * w <= w * x /\ w * x <= high * w

(* A weight times a score. *)
LEMMA Products ==
  ASSUME NEW w \in Nat, NEW low \in Int, NEW high \in Int, NEW x, Within(low, high, x)
  PROVE  Product(w, low, high, x)
<1>1. x \in Int /\ low <= x /\ x <= high
    BY DEF Within
<1>2. w * (x - low) >= 0 /\ w * (high - x) >= 0
    BY <1>1
<1>3. w * (x - low) = w * x - low * w /\ w * (high - x) = high * w - w * x
    BY <1>1
<1> QED
    BY <1>1, <1>2, <1>3 DEF Product

(* The scores of an observation and their ranges. *)
LEMMA ScoreRanges ==
  ASSUME NEW name \in Names
  PROVE  LET s == Scores(Seen[name])
         IN /\ Within(-100, 1100, s.momentum.score) /\ Within(100, 900, s.trend.score)
            /\ Within(200, 850, s.volume.score) /\ Within(300, 750, s.volatility.score)
            /\ Within(300, 700, s.reversion.score) /\ Within(0, 1000, s.liquidity.score)
            /\ Within(200, 1000, s.quality.score)
<1> DEFINE o == Seen[name]
           f == o.features
           s == Scores(o)
<1>1. /\ s.momentum = Momentum(f) /\ s.trend = TrendSignal(f) /\ s.volume = VolumeSignal(f)
      /\ s.volatility = VolatilitySignal(f) /\ s.reversion = Reversion(f)
      /\ s.liquidity = Liquidity(f) /\ s.quality = Quality(o)
    BY DEF Scores
<1>2. FeatureTypes(f)
    BY ObservationType
<1>3. Momentum(f).score \in -100..1100
  <2> HIDE DEF f
  <2> QED
      BY <1>2, MomentumRange
<1>4. TrendSignal(f).score \in 100..900
    BY TrendRange
<1>5. Liquidity(f).score \in 0..1000
    BY LiquidityRange
<1>6. VolumeSignal(f).score \in 200..850
    BY VolumeRange
<1>7. VolatilitySignal(f).score \in 300..750
    BY VolatilityRange
<1>8. Reversion(f).score \in 300..700
    BY ReversionRange
<1>9. Quality(o).score \in 200..1000
    BY QualityRange
<1> HIDE DEF s, f, o
<1>10. Within(-100, 1100, s.momentum.score) /\ Within(100, 900, s.trend.score)
    BY <1>1, <1>3, <1>4 DEF Within
<1>11. Within(200, 850, s.volume.score) /\ Within(300, 750, s.volatility.score)
    BY <1>1, <1>6, <1>7 DEF Within
<1>12. Within(300, 700, s.reversion.score) /\ Within(0, 1000, s.liquidity.score)
    BY <1>1, <1>5, <1>8 DEF Within
<1>13. Within(200, 1000, s.quality.score)
    BY <1>1, <1>9 DEF Within
<1> QED
    BY <1>10, <1>11, <1>12, <1>13 DEF s, o

(* The seven products of a total. *)
LEMMA WeightedRange ==
  ASSUME NEW name \in Names
  PROVE  LET W == Weighted(Scores(Seen[name]))
             w == Weights
         IN /\ W \in Int
            /\ W >= -100 * w["momentum"] + 100 * w["trend"] + 200 * w["volume"] + 300 * w["volatility"]
                     + 300 * w["reversion"] + 200 * w["quality"]
            /\ W <= 1100 * w["momentum"] + 900 * w["trend"] + 850 * w["volume"] + 750 * w["volatility"]
                     + 700 * w["reversion"] + 1000 * w["liquidity"] + 1000 * w["quality"]
<1> DEFINE s == Scores(Seen[name])
           a == s.momentum.score
           b == s.trend.score
           c == s.volume.score
           d == s.volatility.score
           e == s.reversion.score
           g == s.liquidity.score
           h == s.quality.score
<1>1. /\ Within(-100, 1100, a) /\ Within(100, 900, b) /\ Within(200, 850, c) /\ Within(300, 750, d)
      /\ Within(300, 700, e) /\ Within(0, 1000, g) /\ Within(200, 1000, h)
    BY ScoreRanges
<1>2. /\ Weights["momentum"] \in Nat /\ Weights["trend"] \in Nat /\ Weights["volume"] \in Nat
      /\ Weights["volatility"] \in Nat /\ Weights["reversion"] \in Nat
      /\ Weights["liquidity"] \in Nat /\ Weights["quality"] \in Nat
    BY DiscoveryAssumption DEF Signals
<1>3. Weighted(s) = Weights["momentum"] * a + Weights["trend"] * b + Weights["volume"] * c
                    + Weights["volatility"] * d + Weights["reversion"] * e
                    + Weights["liquidity"] * g + Weights["quality"] * h
    BY DEF Weighted
<1> HIDE DEF a, b, c, d, e, g, h
<1>4. Product(Weights["momentum"], -100, 1100, a) /\ Product(Weights["trend"], 100, 900, b)
  <2>1. -100 \in Int /\ 1100 \in Int /\ 100 \in Int /\ 900 \in Int
      OBVIOUS
  <2> QED
      BY <1>1, <1>2, <2>1, Products
<1>5. Product(Weights["volume"], 200, 850, c) /\ Product(Weights["volatility"], 300, 750, d)
  <2>1. 200 \in Int /\ 850 \in Int /\ 300 \in Int /\ 750 \in Int
      OBVIOUS
  <2> QED
      BY <1>1, <1>2, <2>1, Products
<1>6. Product(Weights["reversion"], 300, 700, e) /\ Product(Weights["liquidity"], 0, 1000, g)
  <2>1. 300 \in Int /\ 700 \in Int /\ 0 \in Int /\ 1000 \in Int
      OBVIOUS
  <2> QED
      BY <1>1, <1>2, <2>1, Products
<1>7. Product(Weights["quality"], 200, 1000, h)
  <2>1. 200 \in Int /\ 1000 \in Int
      OBVIOUS
  <2> QED
      BY <1>1, <1>2, <2>1, Products
<1> DEFINE p1 == Weights["momentum"] * a
           p2 == Weights["trend"] * b
           p3 == Weights["volume"] * c
           p4 == Weights["volatility"] * d
           p5 == Weights["reversion"] * e
           p6 == Weights["liquidity"] * g
           p7 == Weights["quality"] * h
<1>8. /\ p1 \in Int /\ -100 * Weights["momentum"] <= p1 /\ p1 <= 1100 * Weights["momentum"]
      /\ p2 \in Int /\ 100 * Weights["trend"] <= p2 /\ p2 <= 900 * Weights["trend"]
    BY <1>2, <1>4 DEF Product
<1>9. /\ p3 \in Int /\ 200 * Weights["volume"] <= p3 /\ p3 <= 850 * Weights["volume"]
      /\ p4 \in Int /\ 300 * Weights["volatility"] <= p4 /\ p4 <= 750 * Weights["volatility"]
    BY <1>2, <1>5 DEF Product
<1>10. /\ p5 \in Int /\ 300 * Weights["reversion"] <= p5 /\ p5 <= 700 * Weights["reversion"]
       /\ p6 \in Int /\ 0 <= p6 /\ p6 <= 1000 * Weights["liquidity"]
    BY <1>2, <1>6 DEF Product
<1>11. p7 \in Int /\ 200 * Weights["quality"] <= p7 /\ p7 <= 1000 * Weights["quality"]
    BY <1>2, <1>7 DEF Product
<1> HIDE DEF p1, p2, p3, p4, p5, p6, p7
<1>12. Weighted(s) = p1 + p2 + p3 + p4 + p5 + p6 + p7
    BY <1>3 DEF p1, p2, p3, p4, p5, p6, p7
<1> HIDE DEF s
<1> QED
    BY <1>2, <1>8, <1>9, <1>10, <1>11, <1>12 DEF s

LEMMA TotalsAreIntegers ==
  \A name \in Names : Opportunity[name].total \in Int
<1> SUFFICES ASSUME NEW name \in Names PROVE Opportunity[name].total \in Int
    OBVIOUS
<1> DEFINE W == Weighted(Scores(Seen[name]))
<1>1. W \in Int
    BY WeightedRange
<1>2. Opportunity[name].total = (W + 5) \div 10
    BY DEF Opportunity, Candidate, TotalOf
<1> HIDE DEF W
<1> QED
    BY <1>1, <1>2

(* The weights are seven, and add up to a hundred. *)
LEMMA WeightsAddUp ==
  /\ Weights["momentum"] + Weights["trend"] + Weights["volume"] + Weights["volatility"]
       + Weights["reversion"] + Weights["liquidity"] + Weights["quality"] = 100
  /\ \A n \in Signals : Weights[n] \in Nat
<1> DEFINE T(S) == SumFunctionOnSet(Weights, S)
           S1 == {"quality"}
           S2 == S1 \cup {"liquidity"}
           S3 == S2 \cup {"reversion"}
           S4 == S3 \cup {"volatility"}
           S5 == S4 \cup {"volume"}
           S6 == S5 \cup {"trend"}
           S7 == S6 \cup {"momentum"}
<1>1. \A n \in Signals : Weights[n] \in Nat /\ Weights[n] \in Int
    BY DiscoveryAssumption
<1>2. /\ {} \cup {"quality"} = S1 /\ S7 = Signals
      /\ S1 \subseteq Signals /\ S2 \subseteq Signals /\ S3 \subseteq Signals /\ S4 \subseteq Signals
      /\ S5 \subseteq Signals /\ S6 \subseteq Signals
    BY DEF Signals
<1>3. /\ "quality" \notin {} /\ "liquidity" \notin S1 /\ "reversion" \notin S2 /\ "volatility" \notin S3
      /\ "volume" \notin S4 /\ "trend" \notin S5 /\ "momentum" \notin S6
    OBVIOUS
<1> DEFINE Adds(x, S) == IsFiniteSet(S \cup {x}) /\ T(S \cup {x}) = Weights[x] + T(S)
<1>4. ASSUME NEW S \in SUBSET Signals, IsFiniteSet(S), NEW x \in Signals, x \notin S PROVE Adds(x, S)
  <2>1. \A y \in S \cup {x} : Weights[y] \in Int
      BY <1>1
  <2>2. IsFiniteSet(S \cup {x})
      BY <1>4, FS_AddElement
  <2> QED
      BY <1>4, <2>1, <2>2, SumAdded
<1>5. T({}) = 0 /\ IsFiniteSet({})
    BY SumEmpty, FS_EmptySet
<1>6. T(Signals) = 100
    BY DiscoveryAssumption DEF SumFunction, SumFunctionOnSet, FoldFunction
<1>7. /\ "quality" \in Signals /\ "liquidity" \in Signals /\ "reversion" \in Signals /\ "volatility" \in Signals
      /\ "volume" \in Signals /\ "trend" \in Signals /\ "momentum" \in Signals
    BY DEF Signals
<1> HIDE DEF T, S1, S2, S3, S4, S5, S6, S7
<1>8. IsFiniteSet(S1) /\ T(S1) = Weights["quality"] + T({})
    BY <1>2, <1>3, <1>4, <1>5, <1>7
<1>9. IsFiniteSet(S2) /\ T(S2) = Weights["liquidity"] + T(S1)
    BY <1>2, <1>3, <1>4, <1>7, <1>8 DEF S2
<1>10. IsFiniteSet(S3) /\ T(S3) = Weights["reversion"] + T(S2)
    BY <1>2, <1>3, <1>4, <1>7, <1>9 DEF S3
<1>11. IsFiniteSet(S4) /\ T(S4) = Weights["volatility"] + T(S3)
    BY <1>2, <1>3, <1>4, <1>7, <1>10 DEF S4
<1>12. IsFiniteSet(S5) /\ T(S5) = Weights["volume"] + T(S4)
    BY <1>2, <1>3, <1>4, <1>7, <1>11 DEF S5
<1>13. IsFiniteSet(S6) /\ T(S6) = Weights["trend"] + T(S5)
    BY <1>2, <1>3, <1>4, <1>7, <1>12 DEF S6
<1>14. T(S7) = Weights["momentum"] + T(S6)
    BY <1>2, <1>3, <1>4, <1>7, <1>13 DEF S7
<1>15. T(S7) = 100
    BY <1>2, <1>6
<1> QED
    BY <1>1, <1>5, <1>7, <1>8, <1>9, <1>10, <1>11, <1>12, <1>13, <1>14, <1>15

(* However extreme a feature is, the total of an answer is between 0 and   *)
(* 100 points, as long as the momentum does not weigh more than the trend, *)
(* the volume, the volatility and the reversion together (scoring.py).     *)
THEOREM TotalsAreBounded ==
  ASSUME MomentumIsOutweighed, NEW name \in Names
  PROVE  Opportunity[name].total \in Hundred
<1> DEFINE W == Weighted(Scores(Seen[name]))
<1>1. W \in Int /\ 0 <= W /\ W <= 100000
  <2> DEFINE m == Weights["momentum"]
             t == Weights["trend"]
             v == Weights["volume"]
             a == Weights["volatility"]
             r == Weights["reversion"]
             l == Weights["liquidity"]
             q == Weights["quality"]
  <2>1. /\ m \in Nat /\ t \in Nat /\ v \in Nat /\ a \in Nat /\ r \in Nat /\ l \in Nat /\ q \in Nat
        /\ m + t + v + a + r + l + q = 100
      BY WeightsAddUp DEF Signals
  <2>2. m <= t + v + a + r
      BY DEF MomentumIsOutweighed
  <2>3. /\ W \in Int
        /\ W >= -100 * m + 100 * t + 200 * v + 300 * a + 300 * r + 200 * q
        /\ W <= 1100 * m + 900 * t + 850 * v + 750 * a + 700 * r + 1000 * l + 1000 * q
      BY WeightedRange
  <2> HIDE DEF W, m, t, v, a, r, l, q
  <2> QED
      BY <2>1, <2>2, <2>3, SMTT(30)
<1>2. Opportunity[name].total = (W + 5) \div 10
    BY DEF Opportunity, Candidate, TotalOf
<1> HIDE DEF W
<1> DEFINE points == (W + 5) \div 10
<1>3. points \in Int /\ 0 <= points /\ points <= 10000
    BY <1>1
<1>4. points \in Hundred
  <2> HIDE DEF points
  <2> QED
      BY <1>3 DEF Hundred
<1> QED
    BY <1>2, <1>4
=============================================================================
