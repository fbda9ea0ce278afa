---------------------------- MODULE CouncilProofs ----------------------------
(***************************************************************************)
(* What Council guarantees for any universe, any answers of the market     *)
(* gateway, any caps and any requests.                                     *)
(***************************************************************************)
EXTENDS Council, DiscoveryProofs

---------------------------------------------------------------------------
(* Ranking.  The symbols of a finite set are in the strict total order     *)
(* Before, so that their ranks are 0, 1, ... and Ranked is a sequence.     *)

Rankable(answer, S) ==
  IsFiniteSet(S) /\ S \subseteq Nat /\ \A s \in S : answer[s] \in Names

LEMMA BeforeOrder ==
    ASSUME NEW answer, NEW S, Rankable(answer, S)
    PROVE  /\ \A a \in S : ~Before(answer, a, a)
           /\ \A a, b \in S : a # b => Before(answer, a, b) \/ Before(answer, b, a)
           /\ \A a, b, c \in S : Before(answer, a, b) /\ Before(answer, b, c) => Before(answer, a, c)
<1> DEFINE T(s) == Opportunity[answer[s]].total
<1>1. \A s \in S : T(s) \in Int /\ s \in Int
    BY TotalsAreIntegers DEF Rankable
<1>2. \A a, b : Before(answer, a, b) <=> T(a) > T(b) \/ (T(a) = T(b) /\ a < b)
    BY DEF Before
<1> HIDE DEF T
<1> QED
    BY <1>1, <1>2

LEMMA SubRankable ==
    ASSUME NEW answer, NEW S, Rankable(answer, S), NEW T \in SUBSET S
    PROVE  Rankable(answer, T)
BY FS_Subset DEF Rankable

LEMMA RankType ==
    ASSUME NEW answer, NEW S, Rankable(answer, S), NEW s \in S
    PROVE  Rank(answer, S, s) \in Nat /\ Rank(answer, S, s) < Cardinality(S)
<1> DEFINE B == {t \in S : Before(answer, t, s)}
<1>1. B \in SUBSET (S \ {s})
    BY BeforeOrder
<1>2. IsFiniteSet(S)
    BY DEF Rankable
<1>3. IsFiniteSet(S \ {s}) /\ Cardinality(S \ {s}) = Cardinality(S) - 1
    BY <1>2, FS_RemoveElement
<1>4. IsFiniteSet(B) /\ Cardinality(B) <= Cardinality(S \ {s})
    BY <1>1, <1>3, FS_Subset
<1>5. Cardinality(B) \in Nat /\ Cardinality(S) \in Nat
    BY <1>2, <1>4, FS_CardinalityType
<1> QED
    BY <1>3, <1>4, <1>5 DEF Rank

LEMMA RankRises ==
    ASSUME NEW answer, NEW S, Rankable(answer, S), NEW a \in S, NEW b \in S, Before(answer, a, b)
    PROVE  Rank(answer, S, a) < Rank(answer, S, b)
<1> DEFINE A == {t \in S : Before(answer, t, a)}
           B == {t \in S : Before(answer, t, b)}
<1>1. a \notin A /\ A \cup {a} \in SUBSET B
    BY BeforeOrder
<1>2. IsFiniteSet(A) /\ IsFiniteSet(B)
  <2>1. A \in SUBSET S /\ B \in SUBSET S
      OBVIOUS
  <2> QED
      BY <2>1, FS_Subset DEF Rankable
<1>3. Cardinality(A \cup {a}) = Cardinality(A) + 1
    BY <1>1, <1>2, FS_AddElement
<1>4. Cardinality(A \cup {a}) <= Cardinality(B)
    BY <1>1, <1>2, FS_Subset
<1>5. Cardinality(A) \in Nat /\ Cardinality(B) \in Nat
    BY <1>2, FS_CardinalityType
<1> QED
    BY <1>3, <1>4, <1>5 DEF Rank

(* Each rank is somebody's: an injection of a finite set into one of the   *)
(* same size reaches all of it.                                            *)
LEMMA RankReached ==
    ASSUME NEW answer, NEW S, Rankable(answer, S), NEW i \in 1..Cardinality(S)
    PROVE  \E s \in S : Rank(answer, S, s) = i - 1
<1> DEFINE n == Cardinality(S)
           r == [s \in S |-> Rank(answer, S, s) + 1]
<1>1. IsFiniteSet(S) /\ n \in Nat
    BY FS_CardinalityType DEF Rankable
<1>2. r \in [S -> 1..n]
    BY <1>1, RankType
<1>3. \A a, b \in S : r[a] = r[b] => a = b
  <2> SUFFICES ASSUME NEW a \in S, NEW b \in S, r[a] = r[b], a # b PROVE FALSE
      OBVIOUS
  <2>1. Rank(answer, S, a) = Rank(answer, S, b)
    <3>1. Rank(answer, S, a) \in Int /\ Rank(answer, S, b) \in Int
        BY <1>1, RankType
    <3> QED
        BY <3>1
  <2>2. Before(answer, a, b) \/ Before(answer, b, a)
      BY BeforeOrder
  <2>3. Rank(answer, S, a) # Rank(answer, S, b)
      BY <1>1, <2>2, RankRises, RankType
  <2> QED
      BY <2>1, <2>3
<1>4. r \in Injection(S, 1..n)
    BY <1>2, <1>3 DEF Injection, IsInjective
<1>5. IsFiniteSet(1..n) /\ Cardinality(1..n) = n
    BY <1>1, FS_Interval
<1>6. r \in Surjection(S, 1..n)
    BY <1>4, <1>5, FS_Injection
<1>7. PICK s \in S : r[s] = i
    BY <1>6 DEF Surjection
<1>8. Rank(answer, S, s) \in Int /\ i \in Int
    BY <1>1, RankType
<1> QED
    BY <1>7, <1>8

LEMMA RankedFacts ==
    ASSUME NEW answer, NEW S, Rankable(answer, S)
    PROVE  LET R == Ranked(answer, S)
           IN  /\ R \in Seq(S) /\ Len(R) = Cardinality(S) /\ ToSet(R) = S
               /\ \A i, j \in 1..Len(R) : i < j => Before(answer, R[i], R[j])
<1> DEFINE R == Ranked(answer, S)
           n == Cardinality(S)
<1>1. n \in Nat
    BY FS_CardinalityType DEF Rankable
<1>2. R = [i \in 1..n |-> CHOOSE s \in S : Rank(answer, S, s) = i - 1]
    BY DEF Ranked
<1>3. \A i \in 1..n : R[i] \in S /\ Rank(answer, S, R[i]) = i - 1
    BY <1>2, RankReached
<1> HIDE DEF R
<1>4. R \in [1..n -> S]
    BY <1>2, <1>3
<1>5. R \in Seq(S) /\ Len(R) = n /\ DOMAIN R = 1..n
    BY <1>1, <1>4, SeqDef, LenProperties
<1>6. \A s \in S : \E i \in 1..n : R[i] = s
  <2> SUFFICES ASSUME NEW s \in S PROVE \E i \in 1..n : R[i] = s
      OBVIOUS
  <2> DEFINE k == Rank(answer, S, s) + 1
  <2>1. k \in 1..n /\ Rank(answer, S, s) \in Int
      BY <1>1, RankType
  <2>2. R[k] \in S /\ Rank(answer, S, R[k]) = Rank(answer, S, s)
      BY <1>3, <2>1
  <2>3. R[k] = s
      BY <1>1, <2>1, <2>2, BeforeOrder, RankRises
  <2> QED
      BY <2>1, <2>3
<1>7. ToSet(R) = S
    BY <1>3, <1>5, <1>6 DEF ToSet
<1>8. ASSUME NEW i \in 1..n, NEW j \in 1..n, i < j PROVE Before(answer, R[i], R[j])
  <2>1. R[i] \in S /\ R[j] \in S /\ Rank(answer, S, R[i]) = i - 1 /\ Rank(answer, S, R[j]) = j - 1
      BY <1>3, <1>8
  <2>2. ~Before(answer, R[j], R[i]) /\ R[i] # R[j]
      BY <1>1, <1>8, <2>1, RankRises
  <2> QED
      BY <2>1, <2>2, BeforeOrder
<1> QED
    BY <1>5, <1>7, <1>8 DEF R

LEMMA FirstOfFacts ==
    ASSUME NEW S, NEW seq \in Seq(S), NEW n \in Nat
    PROVE  LET F == FirstOf(n, seq)
           IN  /\ F \in Seq(S) /\ Len(F) = AtMost(Len(seq), n)
               /\ Len(F) \in Nat /\ Len(F) <= n /\ Len(F) <= Len(seq)
               /\ \A i \in 1..Len(F) : F[i] = seq[i]
<1> DEFINE k == AtMost(Len(seq), n)
<1>1. Len(seq) \in Nat /\ k \in Nat /\ k <= n /\ k <= Len(seq)
    BY LenProperties DEF AtMost
<1>2. SubSeq(seq, 1, k) \in Seq(S) /\ Len(SubSeq(seq, 1, k)) = k
      /\ \A i \in 1..k : SubSeq(seq, 1, k)[i] = seq[i]
    BY <1>1, SubSeqProperties
<1> QED
    BY <1>1, <1>2 DEF FirstOf

(* The first n of a ranking are before all others. *)
LEMMA BestOf ==
    ASSUME NEW answer, NEW S, Rankable(answer, S), NEW n \in Nat
    PROVE  LET F == FirstOf(n, Ranked(answer, S))
           IN  /\ F \in Seq(S) /\ Len(F) \in Nat /\ Len(F) <= n /\ ToSet(F) \subseteq S
               /\ \A i, j \in 1..Len(F) : i < j => Before(answer, F[i], F[j])
               /\ \A i, j \in 1..Len(F) : F[i] = F[j] => i = j
               /\ \A s \in S \ ToSet(F), f \in ToSet(F) : Before(answer, f, s)
<1> DEFINE R == Ranked(answer, S)
           F == FirstOf(n, R)
<1>1. R \in Seq(S) /\ ToSet(R) = S /\ \A i, j \in 1..Len(R) : i < j => Before(answer, R[i], R[j])
    BY RankedFacts
<1> HIDE DEF R
<1>2. /\ F \in Seq(S) /\ Len(F) = AtMost(Len(R), n)
      /\ Len(F) \in Nat /\ Len(F) <= n /\ Len(F) <= Len(R)
      /\ \A i \in 1..Len(F) : F[i] = R[i]
    BY <1>1, FirstOfFacts
<1> HIDE DEF F
<1>3. DOMAIN F = 1..Len(F) /\ DOMAIN R = 1..Len(R) /\ Len(R) \in Nat
    BY <1>1, <1>2, LenProperties
<1>4. ToSet(F) \subseteq S /\ \A i \in 1..Len(F) : F[i] \in S /\ R[i] \in S /\ i \in 1..Len(R)
    BY <1>1, <1>2, <1>3 DEF ToSet
<1>5. \A i, j \in 1..Len(F) : i < j => Before(answer, F[i], F[j])
    BY <1>1, <1>2, <1>4
<1>6. \A i, j \in 1..Len(F) : F[i] = F[j] => i = j
    BY <1>2, <1>4, <1>5, BeforeOrder
<1>7. ASSUME NEW s \in S \ ToSet(F), NEW f \in ToSet(F) PROVE Before(answer, f, s)
  <2>1. PICK i \in 1..Len(F) : f = F[i]
      BY <1>3 DEF ToSet
  <2>2. PICK j \in 1..Len(R) : s = R[j]
      BY <1>1, <1>3 DEF ToSet
  <2>3. j \notin 1..Len(F)
      BY <1>2, <1>3, <2>2 DEF ToSet
  <2>4. i < j /\ i \in 1..Len(R)
      BY <1>2, <1>3, <2>1, <2>2, <2>3
  <2> QED
      BY <1>1, <1>2, <2>1, <2>2, <2>4
<1> QED
    BY <1>2, <1>4, <1>5, <1>6, <1>7 DEF F, R

(* In a larger set one's rank is no better. *)
LEMMA RankGrows ==
    ASSUME NEW answer, NEW S, Rankable(answer, S), NEW T \in SUBSET S, NEW s
    PROVE  Rank(answer, T, s) <= Rank(answer, S, s)
<1> DEFINE A == {t \in T : Before(answer, t, s)}
           B == {t \in S : Before(answer, t, s)}
<1>1. A \in SUBSET B /\ B \in SUBSET S
    OBVIOUS
<1>2. IsFiniteSet(B)
    BY <1>1, FS_Subset DEF Rankable
<1>3. Cardinality(A) <= Cardinality(B)
    BY <1>1, <1>2, FS_Subset
<1> QED
    BY <1>3 DEF Rank

Kin(k, S, s) == {t \in S : k[t] = k[s]}

LEMMA DiversifiedFacts ==
    ASSUME NEW k, NEW answer, NEW S, Rankable(answer, S)
    PROVE  LET D == Diversified(k, answer, S)
           IN  /\ D \subseteq S /\ Rankable(answer, D)
               /\ \A s \in S \ D : Rank(answer, Kin(k, S, s), s) >= MaxPerGroup
               /\ \A s : Cardinality(Kin(k, D, s)) <= MaxPerGroup
<1> DEFINE D == Diversified(k, answer, S)
<1>1. D = {s \in S : Rank(answer, Kin(k, S, s), s) < MaxPerGroup}
    BY DEF Diversified, Kin
<1> HIDE DEF D
<1>2. D \subseteq S /\ Rankable(answer, D)
    BY <1>1, SubRankable
<1>3. MaxPerGroup \in Nat
    BY DiscoveryAssumption
<1>4. ASSUME NEW s \in S \ D PROVE Rank(answer, Kin(k, S, s), s) >= MaxPerGroup
  <2>1. Kin(k, S, s) \in SUBSET S /\ s \in Kin(k, S, s)
      BY DEF Kin
  <2>2. Rank(answer, Kin(k, S, s), s) \in Nat
      BY <2>1, SubRankable, RankType
  <2> QED
      BY <1>1, <1>3, <2>2
<1>5. ASSUME NEW s PROVE Cardinality(Kin(k, D, s)) <= MaxPerGroup
  <2> DEFINE E == Kin(k, D, s)
  <2>1. E \in SUBSET D /\ E \in SUBSET S
      BY <1>2 DEF Kin
  <2>2. Rankable(answer, E) /\ Cardinality(E) \in Nat
    <3>1. Rankable(answer, E)
        BY <2>1, SubRankable
    <3> QED
        BY <3>1, FS_CardinalityType DEF Rankable
  <2> SUFFICES ASSUME Cardinality(E) > MaxPerGroup PROVE FALSE
      BY <1>3, <2>2
  <2> HIDE DEF E
  <2>3. Cardinality(E) \in 1..Cardinality(E)
      BY <1>3, <2>2
  <2>4. PICK t \in E : Rank(answer, E, t) = Cardinality(E) - 1
      BY <2>2, <2>3, RankReached
  <2>5. t \in S /\ k[t] = k[s] /\ Rank(answer, Kin(k, S, t), t) < MaxPerGroup
      BY <1>1, <1>2, <2>1, <2>4 DEF E, Kin
  <2>6. E \in SUBSET Kin(k, S, t) /\ Kin(k, S, t) \in SUBSET S /\ t \in Kin(k, S, t)
      BY <2>1, <2>5 DEF E, Kin
  <2>7. Rankable(answer, Kin(k, S, t))
      BY <2>6, SubRankable
  <2>8. Rank(answer, E, t) <= Rank(answer, Kin(k, S, t), t) /\ Rank(answer, Kin(k, S, t), t) \in Nat
      BY <2>6, <2>7, RankGrows, RankType
  <2> QED
      BY <1>3, <2>2, <2>4, <2>5, <2>8
<1> QED
    BY <1>2, <1>4, <1>5 DEF D

(* Diversifying again what is left of a diversified set changes nothing.   *)
LEMMA DiversifiedAgain ==
    ASSUME NEW k, NEW answer, NEW S, Rankable(answer, S), NEW A \in SUBSET Diversified(k, answer, S)
    PROVE  Diversified(k, answer, A) = A
<1>1. A \in SUBSET S
    BY DEF Diversified
<1>2. MaxPerGroup \in Nat
    BY DiscoveryAssumption
<1>3. ASSUME NEW s \in A PROVE Rank(answer, Kin(k, A, s), s) < MaxPerGroup
  <2>1. Kin(k, A, s) \in SUBSET Kin(k, S, s) /\ Kin(k, S, s) \in SUBSET S /\ s \in Kin(k, A, s) /\ s \in Kin(k, S, s)
      BY <1>1 DEF Kin
  <2>2. Rankable(answer, Kin(k, S, s)) /\ Rankable(answer, Kin(k, A, s))
      BY <2>1, SubRankable
  <2>3. Rank(answer, Kin(k, S, s), s) < MaxPerGroup
      BY DEF Diversified, Kin
  <2>4. Rank(answer, Kin(k, A, s), s) <= Rank(answer, Kin(k, S, s), s)
      BY <2>1, <2>2, RankGrows
  <2>5. Rank(answer, Kin(k, A, s), s) \in Nat /\ Rank(answer, Kin(k, S, s), s) \in Nat
      BY <2>1, <2>2, RankType
  <2> QED
      BY <1>2, <2>3, <2>4, <2>5
<1> QED
    BY <1>3 DEF Diversified, Kin

---------------------------------------------------------------------------
(* What is decided about a synthetic candidate, stage by stage.            *)

Demos == {DemoCandidates[i] : i \in 1..5}
Risked(c) == DemoRisk(Analysis(c))
Instrumented(c) == DemoInstrument(Risked(c))
Concluded(c) == DemoExecution(Instrumented(c))

LEMMA DemosAre ==
    /\ DemoCandidates \in Seq(Demos) /\ Len(DemoCandidates) = 5
    /\ \A c \in Demos : /\ c.id \in {<<"candidate", s>> : s \in Tickers} /\ c.symbol \in Tickers
                        /\ c.direction \in {"BULLISH", "BEARISH"} /\ c.price \in Nat /\ c.price > 5
<1>1. Len(DemoCandidates) = 5 /\ DemoCandidates \in Seq(Demos)
    BY DEF DemoCandidates, Demos
<1>2. ASSUME NEW symbol \in Tickers, NEW direction \in {"BULLISH", "BEARISH"}, NEW price \in Nat, price > 5
      PROVE  LET c == Demo(symbol, direction, price)
             IN  /\ c.id \in {<<"candidate", s>> : s \in Tickers} /\ c.symbol \in Tickers
                 /\ c.direction \in {"BULLISH", "BEARISH"} /\ c.price \in Nat /\ c.price > 5
    BY <1>2 DEF Demo
<1>3. Demos = {Demo("SPY", "BULLISH", 51230), Demo("QQQ", "BULLISH", 48610), Demo("AAPL", "BEARISH", 22940),
               Demo("TSLA", "BULLISH", 31820), Demo("NVDA", "BULLISH", 12480)}
  <2>1. 1..5 = {1, 2, 3, 4, 5}
      OBVIOUS
  <2>2. Demos = {DemoCandidates[1], DemoCandidates[2], DemoCandidates[3], DemoCandidates[4], DemoCandidates[5]}
      BY <2>1 DEF Demos
  <2> QED
      BY <2>2 DEF DemoCandidates
<1>4. ASSUME NEW c \in Demos
      PROVE  \E symbol \in Tickers, direction \in {"BULLISH", "BEARISH"}, price \in Nat :
                price > 5 /\ c = Demo(symbol, direction, price)
    BY <1>3 DEF Tickers
<1> QED
    BY <1>1, <1>2, <1>4

Same(a, c) == a.id = c.id /\ a.symbol = c.symbol /\ a.direction = c.direction /\ a.price = c.price

LEMMA AnalysisIs ==
    ASSUME NEW c \in Demos
    PROVE  LET a == Analysis(c)
           IN a \in Analyses /\ Same(a, c) /\ a.order = None /\ a.status = "PENDING" /\ ~a.authorized
BY DemosAre DEF Analysis, Decision, Analyses, Same

LEMMA RiskedIs ==
    ASSUME NEW c \in Demos
    PROVE  LET a == Risked(c)
           IN /\ a \in Analyses /\ Same(a, c) /\ a.order = None /\ a.status = "PENDING" /\ ~a.authorized
              /\ a.risk \in {"APPROVED", "REDUCED", "REJECTED"}
              /\ a.risk # "REJECTED" => a.ceiling \in Nat
<1> DEFINE b == Analysis(c)
<1>1. b \in Analyses /\ Same(b, c) /\ b.order = None /\ b.status = "PENDING" /\ ~b.authorized
    BY AnalysisIs
<1>2. Risked(c) = DemoRisk(b)
    BY DEF Risked
<1> HIDE DEF b
<1>3. CASE b.symbol = "AAPL"
  <2>1. Risked(c) = [b EXCEPT !.risk = "REJECTED"]
      BY <1>2, <1>3 DEF DemoRisk
  <2> QED
      BY <1>1, <2>1 DEF Analyses, Same
<1>4. CASE b.symbol = "NVDA"
  <2> DEFINE b1 == [b EXCEPT !.risk = "REDUCED"]
             b2 == [b1 EXCEPT !.budget = 750]
             b3 == [b2 EXCEPT !.ceiling = 7500]
  <2>1. b1 \in Analyses /\ Same(b1, c) /\ b1.order = None /\ b1.status = "PENDING" /\ ~b1.authorized
        /\ b1.risk = "REDUCED"
      BY <1>1 DEF Analyses, Same
  <2> HIDE DEF b1
  <2>2. b2 \in Analyses /\ Same(b2, c) /\ b2.order = None /\ b2.status = "PENDING" /\ ~b2.authorized
        /\ b2.risk = "REDUCED"
      BY <2>1 DEF Analyses, Same
  <2> HIDE DEF b2
  <2>3. b3 \in Analyses /\ Same(b3, c) /\ b3.order = None /\ b3.status = "PENDING" /\ ~b3.authorized
        /\ b3.risk = "REDUCED" /\ b3.ceiling = 7500
      BY <2>2 DEF Analyses, Same
  <2>4. Risked(c) = b3
      BY <1>1, <1>2, <1>4 DEF DemoRisk, Analyses, b1, b2
  <2> HIDE DEF b3
  <2> QED
      BY <2>3, <2>4
<1>5. CASE b.symbol \notin {"AAPL", "NVDA"}
  <2> DEFINE b1 == [b EXCEPT !.risk = "APPROVED"]
             b2 == [b1 EXCEPT !.budget = 1000]
             b3 == [b2 EXCEPT !.ceiling = 5000]
  <2>1. b1 \in Analyses /\ Same(b1, c) /\ b1.order = None /\ b1.status = "PENDING" /\ ~b1.authorized
        /\ b1.risk = "APPROVED"
      BY <1>1 DEF Analyses, Same
  <2> HIDE DEF b1
  <2>2. b2 \in Analyses /\ Same(b2, c) /\ b2.order = None /\ b2.status = "PENDING" /\ ~b2.authorized
        /\ b2.risk = "APPROVED"
      BY <2>1 DEF Analyses, Same
  <2> HIDE DEF b2
  <2>3. b3 \in Analyses /\ Same(b3, c) /\ b3.order = None /\ b3.status = "PENDING" /\ ~b3.authorized
        /\ b3.risk = "APPROVED" /\ b3.ceiling = 5000
      BY <2>2 DEF Analyses, Same
  <2>4. Risked(c) = b3
      BY <1>1, <1>2, <1>5 DEF DemoRisk, Analyses, b1, b2
  <2> HIDE DEF b3
  <2> QED
      BY <2>3, <2>4
<1> QED
    BY <1>3, <1>4, <1>5

LEMMA StopType ==
    ASSUME NEW b \in Analyses, NEW reason \in StopReasons
    PROVE  [b EXCEPT !.instrument = "NO_TRADE", !.stop = reason, !.status = "STOPPED"] \in Analyses
<1> DEFINE b1 == [b EXCEPT !.instrument = "NO_TRADE"]
           b2 == [b1 EXCEPT !.stop = reason]
           b3 == [b2 EXCEPT !.status = "STOPPED"]
<1>1. b1 \in Analyses
    BY DEF Analyses
<1> HIDE DEF b1
<1>2. b2 \in Analyses
    BY <1>1 DEF Analyses
<1> HIDE DEF b2
<1>3. b3 \in Analyses
    BY <1>2 DEF Analyses
<1>4. b3 = [b EXCEPT !.instrument = "NO_TRADE", !.stop = reason, !.status = "STOPPED"]
    BY DEF Analyses, b1, b2
<1> QED
    BY <1>3, <1>4

LEMMA InstrumentedIs ==
    ASSUME NEW c \in Demos
    PROVE  LET a == Instrumented(c)
           IN /\ a \in Analyses /\ Same(a, c) /\ a.order = None /\ ~a.authorized /\ a.risk = Risked(c).risk
              /\ \/ a.instrument = "NO_TRADE" /\ a.stop # None /\ a.status = "STOPPED"
                 \/ /\ a.instrument = "STOCK" /\ a.risk \in {"APPROVED", "REDUCED"}
                    /\ a.planned = a.ceiling /\ a.ceiling \in Nat
              /\ a.risk = "REJECTED" => a.instrument = "NO_TRADE"
<1> DEFINE b == Risked(c)
<1>1. /\ b \in Analyses /\ Same(b, c) /\ b.order = None /\ b.status = "PENDING" /\ ~b.authorized
      /\ b.risk \in {"APPROVED", "REDUCED", "REJECTED"}
      /\ b.risk # "REJECTED" => b.ceiling \in Nat
    BY RiskedIs
<1>2. Instrumented(c) = DemoInstrument(b)
    BY DEF Instrumented
<1> HIDE DEF b
<1>3. \/ Instrumented(c) = [b EXCEPT !.instrument = "NO_TRADE", !.stop = "M4_RISK_REJECTED", !.status = "STOPPED"]
      \/ /\ b.risk # "REJECTED"
         /\ Instrumented(c) = [b EXCEPT !.instrument = "NO_TRADE", !.stop = "INSTRUMENT_NO_TRADE", !.status = "STOPPED"]
      \/ b.risk # "REJECTED" /\ Instrumented(c) = [b EXCEPT !.instrument = "STOCK", !.planned = b.ceiling]
    BY <1>1, <1>2 DEF DemoInstrument, Stopped
<1>4. None # "M4_RISK_REJECTED" /\ None # "INSTRUMENT_NO_TRADE"
    BY OrderAssumption DEF StopReasons
<1> DEFINE a == Instrumented(c)
<1> HIDE DEF a
<1>5. CASE a = [b EXCEPT !.instrument = "NO_TRADE", !.stop = "M4_RISK_REJECTED", !.status = "STOPPED"]
  <2>1. a \in Analyses
    <3>1. "M4_RISK_REJECTED" \in StopReasons
        BY DEF StopReasons
    <3> QED
        BY <1>1, <1>5, <3>1, StopType
  <2>2. a.risk = b.risk /\ a.instrument = "NO_TRADE" /\ a.stop # None /\ a.status = "STOPPED"
      BY <1>1, <1>4, <1>5 DEF Analyses
  <2>3. Same(a, c) /\ a.order = None /\ ~a.authorized
      BY <1>1, <1>5 DEF Analyses, Same
  <2> QED
      BY <2>1, <2>2, <2>3 DEF a, b
<1>6. CASE a = [b EXCEPT !.instrument = "NO_TRADE", !.stop = "INSTRUMENT_NO_TRADE", !.status = "STOPPED"]
  <2>1. a \in Analyses
    <3>1. "INSTRUMENT_NO_TRADE" \in StopReasons
        BY DEF StopReasons
    <3> QED
        BY <1>1, <1>6, <3>1, StopType
  <2>2. a.risk = b.risk /\ a.instrument = "NO_TRADE" /\ a.stop # None /\ a.status = "STOPPED"
      BY <1>1, <1>4, <1>6 DEF Analyses
  <2>3. Same(a, c) /\ a.order = None /\ ~a.authorized
      BY <1>1, <1>6 DEF Analyses, Same
  <2> QED
      BY <2>1, <2>2, <2>3 DEF a, b
<1>7. CASE b.risk # "REJECTED" /\ a = [b EXCEPT !.instrument = "STOCK", !.planned = b.ceiling]
  <2>1. b.risk \in {"APPROVED", "REDUCED"} /\ b.ceiling \in Nat
      BY <1>1, <1>7
  <2> DEFINE b1 == [b EXCEPT !.instrument = "STOCK"]
             b2 == [b1 EXCEPT !.planned = b.ceiling]
  <2>2. a \in Analyses /\ Same(a, c) /\ a.order = None /\ ~a.authorized
    <3>1. b1 \in Analyses /\ Same(b1, c) /\ b1.order = None /\ ~b1.authorized
        BY <1>1 DEF Analyses, Same
    <3>2. a = b2
        BY <1>1, <1>7 DEF Analyses
    <3> HIDE DEF b1
    <3> QED
        BY <2>1, <3>1, <3>2 DEF Analyses, Same
  <2>3. a.risk = b.risk /\ a.instrument = "STOCK" /\ a.planned = b.ceiling /\ a.ceiling = b.ceiling
      BY <1>1, <1>7 DEF Analyses
  <2> QED
      BY <2>1, <2>2, <2>3 DEF a, b
<1> QED
    BY <1>3, <1>5, <1>6, <1>7 DEF a

(* What is said of a complete run's analyses. *)
Proper(a) ==
  /\ ~a.authorized
  /\ (a.order # None) <=> (a.status = "COMPLETE")
  /\ a.order # None => /\ a.risk \in {"APPROVED", "REDUCED"} /\ a.instrument = "STOCK"
                       /\ a.order.notional <= a.ceiling
  /\ a.order = None => a.stop # None /\ a.code \in {"RISK_REJECTED", "UPSTREAM_NO_TRADE"}

LEMMA ConcludedIs ==
    ASSUME NEW c \in Demos
    PROVE  LET a == Concluded(c)
           IN a \in Analyses /\ a.id = c.id /\ a.risk = Risked(c).risk /\ Proper(a)
<1> DEFINE b == Instrumented(c)
           o == DemoOrder(b)
<1>1. /\ b \in Analyses /\ Same(b, c) /\ b.order = None /\ ~b.authorized /\ b.risk = Risked(c).risk
      /\ \/ b.instrument = "NO_TRADE" /\ b.stop # None /\ b.status = "STOPPED"
         \/ /\ b.instrument = "STOCK" /\ b.risk \in {"APPROVED", "REDUCED"}
            /\ b.planned = b.ceiling /\ b.ceiling \in Nat
      /\ b.risk = "REJECTED" => b.instrument = "NO_TRADE"
    BY InstrumentedIs
<1>2. Concluded(c) = DemoExecution(b)
    BY DEF Concluded
<1>3. b.price \in Nat /\ b.price > 5 /\ b.direction \in {"BULLISH", "BEARISH"}
    BY <1>1, DemosAre DEF Same
<1> HIDE DEF b
<1>4. CASE b.instrument = "NO_TRADE"
  <2>1. \/ Concluded(c) = [b EXCEPT !.code = "RISK_REJECTED"]
        \/ Concluded(c) = [b EXCEPT !.code = "UPSTREAM_NO_TRADE"]
      BY <1>2, <1>4 DEF DemoExecution
  <2> QED
      BY <1>1, <1>4, <2>1 DEF Analyses, Same, Proper
<1>5. CASE b.instrument = "STOCK"
  <2>1. b.risk \in {"APPROVED", "REDUCED"} /\ b.planned = b.ceiling /\ b.ceiling \in Nat
      BY <1>1, <1>5
  <2>2. o \in Orders /\ o.notional = b.ceiling
      BY <1>3, <2>1 DEF DemoOrder, Orders
  <2>3. o # None
      BY <2>2, OrderAssumption
  <2> HIDE DEF o
  <2>4. Concluded(c) = [b EXCEPT !.order = o, !.code = "EXECUTION_DISABLED", !.status = "COMPLETE"]
      BY <1>2, <1>5, <2>1 DEF DemoExecution, o
  <2> DEFINE a == Concluded(c)
  <2> HIDE DEF a
  <2>5. a = [b EXCEPT !.order = o, !.code = "EXECUTION_DISABLED", !.status = "COMPLETE"]
      BY <2>4 DEF a
  <2>6. a \in Analyses /\ a.id = c.id /\ a.risk = b.risk
    <3> DEFINE b1 == [b EXCEPT !.order = o]
               b2 == [b1 EXCEPT !.code = "EXECUTION_DISABLED"]
               b3 == [b2 EXCEPT !.status = "COMPLETE"]
    <3>1. b1 \in Analyses /\ b1.id = c.id /\ b1.risk = b.risk
        BY <1>1, <2>2 DEF Analyses, Same
    <3>2. a = b3
        BY <1>1, <2>5 DEF Analyses
    <3> HIDE DEF b1
    <3>3. b2 \in Analyses /\ b2.id = c.id /\ b2.risk = b.risk
        BY <3>1 DEF Analyses
    <3> HIDE DEF b2
    <3> QED
        BY <3>2, <3>3 DEF Analyses
  <2>7. /\ ~a.authorized /\ a.order = o /\ a.status = "COMPLETE" /\ a.instrument = "STOCK"
        /\ a.ceiling = b.ceiling
      BY <1>1, <1>5, <2>5 DEF Analyses
  <2>8. o.notional <= a.ceiling
      BY <2>1, <2>2, <2>7
  <2>9. Proper(a)
      BY <2>1, <2>3, <2>6, <2>7, <2>8 DEF Proper
  <2> QED
      BY <1>1, <2>6, <2>9 DEF a
<1> QED
    BY <1>1, <1>4, <1>5

---------------------------------------------------------------------------
(* The run.  RunOK says, stage by stage, how far its analyses are; those   *)
(* of a live run never begin.                                              *)

Unnamed(candidates) ==
  candidates \in Seq({candidates[i] : i \in 1..Len(candidates)})
    /\ \A i \in 1..Len(candidates) : candidates[i].id = None
Chosen(r) == Slice(r.candidates, r.max)
Later == {"RISK", "INSTRUMENT", "EXECUTION_PLANNING", "COMPLETE"}
Approved(r, n) == {i \in 1..n : Approves(Risked(Chosen(r)[i]))}

IsRun(r) ==
  r = [status |-> r.status, demo |-> r.demo, max |-> r.max, candidates |-> r.candidates,
       discovered |-> r.discovered, analyzed |-> r.analyzed, analyses |-> r.analyses,
       done |-> r.done, approved |-> r.approved, rejected |-> r.rejected]

RunTypes(r) ==
  /\ IsRun(r)
  /\ r.status \in {"DISCOVERING", "COMMITTEE", "FAILED"} \cup Later
  /\ r.demo \in BOOLEAN /\ r.max \in Int
  /\ r.demo => r.candidates \in Seq(Demos)
  /\ ~r.demo => Unnamed(r.candidates)
  /\ r.analyses \in Seq(Analyses)
  /\ r.discovered \in Nat /\ r.done \in Nat /\ r.approved \in Nat /\ r.rejected \in Nat

(* How many there are, stage by stage. *)
Begun(r) ==
  /\ r.status \in {"DISCOVERING", "FAILED"} =>
       r.discovered <= Len(r.candidates) /\ Len(r.analyses) <= Len(r.candidates)
         /\ r.done <= Len(r.candidates) /\ r.approved = 0 /\ r.rejected = 0
  /\ r.status = "DISCOVERING" => r.candidates = <<>> /\ r.analyses = <<>> /\ r.done = 0
  /\ r.status = "COMMITTEE" =>
       /\ Len(r.analyses) = r.done /\ r.done <= Len(Chosen(r)) /\ r.approved = 0 /\ r.rejected = 0
       /\ ~r.demo => r.done = 0
       /\ \A i \in 1..r.done : r.analyses[i] = Analysis(Chosen(r)[i])
  /\ r.status \in Later =>
       /\ Len(r.analyses) = Len(Chosen(r)) /\ r.done <= Len(r.analyses)
       /\ ~r.demo => Len(r.analyses) = 0
  /\ r.status \in {"COMMITTEE"} \cup Later =>
       /\ r.discovered = Len(r.candidates)
       /\ r.analyzed = IF Len(r.candidates) < r.max THEN Len(r.candidates) ELSE r.max

(* Up to the one in turn the analyses are what the stage makes of them,    *)
(* from there on what the stage before it made of them.                    *)
Carried(r) ==
  \A i \in 1..Len(r.analyses) :
    LET c == Chosen(r)[i]
    IN /\ r.status = "RISK" => r.analyses[i] = IF i <= r.done THEN Risked(c) ELSE Analysis(c)
       /\ r.status = "INSTRUMENT" => r.analyses[i] = IF i <= r.done THEN Instrumented(c) ELSE Risked(c)
       /\ r.status = "EXECUTION_PLANNING" =>
            r.analyses[i] = IF i <= r.done THEN Concluded(c) ELSE Instrumented(c)
       /\ r.status = "COMPLETE" => r.analyses[i] = Concluded(c)

Counted(r) ==
  LET n == IF r.status = "RISK" THEN r.done ELSE Len(r.analyses)
  IN r.status \in Later => r.approved = Cardinality(Approved(r, n)) /\ r.approved + r.rejected = n

RunOK(r) == RunTypes(r) /\ Begun(r) /\ Carried(r) /\ Counted(r)

LEMMA ChosenFacts ==
    ASSUME NEW r, NEW S, r.candidates \in Seq(S), r.max \in Int
    PROVE  /\ Chosen(r) \in Seq(S) /\ Len(Chosen(r)) \in Nat /\ Len(r.candidates) \in Nat
           /\ Len(Chosen(r)) <= Len(r.candidates)
           /\ \A i \in 1..Len(Chosen(r)) : Chosen(r)[i] = r.candidates[i]
           /\ r.max >= 0 => Len(Chosen(r)) = IF Len(r.candidates) < r.max THEN Len(r.candidates) ELSE r.max
<1> DEFINE n == IF r.max >= 0 THEN r.max ELSE AtLeast(0, Len(r.candidates) + r.max)
<1>1. Len(r.candidates) \in Nat /\ n \in Nat
    BY LenProperties DEF AtLeast
<1>2. Chosen(r) = FirstOf(n, r.candidates)
    BY DEF Chosen, Slice
<1> HIDE DEF n
<1>3. /\ Chosen(r) \in Seq(S) /\ Len(Chosen(r)) = AtMost(Len(r.candidates), n)
      /\ Len(Chosen(r)) \in Nat /\ Len(Chosen(r)) <= Len(r.candidates)
      /\ \A i \in 1..Len(Chosen(r)) : Chosen(r)[i] = r.candidates[i]
    BY <1>1, <1>2, FirstOfFacts
<1>4. r.max >= 0 => n = r.max
    BY DEF n
<1> QED
    BY <1>1, <1>3, <1>4 DEF AtMost

LEMMA ChosenRun ==
    ASSUME NEW r, RunTypes(r)
    PROVE  /\ Len(Chosen(r)) \in Nat /\ Len(r.candidates) \in Nat /\ Len(r.analyses) \in Nat
           /\ Len(Chosen(r)) <= Len(r.candidates)
           /\ DOMAIN Chosen(r) = 1..Len(Chosen(r)) /\ DOMAIN r.analyses = 1..Len(r.analyses)
           /\ r.demo => \A i \in 1..Len(Chosen(r)) : Chosen(r)[i] \in Demos
           /\ ~r.demo => \A i \in 1..Len(Chosen(r)) : Chosen(r)[i].id = None
           /\ r.max >= 0 => Len(Chosen(r)) = IF Len(r.candidates) < r.max THEN Len(r.candidates) ELSE r.max
<1> DEFINE S == IF r.demo THEN Demos ELSE {r.candidates[i] : i \in 1..Len(r.candidates)}
<1>1. r.candidates \in Seq(S) /\ r.max \in Int /\ r.analyses \in Seq(Analyses)
    BY DEF RunTypes, Unnamed
<1>2. ~r.demo => \A i \in 1..Len(r.candidates) : r.candidates[i].id = None
    BY DEF RunTypes, Unnamed
<1>3. r.demo => S = Demos
    OBVIOUS
<1> HIDE DEF S
<1>4. /\ Chosen(r) \in Seq(S) /\ Len(Chosen(r)) \in Nat /\ Len(r.candidates) \in Nat
      /\ Len(Chosen(r)) <= Len(r.candidates)
      /\ \A i \in 1..Len(Chosen(r)) : Chosen(r)[i] = r.candidates[i]
      /\ r.max >= 0 => Len(Chosen(r)) = IF Len(r.candidates) < r.max THEN Len(r.candidates) ELSE r.max
    BY <1>1, ChosenFacts
<1>5. DOMAIN Chosen(r) = 1..Len(Chosen(r)) /\ DOMAIN r.analyses = 1..Len(r.analyses) /\ Len(r.analyses) \in Nat
      /\ \A i \in 1..Len(Chosen(r)) : Chosen(r)[i] \in S
    BY <1>1, <1>4, LenProperties
<1>6. \A i \in 1..Len(Chosen(r)) : i \in 1..Len(r.candidates)
    BY <1>4
<1> QED
    BY <1>2, <1>3, <1>4, <1>5, <1>6

(* A record that only differs from r in what is given. *)
Like(q, r) ==
  /\ IsRun(q) /\ q.demo = r.demo /\ q.max = r.max
Kept(q, r) ==
  /\ Like(q, r) /\ q.candidates = r.candidates /\ q.discovered = r.discovered /\ q.analyzed = r.analyzed

LEMMA KeptTypes ==
    ASSUME NEW r, NEW q, RunTypes(r), Kept(q, r)
    PROVE  /\ Chosen(q) = Chosen(r)
           /\ q.demo \in BOOLEAN /\ q.max \in Int /\ q.discovered \in Nat
           /\ q.demo => q.candidates \in Seq(Demos)
           /\ ~q.demo => Unnamed(q.candidates)
BY DEF RunTypes, Kept, Like, Chosen

LEMMA StartOK ==
    ASSUME NEW demo \in BOOLEAN, NEW max \in Int
    PROVE  RunOK([status |-> "DISCOVERING", demo |-> demo, max |-> max,
                  candidates |-> <<>>, discovered |-> 0, analyzed |-> 0, analyses |-> <<>>,
                  done |-> 0, approved |-> 0, rejected |-> 0])
<1> DEFINE r == [status |-> "DISCOVERING", demo |-> demo, max |-> max,
                 candidates |-> <<>>, discovered |-> 0, analyzed |-> 0, analyses |-> <<>>,
                 done |-> 0, approved |-> 0, rejected |-> 0]
<1>1. /\ IsRun(r) /\ r.status = "DISCOVERING" /\ r.demo = demo /\ r.max = max /\ r.candidates = <<>>
      /\ r.discovered = 0 /\ r.analyses = <<>> /\ r.done = 0 /\ r.approved = 0 /\ r.rejected = 0
    BY DEF IsRun
<1> HIDE DEF r
<1>2. RunTypes(r)
    BY <1>1 DEF RunTypes, Unnamed
<1>3. Len(r.candidates) = 0 /\ Len(r.analyses) = 0
    BY <1>1
<1>4. RunOK(r)
    BY <1>1, <1>2, <1>3 DEF RunOK, Begun, Carried, Counted, Later
<1> QED
    BY <1>4 DEF r

LEMMA FailOK ==
    ASSUME NEW r, RunOK(r), r.status \in {"DISCOVERING", "COMMITTEE"}
    PROVE  RunOK([r EXCEPT !.status = "FAILED"])
<1> DEFINE q == [r EXCEPT !.status = "FAILED"]
<1>1. /\ Kept(q, r) /\ q.status = "FAILED" /\ q.analyses = r.analyses /\ q.done = r.done
      /\ q.approved = r.approved /\ q.rejected = r.rejected
    BY DEF RunOK, RunTypes, IsRun, Kept, Like
<1> HIDE DEF q
<1>2. RunTypes(q)
    BY <1>1, KeptTypes DEF RunOK, RunTypes, Kept, Like
<1>3. Begun(q)
    BY <1>1, ChosenRun DEF RunOK, Begun, Kept, Later
<1>4. Carried(q) /\ Counted(q)
    BY <1>1 DEF Carried, Counted, Later
<1>5. RunOK(q)
    BY <1>2, <1>3, <1>4 DEF RunOK
<1> QED
    BY <1>5 DEF q

LEMMA DiscoveredOK ==
    ASSUME NEW r, RunOK(r), r.status = "DISCOVERING", NEW candidates,
           r.demo => candidates \in Seq(Demos), ~r.demo => Unnamed(candidates)
    PROVE  RunOK([r EXCEPT !.candidates = candidates, !.discovered = Len(candidates),
                           !.analyzed = IF Len(candidates) < r.max THEN Len(candidates) ELSE r.max,
                           !.status = "COMMITTEE"])
<1> DEFINE some == IF Len(candidates) < r.max THEN Len(candidates) ELSE r.max
           q == [r EXCEPT !.candidates = candidates, !.discovered = Len(candidates),
                          !.analyzed = some, !.status = "COMMITTEE"]
<1>1. Len(candidates) \in Nat
    BY LenProperties DEF RunOK, RunTypes, Unnamed
<1>2. /\ Like(q, r) /\ q.status = "COMMITTEE" /\ q.candidates = candidates
      /\ q.discovered = Len(candidates) /\ q.analyzed = some
      /\ q.analyses = r.analyses /\ q.done = r.done /\ q.approved = r.approved /\ q.rejected = r.rejected
  <2>1. IsRun(r)
      BY DEF RunOK, RunTypes
  <2> HIDE DEF some
  <2> DEFINE q1 == [r EXCEPT !.candidates = candidates]
             q2 == [q1 EXCEPT !.discovered = Len(candidates)]
             q3 == [q2 EXCEPT !.analyzed = some]
             q4 == [q3 EXCEPT !.status = "COMMITTEE"]
  <2>2. q = q4
      BY <2>1 DEF IsRun
  <2>3. Like(q1, r) /\ q1.candidates = candidates
        /\ q1.analyses = r.analyses /\ q1.done = r.done /\ q1.approved = r.approved /\ q1.rejected = r.rejected
      BY <2>1 DEF IsRun, Like
  <2> HIDE DEF q, q1
  <2>4. Like(q2, r) /\ q2.candidates = candidates /\ q2.discovered = Len(candidates)
        /\ q2.analyses = r.analyses /\ q2.done = r.done /\ q2.approved = r.approved /\ q2.rejected = r.rejected
      BY <2>3 DEF IsRun, Like
  <2> HIDE DEF q2
  <2>5. Like(q3, r) /\ q3.candidates = candidates /\ q3.discovered = Len(candidates) /\ q3.analyzed = some
        /\ q3.analyses = r.analyses /\ q3.done = r.done /\ q3.approved = r.approved /\ q3.rejected = r.rejected
      BY <2>4 DEF IsRun, Like
  <2> HIDE DEF q3
  <2> QED
      BY <2>2, <2>5 DEF IsRun, Like
<1> HIDE DEF q
<1>3. RunTypes(q)
    BY <1>1, <1>2 DEF RunOK, RunTypes, Like
<1>4. q.analyses = <<>> /\ q.done = 0 /\ q.approved = 0 /\ q.rejected = 0 /\ Len(q.analyses) = 0
    BY <1>2 DEF RunOK, Begun
<1>5. Begun(q)
    BY <1>2, <1>3, <1>4, ChosenRun DEF Begun, Later, Like
<1>6. Carried(q) /\ Counted(q)
    BY <1>2, <1>4 DEF Carried, Counted, Later
<1>7. RunOK(q)
    BY <1>3, <1>5, <1>6 DEF RunOK
<1> QED
    BY <1>7 DEF q

LEMMA DeliberateOK ==
    ASSUME NEW r, RunOK(r), r.status = "COMMITTEE", r.done < Len(Chosen(r)), Chosen(r)[r.done + 1].id # None
    PROVE  RunOK([r EXCEPT !.analyses = Append(@, Analysis(Chosen(r)[r.done + 1])), !.done = @ + 1])
<1> DEFINE n == r.done + 1
           a == Analysis(Chosen(r)[n])
           q == [r EXCEPT !.analyses = Append(@, a), !.done = @ + 1]
<1>1. RunTypes(r) /\ r.done \in Nat /\ r.analyses \in Seq(Analyses) /\ Len(r.analyses) = r.done
      /\ r.approved = 0 /\ r.rejected = 0
    BY DEF RunOK, RunTypes, Begun
<1>2. n \in 1..Len(Chosen(r)) /\ r.demo
    BY <1>1, ChosenRun DEF RunTypes
<1>3. Chosen(r)[n] \in Demos
    BY <1>1, <1>2, ChosenRun
<1>4. a \in Analyses
    BY <1>3, AnalysisIs
<1> HIDE DEF a
<1>5. /\ Kept(q, r) /\ q.status = "COMMITTEE" /\ q.analyses = Append(r.analyses, a) /\ q.done = n
      /\ q.approved = r.approved /\ q.rejected = r.rejected
  <2>1. IsRun(r)
      BY <1>1 DEF RunTypes
  <2> DEFINE more == Append(r.analyses, a)
             q1 == [r EXCEPT !.analyses = more]
             q2 == [q1 EXCEPT !.done = n]
  <2>2. q = q2
      BY <2>1 DEF IsRun
  <2> HIDE DEF more
  <2>3. Kept(q1, r) /\ q1.status = r.status /\ q1.analyses = more
        /\ q1.done = r.done /\ q1.approved = r.approved /\ q1.rejected = r.rejected
      BY <2>1 DEF IsRun, Kept, Like
  <2> HIDE DEF q, q1
  <2> QED
      BY <2>2, <2>3 DEF IsRun, Kept, Like, more
<1> HIDE DEF q
<1>6. /\ q.analyses \in Seq(Analyses) /\ Len(q.analyses) = n /\ q.analyses[n] = a
      /\ \A i \in 1..r.done : q.analyses[i] = r.analyses[i]
    BY <1>1, <1>4, <1>5, AppendProperties
<1>7. RunTypes(q) /\ Chosen(q) = Chosen(r)
    BY <1>1, <1>5, <1>6, KeptTypes DEF RunTypes, Kept, Like
<1>8. ASSUME NEW i \in 1..q.done PROVE q.analyses[i] = Analysis(Chosen(q)[i])
  <2>1. CASE i = n
      BY <1>6, <1>7, <2>1 DEF a
  <2>2. CASE i \in 1..r.done
      BY <1>6, <1>7, <2>2 DEF RunOK, Begun
  <2> QED
      BY <1>1, <1>5, <2>1, <2>2
<1>9. Begun(q)
    BY <1>1, <1>2, <1>5, <1>6, <1>7, <1>8 DEF RunOK, Begun, Kept, Like, Later
<1>10. Carried(q) /\ Counted(q)
    BY <1>5 DEF Carried, Counted, Later
<1>11. RunOK(q)
    BY <1>7, <1>9, <1>10 DEF RunOK
<1> QED
    BY <1>11 DEF q, a

Turns(r) == r.status \in {"RISK", "INSTRUMENT", "EXECUTION_PLANNING"} /\ r.done < Len(r.analyses)

LEMMA TurnIs ==
    ASSUME NEW r, RunOK(r), Turns(r)
    PROVE  LET n == r.done + 1
               c == Chosen(r)[n]
           IN  /\ c \in Demos /\ r.demo /\ r.done \in Nat /\ n \in 1..Len(r.analyses)
               /\ r.status = "RISK" => r.analyses[n] = Analysis(c)
               /\ r.status = "INSTRUMENT" => r.analyses[n] = Risked(c)
               /\ r.status = "EXECUTION_PLANNING" => r.analyses[n] = Instrumented(c)
<1> DEFINE n == r.done + 1
<1>1. RunTypes(r) /\ r.done \in Nat /\ Len(r.analyses) \in Nat /\ n \in 1..Len(r.analyses) /\ ~(n <= r.done)
    BY ChosenRun DEF RunOK, RunTypes, Turns
<1>2. r.demo /\ Len(r.analyses) = Len(Chosen(r))
    BY <1>1 DEF RunOK, RunTypes, Begun, Turns, Later
<1>3. Chosen(r)[n] \in Demos
    BY <1>1, <1>2, ChosenRun
<1> HIDE DEF n
<1>4. /\ r.status = "RISK" => r.analyses[n] = Analysis(Chosen(r)[n])
      /\ r.status = "INSTRUMENT" => r.analyses[n] = Risked(Chosen(r)[n])
      /\ r.status = "EXECUTION_PLANNING" => r.analyses[n] = Instrumented(Chosen(r)[n])
    BY <1>1 DEF RunOK, Carried
<1> QED
    BY <1>1, <1>2, <1>3, <1>4 DEF n

(* A stage replaces the analysis whose turn it is. *)
LEMMA TurnOK ==
    ASSUME NEW r, RunOK(r), Turns(r), NEW a \in Analyses, NEW q, Kept(q, r), q.status = r.status,
           q.analyses = [r.analyses EXCEPT ![r.done + 1] = a], q.done = r.done + 1,
           q.approved \in Nat, q.rejected \in Nat, Counted(q),
           r.status = "RISK" => a = Risked(Chosen(r)[r.done + 1]),
           r.status = "INSTRUMENT" => a = Instrumented(Chosen(r)[r.done + 1]),
           r.status = "EXECUTION_PLANNING" => a = Concluded(Chosen(r)[r.done + 1])
    PROVE  RunOK(q)
<1> DEFINE n == r.done + 1
<1>1. RunTypes(r) /\ r.done \in Nat /\ Len(r.analyses) \in Nat /\ n \in 1..Len(r.analyses)
      /\ r.analyses \in Seq(Analyses) /\ r.demo /\ Len(r.analyses) = Len(Chosen(r))
    BY ChosenRun, TurnIs DEF RunOK, RunTypes, Begun, Turns, Later
<1>2. /\ q.analyses \in Seq(Analyses) /\ Len(q.analyses) = Len(r.analyses)
      /\ \A i \in 1..Len(r.analyses) : q.analyses[i] = IF i = n THEN a ELSE r.analyses[i]
    BY <1>1, ExceptSeq
<1>3. RunTypes(q) /\ Chosen(q) = Chosen(r)
  <2>1. q.done \in Nat /\ IsRun(q) /\ q.status \in {"DISCOVERING", "COMMITTEE", "FAILED"} \cup Later
      BY <1>1 DEF Kept, Like, RunTypes
  <2>2. /\ Chosen(q) = Chosen(r)
        /\ q.demo \in BOOLEAN /\ q.max \in Int /\ q.discovered \in Nat
        /\ q.demo => q.candidates \in Seq(Demos)
        /\ ~q.demo => Unnamed(q.candidates)
      BY <1>1, KeptTypes
  <2> QED
      BY <1>2, <2>1, <2>2 DEF RunTypes
<1>4. Begun(q)
    BY <1>1, <1>2, <1>3 DEF RunOK, Begun, Kept, Like, Later, Turns
<1>5. ASSUME NEW i \in 1..Len(q.analyses)
      PROVE  LET c == Chosen(q)[i]
             IN /\ q.status = "RISK" => q.analyses[i] = IF i <= q.done THEN Risked(c) ELSE Analysis(c)
                /\ q.status = "INSTRUMENT" => q.analyses[i] = IF i <= q.done THEN Instrumented(c) ELSE Risked(c)
                /\ q.status = "EXECUTION_PLANNING" =>
                     q.analyses[i] = IF i <= q.done THEN Concluded(c) ELSE Instrumented(c)
                /\ q.status = "COMPLETE" => q.analyses[i] = Concluded(c)
  <2> DEFINE c == Chosen(r)[i]
  <2>1. /\ r.status = "RISK" => r.analyses[i] = IF i <= r.done THEN Risked(c) ELSE Analysis(c)
        /\ r.status = "INSTRUMENT" => r.analyses[i] = IF i <= r.done THEN Instrumented(c) ELSE Risked(c)
        /\ r.status = "EXECUTION_PLANNING" =>
             r.analyses[i] = IF i <= r.done THEN Concluded(c) ELSE Instrumented(c)
      BY <1>2 DEF RunOK, Carried
  <2>2. q.status # "COMPLETE"
      BY DEF Turns
  <2>3. CASE i = n
      BY <1>1, <1>2, <1>3, <2>2, <2>3
  <2>4. CASE i # n
    <3>1. q.analyses[i] = r.analyses[i] /\ (i <= q.done <=> i <= r.done)
        BY <1>1, <1>2, <2>4
    <3> QED
        BY <1>3, <2>1, <2>2, <3>1
  <2> QED
      BY <2>3, <2>4
<1>6. Carried(q)
    BY <1>5 DEF Carried
<1> QED
    BY <1>3, <1>4, <1>6 DEF RunOK

LEMMA EvaluateOK ==
    ASSUME NEW r, RunOK(r), Turns(r), r.status = "RISK", NEW a, a = DemoRisk(r.analyses[r.done + 1]),
           NEW k, k = IF Approves(a) THEN 1 ELSE 0
    PROVE  RunOK([r EXCEPT !.analyses[r.done + 1] = a, !.done = @ + 1,
                           !.approved = @ + k, !.rejected = @ + 1 - k])
<1> DEFINE n == r.done + 1
           q1 == [r EXCEPT !.analyses[n] = a]
           q2 == [q1 EXCEPT !.done = @ + 1]
           q3 == [q2 EXCEPT !.approved = @ + k]
           q4 == [q3 EXCEPT !.rejected = @ + 1 - k]
           q == [r EXCEPT !.analyses[n] = a, !.done = @ + 1, !.approved = @ + k, !.rejected = @ + 1 - k]
<1>1. IsRun(r) /\ r.done \in Nat /\ r.approved \in Nat /\ r.rejected \in Nat
    BY DEF RunOK, RunTypes
<1>2. q = q4
    BY <1>1 DEF IsRun
<1>3. /\ Kept(q1, r) /\ q1.status = r.status /\ q1.analyses = [r.analyses EXCEPT ![n] = a]
      /\ q1.done = r.done /\ q1.approved = r.approved /\ q1.rejected = r.rejected
    BY <1>1 DEF IsRun, Kept, Like
<1> HIDE DEF q, q1
<1>4. /\ Kept(q2, r) /\ q2.status = r.status /\ q2.analyses = [r.analyses EXCEPT ![n] = a]
      /\ q2.done = n /\ q2.approved = r.approved /\ q2.rejected = r.rejected
    BY <1>3 DEF IsRun, Kept, Like
<1> HIDE DEF q2
<1>5. /\ Kept(q3, r) /\ q3.status = r.status /\ q3.analyses = [r.analyses EXCEPT ![n] = a]
      /\ q3.done = n /\ q3.approved = r.approved + k /\ q3.rejected = r.rejected
    BY <1>4 DEF IsRun, Kept, Like
<1> HIDE DEF q3
<1>6. /\ Kept(q, r) /\ q.status = r.status /\ q.analyses = [r.analyses EXCEPT ![n] = a]
      /\ q.done = n /\ q.approved = r.approved + k /\ q.rejected = r.rejected + 1 - k
    BY <1>2, <1>5 DEF IsRun, Kept, Like
<1>7. a = Risked(Chosen(r)[n]) /\ a \in Analyses
    BY TurnIs, RiskedIs DEF Risked
<1>8. k \in {0, 1}
    OBVIOUS
<1>9. q.approved = Cardinality(Approved(q, n)) /\ q.approved + q.rejected = n
  <2>1. r.approved = Cardinality(Approved(r, r.done)) /\ r.approved + r.rejected = r.done
      BY DEF RunOK, Counted, Later
  <2>2. Approved(q, n) = IF Approves(a) THEN Approved(r, r.done) \cup {n} ELSE Approved(r, r.done)
    <3>1. Chosen(q) = Chosen(r)
        BY <1>6, KeptTypes DEF RunOK
    <3>2. 1..n = (1..r.done) \cup {n}
        BY <1>1
    <3> QED
        BY <1>7, <3>1, <3>2 DEF Approved
  <2>3. n \notin Approved(r, r.done) /\ IsFiniteSet(Approved(r, r.done))
    <3>1. Approved(r, r.done) \in SUBSET (1..r.done) /\ n \notin 1..r.done
        BY <1>1 DEF Approved
    <3>2. IsFiniteSet(1..r.done)
      <4>1. 0 \in Int /\ 1 \in Int /\ r.done \in Int
          BY <1>1
      <4> QED
          BY <4>1, FS_Interval
    <3> QED
        BY <3>1, <3>2, FS_Subset
  <2>4. Cardinality(Approved(q, n)) = Cardinality(Approved(r, r.done)) + k
    <3> DEFINE A == Approved(r, r.done)
    <3>1. Cardinality(A) \in Nat /\ Cardinality(A \cup {n}) = Cardinality(A) + 1
        BY <2>3, FS_AddElement, FS_CardinalityType
    <3> QED
        BY <2>2, <3>1
  <2> QED
      BY <1>1, <1>6, <1>8, <2>1, <2>4
<1>10. Counted(q)
    BY <1>6, <1>9 DEF Counted
<1>11. q.approved \in Nat /\ q.rejected \in Nat
    BY <1>1, <1>6, <1>8
<1>12. RunOK(q)
    BY <1>6, <1>7, <1>10, <1>11, TurnOK
<1> QED
    BY <1>12 DEF q

LEMMA PutOK ==
    ASSUME NEW r, RunOK(r), Turns(r), NEW a,
           \/ r.status = "INSTRUMENT" /\ a = DemoInstrument(r.analyses[r.done + 1])
           \/ r.status = "EXECUTION_PLANNING" /\ a = DemoExecution(r.analyses[r.done + 1])
    PROVE  RunOK([r EXCEPT !.analyses[r.done + 1] = a, !.done = @ + 1])
<1> DEFINE n == r.done + 1
           q1 == [r EXCEPT !.analyses[n] = a]
           q2 == [q1 EXCEPT !.done = @ + 1]
           q == [r EXCEPT !.analyses[n] = a, !.done = @ + 1]
<1>1. IsRun(r) /\ r.done \in Nat /\ r.approved \in Nat /\ r.rejected \in Nat
    BY DEF RunOK, RunTypes
<1>2. q = q2
    BY <1>1 DEF IsRun
<1>3. /\ Kept(q1, r) /\ q1.status = r.status /\ q1.analyses = [r.analyses EXCEPT ![n] = a]
      /\ q1.done = r.done /\ q1.approved = r.approved /\ q1.rejected = r.rejected
    BY <1>1 DEF IsRun, Kept, Like
<1> HIDE DEF q, q1
<1>4. /\ Kept(q, r) /\ q.status = r.status /\ q.analyses = [r.analyses EXCEPT ![n] = a]
      /\ q.done = n /\ q.approved = r.approved /\ q.rejected = r.rejected
    BY <1>2, <1>3 DEF IsRun, Kept, Like
<1>5. /\ r.status = "INSTRUMENT" => a = Instrumented(Chosen(r)[n])
      /\ r.status = "EXECUTION_PLANNING" => a = Concluded(Chosen(r)[n])
    BY TurnIs DEF Instrumented, Concluded
<1>6. a \in Analyses
    BY <1>5, TurnIs, InstrumentedIs, ConcludedIs
<1>7. Len(q.analyses) = Len(r.analyses)
    BY <1>4, <1>6, ExceptSeq, TurnIs DEF RunOK, RunTypes
<1>8. Counted(q)
  <2>1. Chosen(q) = Chosen(r)
      BY <1>4, KeptTypes DEF RunOK
  <2>2. \A m : Approved(q, m) = Approved(r, m)
      BY <2>1 DEF Approved
  <2> QED
      BY <1>4, <1>7, <2>2 DEF RunOK, Counted
<1>9. RunOK(q)
    BY <1>1, <1>4, <1>5, <1>6, <1>8, TurnOK
<1> QED
    BY <1>9 DEF q

LEMMA StageOK ==
    ASSUME NEW r, RunOK(r), NEW s,
           \/ r.status = "COMMITTEE" /\ s = "RISK" /\ r.done = Len(Chosen(r))
           \/ r.status = "RISK" /\ s = "INSTRUMENT" /\ r.done = Len(r.analyses)
           \/ r.status = "INSTRUMENT" /\ s = "EXECUTION_PLANNING" /\ r.done = Len(r.analyses)
           \/ r.status = "EXECUTION_PLANNING" /\ s = "COMPLETE" /\ r.done = Len(r.analyses)
    PROVE  RunOK([r EXCEPT !.status = s, !.done = 0])
<1> DEFINE q1 == [r EXCEPT !.status = s]
           q2 == [q1 EXCEPT !.done = 0]
           q == [r EXCEPT !.status = s, !.done = 0]
<1>1. IsRun(r) /\ RunTypes(r)
    BY DEF RunOK, RunTypes
<1>2. q = q2
    BY <1>1 DEF IsRun
<1>3. /\ Kept(q1, r) /\ q1.status = s /\ q1.analyses = r.analyses
      /\ q1.done = r.done /\ q1.approved = r.approved /\ q1.rejected = r.rejected
    BY <1>1 DEF IsRun, Kept, Like
<1> HIDE DEF q, q1
<1>4. /\ Kept(q, r) /\ q.status = s /\ q.analyses = r.analyses
      /\ q.done = 0 /\ q.approved = r.approved /\ q.rejected = r.rejected
    BY <1>2, <1>3 DEF IsRun, Kept, Like
<1>5. s \in Later /\ RunTypes(q) /\ Chosen(q) = Chosen(r)
    BY <1>1, <1>4, KeptTypes DEF RunTypes, Kept, Like, Later
<1>6. Len(r.analyses) = Len(Chosen(r)) /\ Len(Chosen(r)) \in Nat /\ r.done = Len(r.analyses)
      /\ (~r.demo => Len(r.analyses) = 0)
    BY <1>1, ChosenRun DEF RunOK, Begun, Later
<1>7. Begun(q)
    BY <1>4, <1>5, <1>6 DEF RunOK, Begun, Kept, Like, Later
<1>8. ASSUME NEW i \in 1..Len(q.analyses)
      PROVE  LET c == Chosen(q)[i]
             IN /\ q.status = "RISK" => q.analyses[i] = IF i <= q.done THEN Risked(c) ELSE Analysis(c)
                /\ q.status = "INSTRUMENT" => q.analyses[i] = IF i <= q.done THEN Instrumented(c) ELSE Risked(c)
                /\ q.status = "EXECUTION_PLANNING" =>
                     q.analyses[i] = IF i <= q.done THEN Concluded(c) ELSE Instrumented(c)
                /\ q.status = "COMPLETE" => q.analyses[i] = Concluded(c)
  <2> DEFINE c == Chosen(r)[i]
  <2>1. i \in 1..r.done /\ i <= r.done /\ ~(i <= q.done)
      BY <1>4, <1>6
  <2>2. /\ r.status = "COMMITTEE" => r.analyses[i] = Analysis(c)
        /\ r.status = "RISK" => r.analyses[i] = Risked(c)
        /\ r.status = "INSTRUMENT" => r.analyses[i] = Instrumented(c)
        /\ r.status = "EXECUTION_PLANNING" => r.analyses[i] = Concluded(c)
      BY <1>4, <2>1 DEF RunOK, Begun, Carried
  <2> QED
      BY <1>4, <1>5, <2>1, <2>2
<1>9. Carried(q)
    BY <1>8 DEF Carried
<1>10. Counted(q)
  <2>1. \A m : Approved(q, m) = Approved(r, m)
      BY <1>5 DEF Approved
  <2>2. CASE s = "RISK"
    <3>1. r.approved = 0 /\ r.rejected = 0
        BY <2>2 DEF RunOK, Begun
    <3>2. Approved(q, q.done) = {}
        BY <1>4 DEF Approved
    <3>3. q.approved = Cardinality(Approved(q, q.done)) /\ q.approved + q.rejected = q.done
      <4>1. Cardinality(Approved(q, q.done)) = 0
          BY <3>2, FS_EmptySet
      <4> QED
          BY <1>4, <3>1, <4>1
    <3> QED
        BY <1>4, <2>2, <3>3 DEF Counted
  <2>3. CASE s # "RISK"
    <3>1. r.status \in Later /\ r.status \in {"RISK", "INSTRUMENT", "EXECUTION_PLANNING"}
        BY <2>3 DEF Later
    <3>2. r.approved = Cardinality(Approved(r, Len(r.analyses))) /\ r.approved + r.rejected = Len(r.analyses)
        BY <1>6, <3>1 DEF RunOK, Counted
    <3> QED
        BY <1>4, <2>1, <2>3, <3>2 DEF Counted
  <2> QED
      BY <2>2, <2>3
<1>11. RunOK(q)
    BY <1>5, <1>7, <1>9, <1>10 DEF RunOK
<1> QED
    BY <1>11 DEF q

---------------------------------------------------------------------------
(* The discovery of a live run, and what it ends with.                     *)

IsScan(c) ==
  c = [universe |-> c.universe, answers |-> c.answers, shortlist |-> c.shortlist, analysed |-> c.analysed, failed |-> c.failed]
Passed(c) == Len(c.analysed) + Cardinality(c.failed)
Known(c) ==
  /\ c.analysed \in Seq(Nat) /\ IsFiniteSet(c.failed) /\ Passed(c) <= Len(c.shortlist)
  /\ ToSet(c.analysed) \cup c.failed = {c.shortlist[i] : i \in 1..Passed(c)}

Asked(c) == IF c.universe = None THEN {} ELSE ToSet(c.universe)

(* A scan that adds up, with the categories k. *)
ScanOK(c, k) ==
  /\ IsScan(c)
  /\ c.universe # None => c.universe \in Seq(Nat)
  /\ DOMAIN c.answers \subseteq Asked(c) /\ \A s \in DOMAIN c.answers : c.answers[s] \in Names
  /\ c.shortlist = None => c.analysed = <<>> /\ c.failed = {}
  /\ c.shortlist # None => /\ c.shortlist = Shortlist(k, c.answers) /\ Known(c)
                          /\ ViableOf(c.answers) \subseteq DOMAIN k

LEMMA RangeIsFinite ==
    ASSUME NEW u \in Seq(Nat)
    PROVE  IsFiniteSet(ToSet(u)) /\ ToSet(u) \subseteq Nat
<1>1. u \in Surjection(1..Len(u), ToSet(u)) /\ ToSet(u) \subseteq Nat /\ Len(u) \in Nat
    BY LenProperties DEF Surjection, ToSet
<1>2. IsFiniteSet(1..Len(u))
  <2>1. 1 \in Int /\ Len(u) \in Int
      BY <1>1
  <2> QED
      BY <2>1, FS_Interval
<1> QED
    BY <1>1, <1>2, FS_Surjection

LEMMA ScanRankable ==
    ASSUME NEW c, NEW k, ScanOK(c, k)
    PROVE  Rankable(c.answers, DOMAIN c.answers) /\ Rankable(c.answers, ViableOf(c.answers))
<1>1. IsFiniteSet(Asked(c)) /\ Asked(c) \subseteq Nat
  <2>1. CASE c.universe = None
      BY <2>1, FS_EmptySet DEF Asked
  <2>2. CASE c.universe # None
    <3>1. c.universe \in Seq(Nat)
        BY <2>2 DEF ScanOK
    <3> QED
        BY <2>2, <3>1, RangeIsFinite DEF Asked
  <2> QED
      BY <2>1, <2>2
<1>5. Rankable(c.answers, DOMAIN c.answers)
    BY <1>1, FS_Subset DEF ScanOK, Rankable
<1>6. ViableOf(c.answers) \in SUBSET DOMAIN c.answers
    BY DEF ViableOf
<1> QED
    BY <1>5, <1>6, SubRankable

LEMMA ShortlistFacts ==
    ASSUME NEW c, NEW k, ScanOK(c, k)
    PROVE  LET L == Shortlist(k, c.answers)
               D == Diversified(k, c.answers, ViableOf(c.answers))
           IN  /\ L \in Seq(D) /\ L \in Seq(Nat) /\ Len(L) \in Nat /\ ToSet(L) \subseteq D
               /\ \A i, j \in 1..Len(L) : L[i] = L[j] => i = j
               /\ \A s \in D \ ToSet(L), f \in ToSet(L) : Before(c.answers, f, s)
<1> DEFINE D == Diversified(k, c.answers, ViableOf(c.answers))
           L == FirstOf(DeepK, Ranked(c.answers, D))
<1>1. Rankable(c.answers, D)
    BY ScanRankable, DiversifiedFacts
<1>2. D \subseteq Nat
    BY <1>1 DEF Rankable
<1>3. Shortlist(k, c.answers) = L
    BY DEF Shortlist, ViableOf
<1>4. DeepK \in Nat
    BY DiscoveryAssumption
<1> HIDE DEF D
<1>5. /\ L \in Seq(D) /\ Len(L) \in Nat /\ ToSet(L) \subseteq D
      /\ \A i, j \in 1..Len(L) : L[i] = L[j] => i = j
      /\ \A s \in D \ ToSet(L), f \in ToSet(L) : Before(c.answers, f, s)
    BY <1>1, <1>4, BestOf
<1> HIDE DEF L
<1>6. L \in Seq(Nat)
    BY <1>2, <1>5, SeqMonotonic
<1> QED
    BY <1>3, <1>5, <1>6 DEF D

LEMMA ListUniverseOK ==
    ASSUME NEW c, NEW k, ScanOK(c, k), c.universe = None, NEW u \in Seq(Nat)
    PROVE  ScanOK([c EXCEPT !.universe = u], k)
<1> DEFINE d == [c EXCEPT !.universe = u]
<1>1. /\ IsScan(d) /\ d.universe = u /\ d.answers = c.answers
      /\ d.shortlist = c.shortlist /\ d.analysed = c.analysed /\ d.failed = c.failed
    BY DEF ScanOK, IsScan
<1> HIDE DEF d
<1>2. DOMAIN c.answers \subseteq Asked(d)
    BY DEF ScanOK, Asked
<1>3. c.shortlist # None => Known(d)
    BY <1>1 DEF ScanOK, Known, Passed
<1>4. ScanOK(d, k)
    BY <1>1, <1>2, <1>3 DEF ScanOK
<1> QED
    BY <1>4 DEF d

LEMMA ScreenOK ==
    ASSUME NEW c, NEW k, ScanOK(c, k), c.shortlist = None, NEW s \in Asked(c), NEW name \in Names
    PROVE  ScanOK([c EXCEPT !.answers = [t \in DOMAIN @ \cup {s} |-> IF t = s THEN name ELSE @[t]]], k)
<1> DEFINE a == [t \in DOMAIN c.answers \cup {s} |-> IF t = s THEN name ELSE c.answers[t]]
           d == [c EXCEPT !.answers = a]
<1>1. DOMAIN a \subseteq Asked(c) /\ \A t \in DOMAIN a : a[t] \in Names
    BY DEF ScanOK
<1> HIDE DEF a
<1>2. /\ IsScan(d) /\ d.universe = c.universe /\ d.answers = a
      /\ d.shortlist = c.shortlist /\ d.analysed = c.analysed /\ d.failed = c.failed
    BY DEF ScanOK, IsScan
<1> HIDE DEF d
<1>3. ScanOK(d, k)
    BY <1>1, <1>2 DEF ScanOK, Asked
<1> QED
    BY <1>3 DEF d, a

LEMMA ShortenOK ==
    ASSUME NEW c, NEW k, ScanOK(c, k), c.shortlist = None, ViableOf(c.answers) \subseteq DOMAIN k
    PROVE  ScanOK([c EXCEPT !.shortlist = Shortlist(k, c.answers)], k)
<1> DEFINE L == Shortlist(k, c.answers)
           d == [c EXCEPT !.shortlist = L]
<1>1. L \in Seq(Nat) /\ Len(L) \in Nat
    BY ShortlistFacts
<1> HIDE DEF L
<1>2. /\ IsScan(d) /\ d.universe = c.universe /\ d.answers = c.answers
      /\ d.shortlist = L /\ d.analysed = <<>> /\ d.failed = {}
    BY DEF ScanOK, IsScan
<1> HIDE DEF d
<1>3. Known(d)
  <2>1. IsFiniteSet({}) /\ Cardinality({}) = 0
      BY FS_EmptySet
  <2>2. Passed(d) = 0 /\ ToSet(d.analysed) = {} /\ d.analysed \in Seq(Nat)
      BY <1>2, <2>1 DEF Passed, ToSet
  <2> QED
      BY <1>1, <1>2, <2>1, <2>2 DEF Known
<1>4. ScanOK(d, k)
    BY <1>2, <1>3 DEF ScanOK, Asked, L
<1> QED
    BY <1>4 DEF d, L

LEMMA AppendedSet ==
    ASSUME NEW S, NEW seq \in Seq(S), NEW s \in S
    PROVE  ToSet(Append(seq, s)) = ToSet(seq) \cup {s}
<1> DEFINE t == Append(seq, s)
           n == Len(seq)
<1>1. /\ n \in Nat /\ DOMAIN seq = 1..n /\ DOMAIN t = 1..(n + 1)
      /\ \A i \in 1..n : t[i] = seq[i]
      /\ t[n + 1] = s
    BY AppendProperties, LenProperties
<1> HIDE DEF t, n
<1>2. 1..(n + 1) = (1..n) \cup {n + 1}
    BY <1>1
<1>3. \A x : x \in ToSet(t) <=> x \in ToSet(seq) \/ x = s
    BY <1>1, <1>2 DEF ToSet
<1> QED
    BY <1>3 DEF t

LEMMA AnalyseOK ==
    ASSUME NEW c, NEW k, ScanOK(c, k), c.shortlist # None, Passed(c) < Len(c.shortlist),
           NEW s, s = c.shortlist[Passed(c) + 1]
    PROVE  /\ ScanOK([c EXCEPT !.analysed = Append(@, s)], k)
           /\ ScanOK([c EXCEPT !.failed = @ \cup {s}], k)
<1> DEFINE L == c.shortlist
           n == Passed(c)
           more == Append(c.analysed, s)
           worse == c.failed \cup {s}
           d == [c EXCEPT !.analysed = more]
           e == [c EXCEPT !.failed = worse]
<1>1. /\ L \in Seq(Nat) /\ Len(L) \in Nat /\ L # None /\ L = Shortlist(k, c.answers)
      /\ \A i, j \in 1..Len(L) : L[i] = L[j] => i = j
    BY ShortlistFacts DEF ScanOK
<1>2. Known(c) /\ IsScan(c)
    BY DEF ScanOK
<1>3. /\ c.analysed \in Seq(Nat) /\ IsFiniteSet(c.failed) /\ Len(c.analysed) \in Nat
      /\ Cardinality(c.failed) \in Nat /\ n \in Nat
      /\ n = Len(c.analysed) + Cardinality(c.failed)
    BY <1>2, LenProperties, FS_CardinalityType DEF Known, Passed
<1>4. ToSet(c.analysed) \cup c.failed = {L[i] : i \in 1..n} /\ n + 1 \in 1..Len(L) /\ s = L[n + 1]
    BY <1>1, <1>2, <1>3 DEF Known
<1> HIDE DEF L, n
<1>5. s \notin c.failed /\ s \in Nat
  <2>1. \A i \in 1..n : i \in 1..Len(L) /\ i # n + 1
      BY <1>1, <1>3, <1>4
  <2>2. \A i \in 1..n : L[i] # s
      BY <1>1, <1>4, <2>1
  <2> QED
      BY <1>1, <1>4, <2>2, ElementOfSeq
<1>6. {L[i] : i \in 1..n} \cup {s} = {L[i] : i \in 1..(n + 1)}
  <2>1. 1..(n + 1) = (1..n) \cup {n + 1}
      BY <1>3
  <2> QED
      BY <1>4, <2>1
<1>7. more \in Seq(Nat) /\ Len(more) = Len(c.analysed) + 1 /\ ToSet(more) = ToSet(c.analysed) \cup {s}
    BY <1>3, <1>5, AppendProperties, AppendedSet
<1>8. IsFiniteSet(worse) /\ Cardinality(worse) = Cardinality(c.failed) + 1
    BY <1>3, <1>5, FS_AddElement
<1>9. ToSet(more) \cup c.failed = {L[i] : i \in 1..(n + 1)}
      /\ ToSet(c.analysed) \cup worse = {L[i] : i \in 1..(n + 1)}
    BY <1>4, <1>6, <1>7
<1> HIDE DEF more, worse
<1>10. ScanOK(d, k)
  <2>1. /\ IsScan(d) /\ d.universe = c.universe /\ d.answers = c.answers
        /\ d.shortlist = L /\ d.analysed = more /\ d.failed = c.failed
      BY <1>2 DEF IsScan, L
  <2> HIDE DEF d
  <2>2. Passed(d) = n + 1
      BY <1>3, <1>7, <2>1 DEF Passed
  <2>3. Known(d)
    <3>1. {d.shortlist[i] : i \in 1..Passed(d)} = {L[i] : i \in 1..(n + 1)}
        BY <2>1, <2>2
    <3>2. ToSet(d.analysed) \cup d.failed = {d.shortlist[i] : i \in 1..Passed(d)}
        BY <1>9, <2>1, <3>1
    <3>3. d.analysed \in Seq(Nat) /\ IsFiniteSet(d.failed) /\ Passed(d) <= Len(d.shortlist)
        BY <1>1, <1>3, <1>4, <1>7, <2>1, <2>2
    <3> QED
        BY <3>2, <3>3 DEF Known
  <2> QED
      BY <1>1, <2>1, <2>3 DEF ScanOK, Asked
<1>11. ScanOK(e, k)
  <2>1. /\ IsScan(e) /\ e.universe = c.universe /\ e.answers = c.answers
        /\ e.shortlist = L /\ e.analysed = c.analysed /\ e.failed = worse
      BY <1>2 DEF IsScan, L
  <2> HIDE DEF e
  <2>2. Passed(e) = n + 1
      BY <1>3, <1>8, <2>1 DEF Passed
  <2>3. Known(e)
    <3>1. {e.shortlist[i] : i \in 1..Passed(e)} = {L[i] : i \in 1..(n + 1)}
        BY <2>1, <2>2
    <3>2. ToSet(e.analysed) \cup e.failed = {e.shortlist[i] : i \in 1..Passed(e)}
        BY <1>9, <2>1, <3>1
    <3>3. e.analysed \in Seq(Nat) /\ IsFiniteSet(e.failed) /\ Passed(e) <= Len(e.shortlist)
        BY <1>1, <1>3, <1>4, <1>8, <2>1, <2>2
    <3> QED
        BY <3>2, <3>3 DEF Known
  <2> QED
      BY <1>1, <2>1, <2>3 DEF ScanOK, Asked
<1> QED
    BY <1>10, <1>11 DEF d, e, more, worse

(* What the deep analysis has been through has a category. *)
LEMMA AnalysedKnown ==
    ASSUME NEW c, NEW k, ScanOK(c, k), c.shortlist # None
    PROVE  ToSet(c.analysed) \subseteq DOMAIN k
<1> DEFINE L == Shortlist(k, c.answers)
           D == Diversified(k, c.answers, ViableOf(c.answers))
<1>1. L \in Seq(Nat) /\ Len(L) \in Nat /\ ToSet(L) \subseteq D /\ L = c.shortlist
    BY ShortlistFacts DEF ScanOK
<1>2. D \subseteq ViableOf(c.answers) /\ ViableOf(c.answers) \subseteq DOMAIN k
    BY DEF ScanOK, Diversified
<1>3. /\ ToSet(c.analysed) \subseteq {c.shortlist[i] : i \in 1..Passed(c)}
      /\ Passed(c) <= Len(c.shortlist) /\ Passed(c) \in Nat
    BY LenProperties, FS_CardinalityType DEF ScanOK, Known, Passed
<1> HIDE DEF L, D
<1>4. DOMAIN L = 1..Len(L)
    BY <1>1, LenProperties
<1>5. \A i \in 1..Passed(c) : c.shortlist[i] \in ToSet(L)
  <2>1. \A i \in 1..Passed(c) : i \in DOMAIN L
      BY <1>1, <1>3, <1>4
  <2> QED
      BY <1>1, <2>1 DEF ToSet
<1> QED
    BY <1>1, <1>2, <1>3, <1>5

(* FinalistsAreBest, of the finalists of a scan. *)
Finest(c, k, chosen) ==
  LET viable == ViableOf(c.answers)
  IN /\ ToSet(chosen) \subseteq viable /\ Len(chosen) <= FinalK
     /\ \A i, j \in DOMAIN chosen : i < j => Before(c.answers, chosen[i], chosen[j])
     /\ \A s \in ToSet(chosen) : Cardinality(Kin(k, viable, s) \cap ToSet(chosen)) <= MaxPerGroup
     /\ \A s \in viable \ ToSet(chosen) : (\E f \in ToSet(chosen) : Before(c.answers, s, f)) =>
          \/ s \in c.failed
          \/ Rank(c.answers, Kin(k, viable, s), s) >= MaxPerGroup

LEMMA FinalistsFacts ==
    ASSUME NEW c, NEW k, ScanOK(c, k), c.shortlist # None, Passed(c) = Len(c.shortlist)
    PROVE  LET F == Finalists(k, c.answers, c.analysed)
           IN F \in Seq(Nat) /\ Finest(c, k, F)
<1> DEFINE A == c.answers
           V == ViableOf(A)
           D == Diversified(k, A, V)
           L == Shortlist(k, A)
           X == ToSet(c.analysed)
           F == Finalists(k, A, c.analysed)
<1>1. Rankable(A, V) /\ Rankable(A, D) /\ D \subseteq V
    BY ScanRankable, DiversifiedFacts
<1>2. /\ L = c.shortlist /\ Len(L) \in Nat /\ ToSet(L) \subseteq D /\ L \in Seq(Nat)
      /\ \A s \in D \ ToSet(L), f \in ToSet(L) : Before(A, f, s)
    BY ShortlistFacts DEF ScanOK
<1>3. X \cup c.failed = ToSet(L)
  <2>1. X \cup c.failed = {c.shortlist[i] : i \in 1..Len(c.shortlist)}
      BY DEF ScanOK, Known
  <2>2. DOMAIN L = 1..Len(L)
      BY <1>2, LenProperties
  <2> QED
      BY <1>2, <2>1, <2>2 DEF ToSet
<1>4. X \in SUBSET D /\ Diversified(k, A, X) = X /\ Rankable(A, X)
  <2>1. X \in SUBSET D
      BY <1>2, <1>3
  <2> QED
      BY <1>1, <2>1, DiversifiedAgain, SubRankable
<1>5. F = FirstOf(FinalK, Ranked(A, X)) /\ FinalK \in Nat
    BY <1>4, DiscoveryAssumption DEF Finalists
<1> HIDE DEF F, X
<1>6. /\ F \in Seq(X) /\ Len(F) \in Nat /\ Len(F) <= FinalK /\ ToSet(F) \subseteq X
      /\ \A i, j \in 1..Len(F) : i < j => Before(A, F[i], F[j])
      /\ \A s \in X \ ToSet(F), f \in ToSet(F) : Before(A, f, s)
    BY <1>4, <1>5, BestOf
<1>7. F \in Seq(Nat) /\ DOMAIN F = 1..Len(F)
  <2>1. X \subseteq Nat
      BY <1>4 DEF Rankable
  <2> QED
      BY <1>6, <2>1, SeqMonotonic, LenProperties
<1>8. \A s : s \in V \ D => Rank(A, Kin(k, V, s), s) >= MaxPerGroup
    BY <1>1, DiversifiedFacts
<1>9. \A s : Cardinality(Kin(k, D, s)) <= MaxPerGroup
    BY <1>1, DiversifiedFacts
<1>10. \A a, b \in V : ~(Before(A, a, b) /\ Before(A, b, a))
    BY <1>1, BeforeOrder
<1> HIDE DEF V, D, L
<1>11. ToSet(F) \subseteq X /\ X \subseteq ToSet(L) /\ ToSet(L) \subseteq D /\ D \subseteq V
    BY <1>1, <1>2, <1>3, <1>6
<1>12. ASSUME NEW s \in ToSet(F) PROVE Cardinality(Kin(k, V, s) \cap ToSet(F)) <= MaxPerGroup
  <2> DEFINE E == Kin(k, V, s) \cap ToSet(F)
             K == Kin(k, D, s)
  <2>1. E \in SUBSET K /\ K \in SUBSET D
      BY <1>11 DEF Kin
  <2>2. IsFiniteSet(K) /\ IsFiniteSet(E)
      BY <1>1, <2>1, FS_Subset DEF Rankable
  <2>3. Cardinality(E) <= Cardinality(K) /\ Cardinality(E) \in Nat /\ Cardinality(K) \in Nat
      BY <2>1, <2>2, FS_Subset, FS_CardinalityType
  <2> QED
      BY <1>9, <2>3, DiscoveryAssumption
<1>13. ASSUME NEW s \in V \ ToSet(F), NEW f \in ToSet(F), Before(A, s, f)
       PROVE  s \in c.failed \/ Rank(A, Kin(k, V, s), s) >= MaxPerGroup
  <2>1. f \in V /\ ~Before(A, f, s)
      BY <1>10, <1>11, <1>13
  <2>2. s \notin X
      BY <1>6, <2>1
  <2>3. s \in ToSet(L) \/ s \notin D
      BY <1>2, <1>11, <2>1
  <2> QED
      BY <1>3, <1>8, <2>2, <2>3
<1>14. ToSet(F) \subseteq V
    BY <1>11
<1>15. Finest(c, k, F)
    BY <1>6, <1>7, <1>12, <1>13, <1>14 DEF Finest, V
<1> QED
    BY <1>7, <1>15 DEF F

---------------------------------------------------------------------------
(* The invariant: a run in step with its stage, a scan that adds up, and a *)
(* live run's candidates the finest of its scan.                           *)

Picked(r) == [i \in DOMAIN r.candidates |-> r.candidates[i].symbol]

Inv ==
  /\ wired \in BOOLEAN /\ mode \in {"curated", "alpaca"}
  /\ categories \in [DOMAIN categories -> {"ETF", "EQUITY"}]
  /\ scan.universe # None => scan.universe \in Universes(mode)
  /\ ScanOK(scan, categories)
  /\ run # None => RunOK(run) /\ (~run.demo => Finest(scan, categories, Picked(run)))

LEMMA UniversesAre == \A u \in Universes(mode) : u \in Seq(Nat)
BY DiscoveryAssumption, ListingsAssumption DEF Universes

(* What was known of a category stays, and what was asked for is known. *)
LEMMA CategorizeFacts ==
    ASSUME categories \in [DOMAIN categories -> {"ETF", "EQUITY"}], NEW S, Categorize(S)
    PROVE  /\ categories' \in [DOMAIN categories' -> {"ETF", "EQUITY"}]
           /\ S \subseteq DOMAIN categories'
           /\ S \subseteq DOMAIN categories => categories' = categories
<1>1. PICK failing : categories' = Categorized(categories, S, failing)
    BY DEF Categorize
<1>2. categories' = [s \in DOMAIN categories \cup S |->
                       IF s \in DOMAIN categories THEN categories[s]
                       ELSE IF s \in failing THEN "EQUITY" ELSE Category(s)]
    BY <1>1 DEF Categorized
<1>3. DOMAIN categories' = DOMAIN categories \cup S
    BY <1>2
<1>4. \A s \in DOMAIN categories' : categories'[s] \in {"ETF", "EQUITY"}
    BY <1>2, <1>3 DEF Category
<1>5. categories' \in [DOMAIN categories' -> {"ETF", "EQUITY"}]
    BY <1>2, <1>3, <1>4
<1>6. ASSUME S \subseteq DOMAIN categories PROVE categories' = categories
  <2>1. DOMAIN categories \cup S = DOMAIN categories
      BY <1>6
  <2> QED
      BY <1>2, <2>1
<1> QED
    BY <1>3, <1>5, <1>6

LEMMA NoScanOK == \A k : ScanOK(NoScan, k)
<1>1. /\ IsScan(NoScan) /\ NoScan.universe = None /\ NoScan.shortlist = None /\ NoScan.analysed = <<>> /\ NoScan.failed = {}
      /\ DOMAIN NoScan.answers = {}
    BY DEF NoScan, IsScan
<1> QED
    BY <1>1 DEF ScanOK

LEMMA NothingPicked ==
    ASSUME NEW c, NEW k, NEW r, r.candidates = <<>>
    PROVE  Finest(c, k, Picked(r))
<1>1. Picked(r) = <<>>
    BY DEF Picked
<1>2. ToSet(<<>>) = {} /\ Len(<<>>) = 0 /\ DOMAIN <<>> = {}
    BY DEF ToSet
<1>3. FinalK >= 0
    BY DiscoveryAssumption
<1> QED
    BY <1>1, <1>2, <1>3 DEF Finest

LEMMA Initially == Init => Inv
<1> SUFFICES ASSUME Init PROVE Inv
    OBVIOUS
<1>1. categories \in [DOMAIN categories -> {"ETF", "EQUITY"}]
    BY DEF Init, Category
<1>2. scan.universe = None
    BY DEF Init, NoScan
<1> QED
    BY <1>1, <1>2, NoScanOK DEF Init, Inv

(* A step of a run that neither its candidates nor its scan change. *)
LEMMA RunStep ==
    ASSUME Inv, run # None, RunOK(run'), run'.candidates = run.candidates, run'.demo = run.demo,
           UNCHANGED <<wired, mode, categories, scan>>
    PROVE  Inv'
<1>1. Picked(run') = Picked(run)
    BY DEF Picked
<1> QED
    BY <1>1 DEF Inv

(* A step of the scan, during which there are no candidates. *)
LEMMA ScanStep ==
    ASSUME Inv, In("DISCOVERING"), ScanOK(scan', categories'), UNCHANGED <<wired, mode, run>>,
           categories' \in [DOMAIN categories' -> {"ETF", "EQUITY"}],
           scan'.universe # None => scan'.universe \in Universes(mode)
    PROVE  Inv'
<1>1. run.candidates = <<>> /\ run # None
    BY DEF Inv, In, RunOK, Begun
<1> QED
    BY <1>1, NothingPicked DEF Inv

LEMMA StartKeeps ==
    ASSUME Inv, Start
    PROVE  Inv'
<1>1. PICK request \in Requests :
        run' = [status |-> "DISCOVERING", demo |-> request.demo, max |-> request.max,
                candidates |-> <<>>, discovered |-> 0, analyzed |-> 0, analyses |-> <<>>,
                done |-> 0, approved |-> 0, rejected |-> 0]
    BY DEF Start
<1>2. request.demo \in BOOLEAN /\ request.max \in Int
    BY CouncilAssumption
<1>3. RunOK(run')
    BY <1>1, <1>2, StartOK
<1>4. run'.candidates = <<>>
    BY <1>1
<1>5. Finest(scan', categories', Picked(run'))
    BY <1>4, NothingPicked
<1>6. scan' = NoScan /\ scan'.universe = None
    BY DEF Start, NoScan
<1> QED
    BY <1>3, <1>5, <1>6, NoScanOK DEF Inv, Start

LEMMA FailKeeps ==
    ASSUME Inv, run # None, run.status \in {"DISCOVERING", "COMMITTEE"}, Fail
    PROVE  Inv'
<1>1. RunOK(run) /\ IsRun(run)
    BY DEF Inv, RunOK, RunTypes
<1>2. RunOK(run')
    BY <1>1, FailOK DEF Fail
<1>3. run'.candidates = run.candidates /\ run'.demo = run.demo
    BY <1>1 DEF Fail, IsRun
<1> QED
    BY <1>2, <1>3, RunStep DEF Fail

LEMMA DiscoverDemoKeeps ==
    ASSUME Inv, DiscoverDemo
    PROVE  Inv'
<1>1. RunOK(run) /\ IsRun(run) /\ run.status = "DISCOVERING" /\ run.demo
    BY DEF Inv, RunOK, RunTypes, DiscoverDemo, In
<1>2. RunOK(run')
    BY <1>1, DemosAre, DiscoveredOK DEF DiscoverDemo, Discovered
<1>3. run'.demo = run.demo
    BY <1>1 DEF DiscoverDemo, Discovered, IsRun
<1> QED
    BY <1>1, <1>2, <1>3 DEF Inv, DiscoverDemo

LEMMA DiscoverLiveKeeps ==
    ASSUME Inv, DiscoverLive
    PROVE  Inv'
<1> DEFINE F == Finalists(categories', scan.answers, scan.analysed)
           found == [i \in DOMAIN F |-> Found(F[i])]
<1>1. RunOK(run) /\ IsRun(run) /\ run.status = "DISCOVERING" /\ ~run.demo
    BY DEF Inv, RunOK, RunTypes, DiscoverLive, Scanning, In
<1>2. ScanOK(scan, categories) /\ scan.shortlist # None /\ Passed(scan) = Len(scan.shortlist)
    BY DEF Inv, DiscoverLive, Analysed, Passed
<1> DEFINE X == ToSet(scan.analysed)
<1>12. categories' = categories
  <2>1. X \subseteq DOMAIN categories
      BY <1>2, AnalysedKnown
  <2>2. Categorize(X)
      BY DEF DiscoverLive
  <2> HIDE DEF X
  <2> QED
      BY <2>1, <2>2, CategorizeFacts DEF Inv
<1>3. F \in Seq(Nat) /\ Finest(scan, categories, F)
    BY <1>2, <1>12, FinalistsFacts
<1> HIDE DEF F
<1>4. DOMAIN F = 1..Len(F) /\ Len(F) \in Nat
    BY <1>3, LenProperties
<1>5. /\ found \in Seq({found[i] : i \in 1..Len(F)}) /\ Len(found) = Len(F)
      /\ DOMAIN found = 1..Len(F)
    BY <1>4
<1>6. \A i \in 1..Len(F) : found[i].id = None /\ found[i].symbol = F[i]
    BY <1>4 DEF Found
<1>7. run' = [run EXCEPT !.candidates = found, !.discovered = Len(found),
                         !.analyzed = IF Len(found) < run.max THEN Len(found) ELSE run.max,
                         !.status = "COMMITTEE"]
    BY DEF DiscoverLive, Discovered, F
<1> HIDE DEF found
<1>8. Unnamed(found)
    BY <1>5, <1>6 DEF Unnamed
<1>9. RunOK(run')
    BY <1>1, <1>7, <1>8, DiscoveredOK
<1>10. run'.candidates = found /\ run'.demo = run.demo
    BY <1>1, <1>7 DEF IsRun
<1>11. Picked(run') = F
  <2>1. Picked(run') = [i \in 1..Len(F) |-> F[i]]
      BY <1>5, <1>6, <1>10 DEF Picked
  <2> QED
      BY <1>3, <1>4, <2>1
<1> QED
    BY <1>2, <1>3, <1>9, <1>11, <1>12 DEF Inv, DiscoverLive

LEMMA ListUniverseKeeps ==
    ASSUME Inv, ListUniverse
    PROVE  Inv'
<1>1. ScanOK(scan, categories) /\ In("DISCOVERING") /\ scan.universe = None
    BY DEF Inv, ListUniverse, Scanning
<1>2. PICK u \in Universes(mode) : scan' = [scan EXCEPT !.universe = u]
    BY DEF ListUniverse
<1>3. ScanOK(scan', categories) /\ scan'.universe = u
  <2>1. u \in Seq(Nat)
      BY UniversesAre
  <2> QED
      BY <1>1, <1>2, <2>1, ListUniverseOK DEF ScanOK, IsScan
<1> QED
    BY <1>1, <1>3, ScanStep DEF ListUniverse, Inv

LEMMA ScreenKeeps ==
    ASSUME Inv, Screen
    PROVE  Inv'
<1> DEFINE n == Cardinality(DOMAIN scan.answers)
           u == scan.universe
           symbol == u[n + 1]
<1>1. /\ ScanOK(scan, categories) /\ In("DISCOVERING") /\ scan.shortlist = None
      /\ scan.universe # None /\ Len(u) > n
    BY DEF Inv, Screen, Scanning, Screening
<1>2. n \in Nat
    BY <1>1, ScanRankable, FS_CardinalityType DEF Rankable
<1>3. u \in Seq(Nat)
    BY <1>1 DEF ScanOK
<1>4. symbol \in Asked(scan)
  <2>1. DOMAIN u = 1..Len(u) /\ Len(u) \in Nat
      BY <1>3, LenProperties
  <2> HIDE DEF n
  <2>2. n + 1 \in DOMAIN u
      BY <1>1, <1>2, <2>1
  <2> QED
      BY <1>1, <2>2 DEF Asked, ToSet
<1>5. PICK name \in Names :
        scan' = [scan EXCEPT !.answers = [s \in DOMAIN @ \cup {symbol} |-> IF s = symbol THEN name ELSE @[s]]]
    BY DEF Screen
<1> HIDE DEF symbol
<1>6. ScanOK(scan', categories)
    BY <1>1, <1>4, <1>5, ScreenOK
<1>7. scan'.universe = scan.universe
    BY <1>1, <1>5 DEF ScanOK, IsScan
<1> QED
    BY <1>1, <1>6, <1>7, ScanStep DEF Screen, Inv

LEMMA ShortenKeeps ==
    ASSUME Inv, Shorten
    PROVE  Inv'
<1> DEFINE V == ViableOf(scan.answers)
<1>1. ScanOK(scan, categories) /\ In("DISCOVERING") /\ scan.shortlist = None /\ Categorize(V)
    BY DEF Inv, Shorten, Scanning
<1>2. categories' \in [DOMAIN categories' -> {"ETF", "EQUITY"}] /\ V \subseteq DOMAIN categories'
  <2> HIDE DEF V
  <2> QED
      BY <1>1, CategorizeFacts DEF Inv
<1>3. ScanOK(scan, categories')
    BY <1>1 DEF ScanOK
<1>4. scan' = [scan EXCEPT !.shortlist = Shortlist(categories', scan.answers)]
    BY DEF Shorten
<1>5. ScanOK(scan', categories') /\ scan'.universe = scan.universe
    BY <1>1, <1>2, <1>3, <1>4, ShortenOK DEF ScanOK, IsScan
<1> QED
    BY <1>1, <1>2, <1>5, ScanStep DEF Shorten, Inv

LEMMA AnalyseKeeps ==
    ASSUME Inv, Analyse
    PROVE  Inv'
<1> DEFINE s == scan.shortlist[Passed(scan) + 1]
<1>1. ScanOK(scan, categories) /\ In("DISCOVERING") /\ scan.shortlist # None /\ Passed(scan) < Len(scan.shortlist)
    BY DEF Inv, Analyse, Analysed, Passed, Scanning
<1>2. \/ scan' = [scan EXCEPT !.analysed = Append(@, s)]
      \/ scan' = [scan EXCEPT !.failed = @ \cup {s}]
    BY DEF Analyse, Analysed, Passed
<1>3. ScanOK(scan', categories) /\ scan'.universe = scan.universe
  <2> HIDE DEF s
  <2>1. /\ ScanOK([scan EXCEPT !.analysed = Append(@, s)], categories)
        /\ ScanOK([scan EXCEPT !.failed = @ \cup {s}], categories)
      BY <1>1, AnalyseOK DEF s
  <2> QED
      BY <1>1, <1>2, <2>1 DEF ScanOK, IsScan
<1> QED
    BY <1>1, <1>3, ScanStep DEF Analyse, Inv

LEMMA DeliberateKeeps ==
    ASSUME Inv, Deliberate
    PROVE  Inv'
<1> DEFINE c == Chosen(run)[run.done + 1]
<1>1. RunOK(run) /\ IsRun(run) /\ run # None /\ run.status = "COMMITTEE" /\ run.done < Len(Chosen(run))
    BY DEF Inv, RunOK, RunTypes, Deliberate, In, Selected, Chosen
<1>2. CASE c.id = None
  <2>1. Fail
      BY <1>2 DEF Deliberate, Selected, Chosen
  <2> QED
      BY <1>1, <2>1, FailKeeps
<1>3. CASE c.id # None
  <2>1. run' = [run EXCEPT !.analyses = Append(@, Analysis(c)), !.done = @ + 1]
        /\ UNCHANGED <<wired, mode, categories, scan>>
      BY <1>3 DEF Deliberate, Selected, Chosen
  <2>2. RunOK(run')
      BY <1>1, <1>3, <2>1, DeliberateOK
  <2>3. run'.candidates = run.candidates /\ run'.demo = run.demo
      BY <1>1, <2>1 DEF IsRun
  <2> QED
      BY <1>1, <2>1, <2>2, <2>3, RunStep
<1> QED
    BY <1>2, <1>3

LEMMA EvaluateKeeps ==
    ASSUME Inv, Evaluate
    PROVE  Inv'
<1> DEFINE a == DemoRisk(run.analyses[run.done + 1])
           k == IF Approves(a) THEN 1 ELSE 0
<1>1. RunOK(run) /\ IsRun(run) /\ run # None /\ run.status = "RISK" /\ Turns(run)
    BY DEF Inv, RunOK, RunTypes, Evaluate, Take, In, Turns
<1>2. run' = [run EXCEPT !.analyses[run.done + 1] = a, !.done = @ + 1,
                         !.approved = @ + k, !.rejected = @ + 1 - k]
    BY DEF Evaluate, Turn
<1>3. RunOK([run EXCEPT !.analyses[run.done + 1] = a, !.done = @ + 1,
                        !.approved = @ + k, !.rejected = @ + 1 - k])
    BY <1>1, EvaluateOK
<1> HIDE DEF a, k
<1>4. run'.candidates = run.candidates /\ run'.demo = run.demo
    BY <1>1, <1>2 DEF IsRun
<1> QED
    BY <1>1, <1>2, <1>3, <1>4, RunStep DEF Evaluate

LEMMA PutKeeps ==
    ASSUME Inv, SelectInstrument \/ PlanExecution
    PROVE  Inv'
<1>1. PICK a : /\ \/ run.status = "INSTRUMENT" /\ a = DemoInstrument(run.analyses[run.done + 1])
                  \/ run.status = "EXECUTION_PLANNING" /\ a = DemoExecution(run.analyses[run.done + 1])
               /\ run' = [run EXCEPT !.analyses[run.done + 1] = a, !.done = @ + 1]
    BY DEF SelectInstrument, PlanExecution, Put, Turn, Take, In
<1>2. RunOK(run) /\ IsRun(run) /\ run # None /\ Turns(run)
    BY DEF Inv, RunOK, RunTypes, SelectInstrument, PlanExecution, Take, In, Turns
<1>3. RunOK([run EXCEPT !.analyses[run.done + 1] = a, !.done = @ + 1])
    BY <1>1, <1>2, PutOK
<1>4. run'.candidates = run.candidates /\ run'.demo = run.demo
    BY <1>1, <1>2 DEF IsRun
<1> QED
    BY <1>1, <1>2, <1>3, <1>4, RunStep DEF SelectInstrument, PlanExecution

LEMMA StageKeeps ==
    ASSUME Inv, NextStage
    PROVE  Inv'
<1>1. PICK i \in 2..5 : In(Stages[i]) /\ run.done = Through
                        /\ run' = [run EXCEPT !.status = Stages[i + 1], !.done = 0]
    BY DEF NextStage
<1>2. RunOK(run) /\ IsRun(run) /\ run # None
    BY <1>1 DEF Inv, RunOK, RunTypes, In
<1> DEFINE s == Stages[i + 1]
<1>3. \/ run.status = "COMMITTEE" /\ s = "RISK" /\ run.done = Len(Chosen(run))
      \/ run.status = "RISK" /\ s = "INSTRUMENT" /\ run.done = Len(run.analyses)
      \/ run.status = "INSTRUMENT" /\ s = "EXECUTION_PLANNING" /\ run.done = Len(run.analyses)
      \/ run.status = "EXECUTION_PLANNING" /\ s = "COMPLETE" /\ run.done = Len(run.analyses)
  <2>1. i = 2 \/ i = 3 \/ i = 4 \/ i = 5
      OBVIOUS
  <2>2. run.done = IF run.status = "COMMITTEE" THEN Len(Chosen(run)) ELSE Len(run.analyses)
      BY <1>1 DEF Through, Selected, Chosen
  <2> QED
      BY <1>1, <2>1, <2>2 DEF In, Stages
<1> HIDE DEF s
<1>4. RunOK([run EXCEPT !.status = s, !.done = 0])
    BY <1>2, <1>3, StageOK
<1>5. run' = [run EXCEPT !.status = s, !.done = 0]
    BY <1>1 DEF s
<1>6. run'.candidates = run.candidates /\ run'.demo = run.demo
    BY <1>2, <1>5 DEF IsRun
<1> QED
    BY <1>2, <1>4, <1>5, <1>6, RunStep DEF NextStage

(* Every step keeps the invariant: service.py of the orchestration and of  *)
(* the discovery.                                                          *)
THEOREM Invariance == Spec => []Inv
<1>1. Init => Inv
    BY Initially
<1>2. Inv /\ [Next]_vars => Inv'
  <2> SUFFICES ASSUME Inv, [Next]_vars PROVE Inv'
      OBVIOUS
  <2>1. CASE Unwired
      BY <2>1, FailKeeps DEF Unwired, In
  <2>2. CASE UNCHANGED vars
      BY <2>2 DEF vars, Inv
  <2> QED
      BY <2>1, <2>2, StartKeeps, DiscoverDemoKeeps, ListUniverseKeeps, ScreenKeeps, ShortenKeeps, AnalyseKeeps,
         DiscoverLiveKeeps, DeliberateKeeps, EvaluateKeeps, PutKeeps, StageKeeps DEF Next
<1> QED
    BY <1>1, <1>2, PTL DEF Spec

(* A run's shape holds of every instance: TypeOK. *)
THEOREM TypeCorrect == Spec => []TypeOK
<1>1. Inv => TypeOK
  <2> SUFFICES ASSUME Inv PROVE TypeOK
      OBVIOUS
  <2>1. ASSUME scan.shortlist # None PROVE ToSet(scan.analysed) \cup scan.failed \subseteq ToSet(scan.shortlist)
    <3>1. ScanOK(scan, categories) /\ Known(scan) /\ scan.shortlist = Shortlist(categories, scan.answers)
        BY <2>1 DEF Inv, ScanOK
    <3>2. scan.shortlist \in Seq(Nat) /\ Len(scan.shortlist) \in Nat /\ DOMAIN scan.shortlist = 1..Len(scan.shortlist)
        BY <3>1, ShortlistFacts, LenProperties
    <3>3. Passed(scan) <= Len(scan.shortlist) /\ Passed(scan) \in Nat
          /\ ToSet(scan.analysed) \cup scan.failed = {scan.shortlist[i] : i \in 1..Passed(scan)}
        BY <3>1, LenProperties, FS_CardinalityType DEF Known, Passed
    <3>4. \A i \in 1..Passed(scan) : i \in DOMAIN scan.shortlist
        BY <3>2, <3>3
    <3> QED
        BY <3>3, <3>4 DEF ToSet
  <2>2. ASSUME run # None
        PROVE  /\ run.status \in ToSet(Stages) \cup {"FAILED"}
               /\ run.analyses \in Seq(Analyses)
               /\ Len(run.analyses) <= Len(run.candidates) /\ run.done \in 0..Len(run.candidates)
               /\ {run.discovered, run.approved, run.rejected} \subseteq 0..Len(run.candidates)
    <3>1. RunOK(run) /\ RunTypes(run)
        BY <2>2 DEF Inv, RunOK
    <3>2. ToSet(Stages) = {"DISCOVERING", "COMMITTEE"} \cup Later
      <4>1. DOMAIN Stages = {1, 2, 3, 4, 5, 6}
          BY DEF Stages
      <4>2. ToSet(Stages) = {Stages[1], Stages[2], Stages[3], Stages[4], Stages[5], Stages[6]}
          BY <4>1 DEF ToSet
      <4> QED
          BY <4>2 DEF Stages, Later
    <3>3. /\ run.status \in {"DISCOVERING", "COMMITTEE", "FAILED"} \cup Later /\ run.analyses \in Seq(Analyses)
          /\ run.discovered \in Nat /\ run.done \in Nat /\ run.approved \in Nat /\ run.rejected \in Nat
        BY <3>1 DEF RunTypes
    <3>4. /\ Len(Chosen(run)) \in Nat /\ Len(run.candidates) \in Nat /\ Len(run.analyses) \in Nat
          /\ Len(Chosen(run)) <= Len(run.candidates)
        BY <3>1, ChosenRun
    <3>5. CASE run.status \in {"DISCOVERING", "COMMITTEE", "FAILED"}
        BY <3>1, <3>2, <3>3, <3>4, <3>5 DEF RunOK, Begun
    <3>6. CASE run.status \in Later
      <4>1. Len(run.analyses) = Len(Chosen(run)) /\ run.done <= Len(run.analyses)
            /\ run.discovered = Len(run.candidates)
          BY <3>1, <3>6 DEF RunOK, Begun
      <4>2. run.approved + run.rejected <= Len(run.analyses)
          BY <3>1, <3>3, <3>4, <3>6, <4>1 DEF RunOK, Counted
      <4> QED
          BY <3>2, <3>3, <3>4, <3>6, <4>1, <4>2
    <3> QED
        BY <3>3, <3>5, <3>6
  <2> QED
      BY <2>1, <2>2 DEF Inv, ScanOK, Asked, TypeOK
<1> QED
    BY <1>1, Invariance, PTL

(* The finalists of a live run are the best of what was screened, whatever *)
(* the provider's universe (curated, or what Alpaca lists), the answers,   *)
(* the three caps, and the analyses and category look-ups that fail:       *)
(* FinalistsAreBest.                                                       *)
THEOREM FinalistsBest == Spec => []FinalistsAreBest
<1>1. Inv => FinalistsAreBest
  <2> SUFFICES ASSUME Inv, run # None, ~run.demo PROVE FinalistsAreBest
      BY DEF FinalistsAreBest
  <2> DEFINE chosen == [i \in DOMAIN run.candidates |-> run.candidates[i].symbol]
  <2>1. Finest(scan, categories, chosen)
      BY DEF Inv, Picked
  <2> HIDE DEF chosen
  <2>2. ViableSymbols = ViableOf(scan.answers)
      BY DEF ViableSymbols
  <2>3. \A a, b : Ahead(a, b) <=> Before(scan.answers, a, b)
      BY DEF Ahead, Before, Points
  <2>4. \A s : Peers(s) = Kin(categories, ViableSymbols, s)
      BY DEF Peers, Kin
  <2>5. \A s : Cardinality({t \in Peers(s) : Ahead(t, s)}) = Rank(scan.answers, Kin(categories, ViableSymbols, s), s)
      BY <2>3, <2>4 DEF Rank
  <2>6. /\ ToSet(chosen) \subseteq ViableSymbols /\ Len(chosen) <= FinalK
        /\ \A i, j \in DOMAIN chosen : i < j => Ahead(chosen[i], chosen[j])
        /\ \A s \in ToSet(chosen) : Cardinality(Peers(s) \cap ToSet(chosen)) <= MaxPerGroup
        /\ \A s \in ViableSymbols \ ToSet(chosen) : (\E f \in ToSet(chosen) : Ahead(s, f)) =>
             \/ s \in scan.failed
             \/ Cardinality({t \in Peers(s) : Ahead(t, s)}) >= MaxPerGroup
      BY <2>1, <2>2, <2>3, <2>4, <2>5 DEF Finest
  <2> QED
      BY <2>6 DEF FinalistsAreBest, chosen
<1> QED
    BY <1>1, Invariance, PTL

(* A defect, shown in full: no screened symbol has two trends of one       *)
(* direction, whatever the bars, the snapshots and the volatility, and so  *)
(* none is given what docs/SCORING.md:54-61 gives an aligned one           *)
(* (TrendsNeverAgree; screening.py:154 swaps the averages).                *)
THEOREM TrendsDiffer == Spec => []TrendsNeverAgree
<1>1. Inv => TrendsNeverAgree
    BY TrendsOf DEF Inv, ScanOK, TrendsNeverAgree
<1> QED
    BY <1>1, Invariance, PTL

(* A complete run adds up, whatever it was asked for: CompleteRunsAddUp.   *)
THEOREM RunsAddUp == Spec => []CompleteRunsAddUp
<1>1. Inv => CompleteRunsAddUp
  <2> SUFFICES ASSUME Inv, In("COMPLETE") PROVE CompleteRunsAddUp
      BY DEF CompleteRunsAddUp
  <2> DEFINE n == Len(run.analyses)
  <2>1. RunOK(run) /\ RunTypes(run) /\ run.status = "COMPLETE" /\ run.status \in Later
      BY DEF Inv, In, RunOK, Later
  <2>2. /\ n \in Nat /\ n = Len(Chosen(run)) /\ DOMAIN run.analyses = 1..n /\ DOMAIN Chosen(run) = 1..n
        /\ ~run.demo => n = 0
        /\ run.max >= 0 => n = IF Len(run.candidates) < run.max THEN Len(run.candidates) ELSE run.max
      BY <2>1, ChosenRun DEF RunOK, Begun
  <2>3. Selected = Chosen(run)
      BY DEF Selected, Chosen
  <2>4. run.analyses \in Seq(Analyses) /\ run.approved \in Nat /\ run.rejected \in Nat
      BY <2>1 DEF RunTypes
  <2> HIDE DEF n
  <2>5. ASSUME NEW i \in 1..n
        PROVE  /\ run.analyses[i].id = Selected[i].id
               /\ run.analyses[i].risk = Risked(Selected[i]).risk
               /\ Proper(run.analyses[i])
    <3>1. run.demo
        BY <2>2
    <3>2. Chosen(run)[i] \in Demos
        BY <2>1, <2>2, <3>1, ChosenRun
    <3>3. run.analyses[i] = Concluded(Chosen(run)[i])
        BY <2>1 DEF RunOK, Carried, n
    <3> QED
        BY <2>3, <3>2, <3>3, ConcludedIs
  <2>6. {i \in DOMAIN run.analyses : run.analyses[i].risk \in {"APPROVED", "REDUCED"}} = Approved(run, n)
      BY <2>2, <2>3, <2>5 DEF Approved, Approves
  <2>7. run.approved = Cardinality(Approved(run, n)) /\ run.approved + run.rejected = n
      BY <2>1 DEF RunOK, Counted, n
  <2>8. [i \in DOMAIN run.analyses |-> run.analyses[i].id] = [i \in DOMAIN Selected |-> Selected[i].id]
      BY <2>2, <2>3, <2>5
  <2>9. run.max >= 0 => run.analyzed = n
      BY <2>1, <2>2 DEF RunOK, Begun
  <2>10. ~run.demo => run.analyses = <<>>
      BY <2>2, <2>4, EmptySeq DEF n
  <2>11. \A i \in DOMAIN run.analyses : Proper(run.analyses[i])
      BY <2>2, <2>5
  <2> QED
      BY <2>6, <2>7, <2>8, <2>9, <2>10, <2>11 DEF CompleteRunsAddUp, Proper, n
<1> QED
    BY <1>1, Invariance, PTL

(* Every total is between 0 and 100 points, for any bars and snapshots,    *)
(* unless the momentum is given more weight than the four features that    *)
(* hold it back: TotalsStayInRange.  The weights are settings, and with    *)
(* all of it on the momentum alone a total may be below 0.                 *)
THEOREM TotalsInRange ==
  ASSUME MomentumIsOutweighed
  PROVE  Spec => []TotalsStayInRange
<1>1. ASSUME NEW name \in Names PROVE Opportunity[name].total \in Hundred
    BY TotalsAreBounded
<1>2. Inv => TotalsStayInRange
    BY <1>1 DEF Inv, ScanOK, TotalsStayInRange
<1> QED
    BY <1>2, Invariance, PTL
=============================================================================
