----------------------------- MODULE PostTrade -----------------------------
(***************************************************************************)
(* M8, the evaluator and the analytics (src/backend/app/memory:            *)
(* evaluator.py, analytics.py, models.py): what is made of a closed        *)
(* position and of what was known of it, and what is made of the trades    *)
(* and the agents' records the store returns.  Operators only; Memory      *)
(* takes the steps.                                                        *)
(*                                                                         *)
(* Prices and amounts are integers; fractions, confidences and scores are  *)
(* thousandths, rounded away from zero, so that none becomes zero that is  *)
(* not.  Quantities and notionals are left out, a position that was filled *)
(* having an initial one.                                                  *)
(*                                                                         *)
(* Operators named Faulty... are not part of the specification: each is an *)
(* operator of it with a plausible bug, for testing the properties.        *)
(***************************************************************************)
EXTENDS Integers, FiniteSets, Functions

CONSTANTS
    None,         \* Python's None and SQL's NULL
    MinSamples    \* min_sample_size, 20 unless the constructor says otherwise

ASSUME NoneAssumption == None \notin Int /\ None \notin BOOLEAN /\ None \notin STRING
ASSUME SampleAssumption == MinSamples \in Nat \ {0}

Agents == {"QUANT", "BULL", "BEAR", "REGIME"}
Permille(a, b) == IF a >= 0 THEN -((-1000 * a) \div b) ELSE (1000 * a) \div b
Magnitude(a) == IF a < 0 THEN -a ELSE a
Given(x) == x # None /\ x # 0            \* a number Python takes for true
OrElse(x, y) == IF Given(x) THEN x ELSE y
FaultyStored(x) == IF Given(x) THEN x ELSE 0
Stored(x) == IF Given(x) THEN x ELSE None

---------------------------------------------------------------------------
(* The evaluation of e, a call's arguments: the position, the committee's  *)
(* result, the thesis's direction, M4's evaluation, M5's plan, the prices  *)
(* of both fills and those of the underlying; all but the first may be     *)
(* missing.                                                                *)

(* return_pct, which is positive for a gain on either side. *)
Return(p) ==
  IF p.entry <= 0 \/ p.price = 0 THEN None
  ELSE Permille(IF p.side = "LONG" THEN p.price - p.entry ELSE p.entry - p.price, p.entry)

From(e) == OrElse(e.from, e.position.entry)
To(e) == OrElse(e.to, e.position.price)
Move(e) == To(e) - From(e)

ThesisIsBullish(e) ==
  IF e.thesis # None THEN e.thesis = "BULLISH" ELSE e.position.side = "LONG"

(* A move of less than 2% shows nothing, one of 4% the whole thesis. *)
Inconclusive(e) == From(e) <= 0 \/ To(e) = 0 \/ 50 * Magnitude(Move(e)) < From(e)
Agrees(e) == (Move(e) > 0) = ThesisIsBullish(e)
Correctness(e) ==
  CASE Inconclusive(e) -> "INCONCLUSIVE"
    [] ~Inconclusive(e) /\ ~Agrees(e) -> "INCORRECT"
    [] OTHER -> IF 25 * Magnitude(Move(e)) >= From(e) THEN "CORRECT" ELSE "PARTIALLY_CORRECT"

OutcomeOf(pnl) == CASE pnl > 0 -> "WIN" [] pnl < 0 -> "LOSS" [] OTHER -> "BREAKEVEN"

Budget(e) == IF e.risk = None THEN None ELSE e.risk.budget
Loss(e) == IF e.position.pnl < 0 THEN -e.position.pnl ELSE None
RMultiple(e) == IF Given(Budget(e)) THEN Permille(e.position.pnl, Budget(e)) ELSE None

TradeRecord(e, at, created, version) ==
  [position |-> e.position.id, at |-> at, side |-> e.position.side, entry |-> Stored(e.position.entry), price |-> Stored(e.position.price),
   pnl |-> Stored(e.position.pnl), return |-> Stored(Return(e.position)),
   mfe |-> Stored(e.position.mfe), mae |-> Stored(e.position.mae), r |-> Stored(RMultiple(e)),
   confidence |-> IF e.committee = None THEN None ELSE Stored(e.committee.confidence),
   disagreement |-> IF e.committee = None THEN None ELSE e.committee.disagreement,
   risk |-> IF e.risk = None THEN None ELSE e.risk.decision,
   created |-> created, version |-> version]

TradeOutcome(e) ==
  [type |-> OutcomeOf(e.position.pnl), pnl |-> Stored(e.position.pnl),
   return |-> Stored(Return(e.position)), r |-> Stored(RMultiple(e))]

ExecutionQuality(e) ==
  LET planned == IF e.plan = None THEN None ELSE e.plan.planned
  IN [planned |-> Stored(planned), paid |-> Stored(e.filled), sold |-> Stored(e.sold),
      slippage |-> IF Given(planned) /\ Given(e.filled)
                   THEN Stored(Permille(e.filled - planned, planned)) ELSE None]

(* For a SHORT the code wants a negative return, having negated it before. *)
Captured(e) ==
  LET p == e.position
      gained == IF p.side = "LONG" THEN Return(p) > 0 ELSE Return(p) < 0
  IN IF Given(Return(p)) /\ p.mfe > 0 /\ gained THEN Permille(Magnitude(Return(p)), p.mfe) ELSE None

ExitQuality(e) ==
  [mfe |-> Stored(e.position.mfe), return |-> Stored(Return(e.position)),
   captured |-> Stored(Captured(e)),
   giveback |-> IF Captured(e) = None THEN None ELSE Stored(1000 - Captured(e))]

RiskOutcome(e) ==
  LET judged == Given(Budget(e)) /\ Loss(e) # None
  IN [authorized |-> Stored(Budget(e)), loss |-> Loss(e),
      utilization |-> IF judged THEN Stored(Permille(Loss(e), Budget(e))) ELSE None,
      within |-> IF judged THEN Loss(e) <= Budget(e) ELSE None,
      reduced |-> e.risk # None /\ e.risk.decision = "REDUCED"]

InstrumentOutcome(e) ==
  [type |-> IF e.plan = None THEN "UNKNOWN" ELSE e.plan.type,
   score |-> IF e.plan = None THEN None ELSE Stored(e.plan.score),
   outcome |-> OutcomeOf(e.position.pnl)]

Long == {"STRONG_LONG", "LONG"}
Short == {"STRONG_SHORT", "SHORT"}

(* Both directions are scored by the correctness of the thesis. *)
DirectionCorrect(e, opinion) ==
  IF Correctness(e) = "INCONCLUSIVE" \/ opinion.stance = "ABSTAIN" THEN None
  ELSE opinion.stance \in Long \cup Short /\ Correctness(e) # "INCORRECT"

Agreement(e, opinion) ==
  IF e.committee.direction = "NONE" \/ opinion.stance \notin Long \cup Short THEN None
  ELSE opinion.stance \in (IF e.committee.direction = "LONG" THEN Long ELSE Short)

AgentRecord(e, a) ==
  LET opinion == e.committee.opinions[a]
  IN [stance |-> opinion.stance, confidence |-> opinion.confidence,
      correct |-> DirectionCorrect(e, opinion), agreed |-> Agreement(e, opinion),
      profitable |-> e.position.pnl > 0, r |-> Stored(RMultiple(e))]

Participants(e) == IF e.committee = None THEN {} ELSE DOMAIN e.committee.opinions

---------------------------------------------------------------------------
(* Analytics over what the store returned: trades is a set of rows of the  *)
(* trade table, predictions and records are sets of rows of the agents'.   *)

IsComplete(trade) == trade.entry # None /\ trade.price # None /\ trade.pnl # None
Completed(trades) == {t \in trades : IsComplete(t)}

(* The counts of get_performance_summary; the means over them are left out.*)
Performance(trades) ==
  LET counted(S) == [count |-> Cardinality(S), wins |-> Cardinality({t \in S : t.pnl > 0}),
                     losses |-> Cardinality({t \in S : t.pnl < 0})]
      done == Completed(trades)
  IN [total |-> Cardinality(trades), all |-> counted(done),
      approved |-> counted({t \in done : t.risk = "APPROVED"}),
      reduced |-> counted({t \in done : t.risk = "REDUCED"})]
NoPerformance == Performance({})

(* DisagreementBucket, which the analytics sort the trades into by their   *)
(* DisagreementSeverity, lacks one of its members.                         *)
BucketNames == {"LOW", "MEDIUM", "HIGH"}
DisagreementRaises(trades) ==
  \E t \in Completed(trades) : t.disagreement \notin BucketNames \cup {None}

(* CalibrationEngine.compute_calibration, of predictions [confidence,      *)
(* right] that each carry the trade and the agent they are of.             *)
Gap(bucket) == SumFunction([p \in bucket |-> p.confidence - (IF p.right THEN 1000 ELSE 0)])

BucketLows == {500, 600, 700, 800, 900}
FaultyBucket(predictions, low) ==
  {p \in predictions : low <= p.confidence /\ p.confidence < low + 100}
Bucket(predictions, low) ==
  {p \in predictions : low <= p.confidence
                         /\ IF low = 900 THEN p.confidence <= 1000 ELSE p.confidence < low + 100}

(* The mean of the gaps of the buckets with enough samples, beyond 10%. *)
Insight(predictions) ==
  LET large == {low \in BucketLows : Cardinality(Bucket(predictions, low)) >= MinSamples}
      size(low) == Cardinality(Bucket(predictions, low))
      whole == FoldFunction(LAMBDA x, y : x * y, 1, [low \in large |-> size(low)])
      gaps == SumFunction([low \in large |-> Gap(Bucket(predictions, low)) * (whole \div size(low))])
      limit == 100 * Cardinality(large) * whole
  IN CASE large = {} -> "INSUFFICIENT_DATA"
       [] large # {} /\ gaps > limit -> "OVERCONFIDENT"
       [] large # {} /\ gaps < -limit -> "UNDERCONFIDENT"
       [] OTHER -> "WELL_CALIBRATED"

ExpectedError(predictions) ==
  LET gaps == SumFunction([low \in BucketLows |-> Magnitude(Gap(Bucket(predictions, low)))])
  IN -((-gaps) \div Cardinality(predictions))

NoCalibration == [samples |-> 0, bucketed |-> 0, error |-> None, insight |-> "INSUFFICIENT_DATA"]

Calibration(predictions) ==
  IF Cardinality(predictions) < MinSamples
  THEN [NoCalibration EXCEPT !.samples = Cardinality(predictions)]
  ELSE [samples |-> Cardinality(predictions),
        bucketed |-> SumFunction([low \in BucketLows |-> Cardinality(Bucket(predictions, low))]),
        error |-> Stored(ExpectedError(predictions)), insight |-> Insight(predictions)]

(* SimilarityEngine: thousandths of each component, the weights summing up *)
(* to one.  The regime of a trade is not stored, NEUTRAL stands for it.    *)
RegimeOrder == [STRONG_UP |-> 2, UP |-> 1, NEUTRAL |-> 0, DOWN |-> -1, STRONG_DOWN |-> -2]
SeverityOrder == [LOW |-> 0, MEDIUM |-> 1, HIGH |-> 2, NONE |-> 1]
SignOf(x) == CASE x > 0 -> 1 [] x < 0 -> -1 [] OTHER -> 0

Alike(q, t) == [
  direction |-> IF q.direction = t.side THEN 1000 ELSE 0,
  regime |-> IF q.regime = None THEN 500 ELSE 1000 - 250 * Magnitude(RegimeOrder[q.regime]),
  volatility |-> IF q.volatility = None \/ t.mae = None THEN 500
                 ELSE 1000 - 200 * Magnitude(q.volatility - (IF t.mae < 50 THEN t.mae \div 10 ELSE 5)),
  momentum |-> IF q.momentum = None \/ t.return = None THEN 500
               ELSE CASE SignOf(q.momentum) = SignOf(t.return) -> 800
                      [] SignOf(q.momentum) = 0 /\ t.return # 0 -> 500
                      [] OTHER -> 200,
  confidence |-> IF q.confidence = None \/ t.confidence = None THEN 500
                 ELSE 1000 - Magnitude(q.confidence - t.confidence),
  disagreement |-> IF q.disagreement = None \/ t.disagreement = None THEN 500
                   ELSE 1000 - 500 * Magnitude(SeverityOrder[q.disagreement] - SeverityOrder[t.disagreement])]

Similarity(q, t) ==
  LET s == Alike(q, t)
  IN 200 * s.direction + 150 * (s.regime + s.volatility)
       + 100 * (s.momentum + 500 + s.confidence + s.disagreement + (IF q.stock THEN 1000 ELSE 0))

(* The API's queries have floats, and no float is subtracted from a Decimal *)
SimilarityRaises(q, trades) ==
  q.float /\ q.confidence # None /\ \E t \in Completed(trades) : t.confidence # None

(* The k best, the smaller of two equal trade ids first. *)
Ahead(q, t, u) ==
  \/ Similarity(q, t) > Similarity(q, u)
  \/ Similarity(q, t) = Similarity(q, u) /\ t.position < u.position
MostSimilar(q, trades, k) ==
  {t \in Completed(trades) : Cardinality({u \in Completed(trades) : Ahead(q, u, t)}) < k}
=============================================================================
