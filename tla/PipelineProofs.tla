---------------------------- MODULE PipelineProofs ----------------------------
(***************************************************************************)
(* What Pipeline guarantees for all markets, accounts, portfolios, option  *)
(* chains and quotes its stages may read.                                  *)
(***************************************************************************)
EXTENDS Pipeline, TLAPS

---------------------------------------------------------------------------
(* Integer arithmetic: products and quotients keep order. *)

LEMMA ProductMonotone ==
    ASSUME NEW a \in Int, NEW b \in Int, NEW n \in Nat, a <= b
    PROVE  a * n <= b * n
BY SMT

LEMMA Quotient ==
    ASSUME NEW a \in Int, NEW d \in Nat \ {0}
    PROVE  a \div d \in Int /\ (a \div d) * d <= a /\ a < (a \div d) * d + d
BY SMT

LEMMA QuotientBound ==
    ASSUME NEW a \in Int, NEW d \in Nat \ {0}, NEW n \in Int, a <= n * d
    PROVE  a \div d <= n
BY SMT

LEMMA QuotientType ==
    ASSUME NEW a \in Nat, NEW d \in Nat \ {0}
    PROVE  a \div d \in Nat
BY SMT

(* Scaling by a fraction never enlarges an amount. *)
Fractions == 500..1000

LEMMA SomeFractions ==
    /\ 500 \in Fractions /\ 750 \in Fractions /\ 1000 \in Fractions
    /\ \A f, g \in Fractions : SmallerOf(f, g) \in Fractions
<1>1. 500 \in Fractions /\ 750 \in Fractions /\ 1000 \in Fractions
    BY DEF Fractions
<1>2. \A f, g \in Fractions : SmallerOf(f, g) \in Fractions
    BY DEF SmallerOf
<1> QED
    BY <1>1, <1>2

LEMMA ScaleShrinks ==
    ASSUME NEW b \in Nat, NEW f \in Fractions
    PROVE  Scale(b, f) \in Nat /\ Scale(b, f) <= b
BY SMT DEF Scale, Fractions

LEMMA ScaleMonotone ==
    ASSUME NEW a \in Nat, NEW b \in Nat, NEW f \in Fractions, NEW g \in Fractions, a <= b, f <= g
    PROVE  Scale(a, f) <= Scale(b, g)
<1>1. Scale(a, f) <= Scale(b, f)
  <2>1. f \in Nat /\ a * f <= b * f
    BY ProductMonotone DEF Fractions
  <2> QED
    BY <2>1 DEF Scale
<1>2. Scale(b, f) <= Scale(b, g)
  <2>1. f \in Int /\ g \in Int /\ f * b <= g * b
    BY ProductMonotone DEF Fractions
  <2> QED
    BY <2>1 DEF Scale
<1> QED
    BY <1>1, <1>2, ScaleShrinks

---------------------------------------------------------------------------
(* Of a non-empty set of small positions one is the first. *)
LEMMA FirstPosition ==
    ASSUME NEW I \in SUBSET (1..9), I # {}
    PROVE  \E i \in I : \A j \in 1..(i - 1) : j \notin I
<1>1. SUFFICES ASSUME \A i \in I : \E j \in 1..(i - 1) : j \in I PROVE FALSE
    OBVIOUS
<1>2. 1 \notin I /\ 2 \notin I /\ 3 \notin I
    BY <1>1
<1>3. 4 \notin I /\ 5 \notin I /\ 6 \notin I
    BY <1>1, <1>2
<1>4. 7 \notin I /\ 8 \notin I /\ 9 \notin I
    BY <1>1, <1>2, <1>3
<1>5. PICK i \in I : TRUE
    OBVIOUS
<1>6. i \in 1..9
    BY <1>5
<1> QED
    BY <1>2, <1>3, <1>4, <1>5, <1>6

(* What comes first in an ordered list is a member of the list. *)
LEMMA FirstInType ==
    ASSUME NEW list, NEW S, Len(list) \in 1..9, \E i \in 1..Len(list) : list[i] \in S
    PROVE  \E i \in 1..Len(list) : FirstIn(list, S) = list[i]
<1> DEFINE I == {i \in 1..Len(list) : list[i] \in S}
<1>1. \E i \in I : \A j \in 1..(i - 1) : j \notin I
  <2>1. I \in SUBSET (1..9) /\ I # {}
    OBVIOUS
  <2> QED
    BY <2>1, FirstPosition
<1>2. \E i \in 1..Len(list) : list[i] \in S /\ \A j \in 1..(i - 1) : list[j] \notin S
    BY <1>1
<1> QED
    BY <1>2 DEF FirstIn

LEMMA HardGateType ==
    ASSUME NEW c, FailedGates(c) # {}
    PROVE  FirstIn(HardGates, FailedGates(c)) \in Listed(HardGates)
<1>1. PICK r \in FailedGates(c) : TRUE
    OBVIOUS
<1>2. \E i \in 1..8 : HardGates[i] = r
    BY <1>1 DEF FailedGates, HardGates
<1>3. Len(HardGates) = 8 /\ Len(HardGates) \in 1..9
    BY DEF HardGates
<1> DEFINE D == FailedGates(c)
<1>4. \E i \in 1..Len(HardGates) : HardGates[i] \in D
    BY <1>1, <1>2, <1>3
<1> HIDE DEF D
<1>5. \E i \in 1..Len(HardGates) : FirstIn(HardGates, D) = HardGates[i]
    BY <1>3, <1>4, FirstInType
<1> QED
    BY <1>5 DEF Listed, D

LEMMA SoftLimitType ==
    ASSUME NEW c, Reductions(c) # {}
    PROVE  FirstIn(SoftLimits, Reductions(c)) \in Listed(SoftLimits)
<1>1. PICK r \in Reductions(c) : TRUE
    OBVIOUS
<1>2. \E i \in 1..7 : SoftLimits[i] = r
    BY <1>1 DEF Reductions, SoftLimits
<1>3. Len(SoftLimits) = 7 /\ Len(SoftLimits) \in 1..9
    BY DEF SoftLimits
<1> DEFINE D == Reductions(c)
<1>4. \E i \in 1..Len(SoftLimits) : SoftLimits[i] \in D
    BY <1>1, <1>2, <1>3
<1> HIDE DEF D
<1>5. \E i \in 1..Len(SoftLimits) : FirstIn(SoftLimits, D) = SoftLimits[i]
    BY <1>3, <1>4, FirstInType
<1> QED
    BY <1>5 DEF Listed, D

LEMMA DenialType ==
    ASSUME NEW x, NEW p, NEW ev, NEW kill, NEW expired, Denials(x, p, ev, kill, expired) # {}
    PROVE  FirstIn(Reasons, Denials(x, p, ev, kill, expired)) \in Listed(Reasons)
<1>1. PICK r \in Denials(x, p, ev, kill, expired) : TRUE
    OBVIOUS
<1>2. \E i \in 1..9 : Reasons[i] = r
    BY <1>1 DEF Denials, Reasons
<1>3. Len(Reasons) = 9 /\ Len(Reasons) \in 1..9
    BY DEF Reasons
<1> DEFINE D == Denials(x, p, ev, kill, expired)
<1>4. \E i \in 1..Len(Reasons) : Reasons[i] \in D
    BY <1>1, <1>2, <1>3
<1> HIDE DEF D
<1>5. \E i \in 1..Len(Reasons) : FirstIn(Reasons, D) = Reasons[i]
    BY <1>3, <1>4, FirstInType
<1> QED
    BY <1>5 DEF Listed, D

---------------------------------------------------------------------------
(* M4. *)

LEMMA ContextParts ==
    ASSUME NEW c \in Context
    PROVE  /\ c.market \in Market /\ c.confidence \in 0..1000
           /\ Equity(c) \in Int
           /\ Portfolio(c) \in Holdings
           /\ ReferencePrice(c.market) \in Int
<1>1. c.market.quote # NoQuote => Midpoint(c.market.quote) \in Int
    BY DEF Context, Market, Quote, Midpoint
<1> QED
    BY <1>1 DEF Context, Market, Account, Holdings, Equity, DefaultEquity, Dollar, Portfolio,
                EmptyPortfolio, ReferencePrice

LEMMA ShareType == ASSUME NEW a \in Int, NEW w \in Int, w > 0 PROVE Share(a, w) \in Int
BY DEF Share

LEMMA HalfType == ASSUME NEW f \in Int, f <= 1000 PROVE AtLeastHalf(f) \in Fractions
BY DEF AtLeastHalf, LargerOf, Fractions

(* More than four fifths of a limit is more than 800 thousandths of it. *)
LEMMA FourFifths ==
    ASSUME NEW a \in Int, NEW l \in Int, l > 0, 5 * a > 4 * l
    PROVE  Share(a, l) >= 800
<1>1. CASE l < 1000
  <2>1. (-1000 * a) <= (-800) * l
    OBVIOUS
  <2>2. (-1000 * a) \div l <= -800
    BY <2>1, QuotientBound
  <2> QED
    BY <1>1, <2>2, Quotient DEF Share
<1>2. CASE l >= 1000
  <2> DEFINE d == l \div 1000
  <2>1. d \in Nat \ {0} /\ d * 1000 <= l
    BY <1>2
  <2>2. -a <= (-800) * d
    BY <2>1
  <2>3. (-a) \div d <= -800 /\ (-a) \div d \in Int
    BY <2>1, <2>2, QuotientBound, Quotient
  <2> QED
    BY <1>2, <2>3 DEF Share
<1> QED
    BY <1>1, <1>2

(* Each soft reduction leaves a fraction of the budget. *)
LEMMA ExposureType == ASSUME NEW a \in Int, NEW l \in Int PROVE Exposure(a, l) \in Fractions
<1>1. CASE l > 0 /\ 5 * a > 4 * l
  <2>1. Share(a, l) \in Int
    BY <1>1, ShareType
  <2>2. Share(a, l) >= 800
    BY <1>1, FourFifths
  <2> QED
    BY <1>1, <2>1, <2>2, HalfType DEF Exposure
<1> QED
    BY <1>1, SomeFractions DEF Exposure

LEMMA FactorTypes ==
    ASSUME NEW c \in Context
    PROVE  /\ Confidence(c) \in Fractions
           /\ Volatility(c) \in Fractions
           /\ Liquidity(c) \in Fractions
           /\ Concentration(c) \in Fractions
           /\ ExposureFactor(c) \in Fractions
<1>a. Equity(c) \in Int /\ Portfolio(c) \in Holdings /\ ReferencePrice(c.market) \in Int
    BY ContextParts
<1>1. Confidence(c) \in Fractions
    BY SomeFractions DEF Confidence
<1>2. Volatility(c) \in Fractions
  <2>1. c.volatility \in Int
    BY DEF Context, Features, None
  <2>2. ASSUME c.volatility > 30
        PROVE  (2000 - (c.volatility - 30)) \div 2 \in Int
               /\ (2000 - (c.volatility - 30)) \div 2 <= 1000
    BY <2>1, <2>2
  <2> QED
    BY <2>1, <2>2, HalfType, SomeFractions DEF Volatility
<1>3. Liquidity(c) \in Fractions
  <2>1. c.market.volume \in Int
    BY DEF Context, Market, Features, None
  <2>2. DollarVolume(c) \in Int
    BY <1>a, <2>1 DEF DollarVolume, Dollar
  <2> QED
    BY <2>2, HalfType, SomeFractions DEF Liquidity
<1>4. Concentration(c) \in Fractions
  <2>1. CASE Equity(c) > 0
    <3>1. Share(Portfolio(c).held, Equity(c)) \in Int
      BY <1>a, <2>1, ShareType DEF Holdings
    <3> QED
      BY <3>1, HalfType, SomeFractions DEF Concentration
  <2> QED
    BY <1>a, <2>1, SomeFractions DEF Concentration
<1>5. ExposureFactor(c) \in Fractions
  <2>1. Portfolio(c).gross \in Int /\ Magnitude(Portfolio(c).net) \in Int
    BY <1>a DEF Holdings, Magnitude
  <2>2. Equity(c) \div 2 \in Int
    BY <1>a
  <2>3. GrossExposure(c) \in Fractions
    BY <1>a, <2>1, ExposureType DEF GrossExposure
  <2>4. NetExposure(c) \in Fractions
    BY <2>1, <2>2, ExposureType DEF NetExposure
  <2> QED
    BY <2>3, <2>4, SomeFractions DEF ExposureFactor, MaxPositions
<1> QED
    BY <1>1, <1>2, <1>3, <1>4, <1>5

(* The budget left is at most the one per cent that was granted. *)
LEMMA FiveScales ==
    ASSUME NEW b \in Nat, NEW f1 \in Fractions, NEW f2 \in Fractions, NEW f3 \in Fractions,
           NEW f4 \in Fractions, NEW f5 \in Fractions
    PROVE  /\ Scale(Scale(Scale(Scale(Scale(b, f1), f2), f3), f4), f5) \in Nat
           /\ Scale(Scale(Scale(Scale(Scale(b, f1), f2), f3), f4), f5) <= b
<1>1. Scale(b, f1) \in Nat /\ Scale(b, f1) <= b
    BY ScaleShrinks
<1>2. PICK b1 \in Nat : b1 = Scale(b, f1) /\ b1 <= b
    BY <1>1
<1>3. PICK b2 \in Nat : b2 = Scale(b1, f2) /\ b2 <= b1
    BY ScaleShrinks
<1>4. PICK b3 \in Nat : b3 = Scale(b2, f3) /\ b3 <= b2
    BY ScaleShrinks
<1>5. PICK b4 \in Nat : b4 = Scale(b3, f4) /\ b4 <= b3
    BY ScaleShrinks
<1>6. PICK b5 \in Nat : b5 = Scale(b4, f5) /\ b5 <= b4
    BY ScaleShrinks
<1> QED
    BY <1>2, <1>3, <1>4, <1>5, <1>6

LEMMA BudgetShrinks ==
    ASSUME NEW c \in Context, Equity(c) > 0
    PROVE  /\ BaseBudget(c) \in Nat /\ ScaledBudget(c) \in Nat
           /\ ScaledBudget(c) <= BaseBudget(c)
<1>1. BaseBudget(c) \in Nat
    BY ContextParts DEF BaseBudget
<1> QED
    BY <1>1, FactorTypes, FiveScales DEF ScaledBudget

(* The fields of an evaluation have their types, and one that is not a     *)
(* rejection was made of a sound thesis and account.                       *)
EvaluationReasons ==
    {"NONE", "CALCULATION_FAILURE", "WITHIN_LIMITS"} \cup Listed(HardGates) \cup Listed(SoftLimits)
Evaluations ==
    [decision : {"NONE", "REJECTED", "REDUCED", "APPROVED"}, reason : EvaluationReasons,
     base : Nat, adjusted : Nat, stop : Nat, ceiling : Nat]

Granted(c, ev) ==
    /\ c.proposes /\ c.confidence >= 600
    /\ 100 * Portfolio(c).pnl >= -3 * Equity(c)
    /\ ReferencePrice(c.market) > 0
    /\ Equity(c) > 0
    /\ ev.base = BaseBudget(c) /\ ev.adjusted = ScaledBudget(c) /\ ev.ceiling = Ceiling(c)
    /\ ev.adjusted <= ev.base /\ 100 * ev.base <= Equity(c) /\ 10 * ev.ceiling <= Equity(c)
    /\ 0 < ev.adjusted /\ ev.stop <= ev.adjusted /\ 10 * ev.adjusted <= ev.ceiling

LEMMA GatesPassed ==
    ASSUME NEW c \in Context, FailedGates(c) = {}, Equity(c) > 0
    PROVE  /\ c.proposes /\ c.confidence >= 600
           /\ 100 * Portfolio(c).pnl >= -3 * Equity(c)
           /\ ReferencePrice(c.market) > 0
<1>1. "M3_NO_TRADE" \notin FailedGates(c) /\ "LOW_COMMITTEE_CONFIDENCE" \notin FailedGates(c)
      /\ "DAILY_LOSS_LIMIT" \notin FailedGates(c) /\ "POOR_DATA_QUALITY" \notin FailedGates(c)
    OBVIOUS
<1>2. c.proposes
    BY <1>1 DEF FailedGates
<1>3. ~(c.confidence < 600)
    BY <1>1 DEF FailedGates
<1>4. ~DailyLoss(RiskState(c))
    BY <1>1 DEF FailedGates
<1>5. ~(ReferencePrice(c.market) <= 0)
    BY <1>1 DEF FailedGates
<1>6. Portfolio(c).pnl \in Int
    BY ContextParts DEF Holdings
<1>7. Equity(c) \in Int /\ ~(Equity(c) > 0 /\ 100 * Portfolio(c).pnl < -3 * Equity(c))
    BY <1>4, ContextParts DEF DailyLoss, RiskState
<1>8. 100 * Portfolio(c).pnl >= -3 * Equity(c)
    BY <1>6, <1>7
<1>9. c.confidence >= 600 /\ ReferencePrice(c.market) > 0
    BY <1>3, <1>5, ContextParts
<1> QED
    BY <1>2, <1>8, <1>9

LEMMA StopType ==
    ASSUME NEW c \in Context, ReferencePrice(c.market) > 0
    PROVE  StopDistance(c) \in Nat
<1>1. ReferencePrice(c.market) \in Nat /\ c.atr \in Int
    BY ContextParts DEF Context, Features, None
<1> DEFINE p == ReferencePrice(c.market)
<1>2. p \div 50 \in Nat /\ p \div 10 \in Nat
    BY <1>1
<1> HIDE DEF p
<1> QED
    BY <1>1, <1>2 DEF StopDistance, LargerOf, SmallerOf, p

LEMMA NotionalType ==
    ASSUME NEW b \in Nat, NEW st \in Nat, NEW price \in Nat
    PROVE  NotionalAtRisk(b, st, price) \in Nat
<1>1. CASE st > 0
  <2>1. b * price \in Nat
    OBVIOUS
  <2> QED
    BY <1>1, <2>1, QuotientType DEF NotionalAtRisk
<1>2. CASE ~(st > 0)
    BY <1>2 DEF NotionalAtRisk
<1> QED
    BY <1>1, <1>2

(* A budget that buys a share is no smaller than the stop of one. *)
LEMMA StopFits ==
    ASSUME NEW c \in Context, ReferencePrice(c.market) > 0, ScaledBudget(c) \in Nat, Ceiling(c) \in Nat,
           Shares(c) # 0
    PROVE  StopDistance(c) <= ScaledBudget(c)
<1> DEFINE p == ReferencePrice(c.market)
           st == StopDistance(c)
           b == ScaledBudget(c)
           n == NotionalAtRisk(b, st, p)
           m == SmallerOf(n, Ceiling(c))
<1>1. p \in Nat \ {0} /\ st \in Nat /\ b \in Nat
    BY ContextParts, StopType
<1>2. n \in Nat /\ m \in Nat /\ m <= n
  <2>1. n \in Nat
    BY <1>1, NotionalType
  <2> HIDE DEF n
  <2> QED
    BY <2>1 DEF SmallerOf
<1>3. m \div p # 0
    BY DEF Shares
<1> HIDE DEF m, n, p, st, b
<1>4. m >= p
    BY <1>1, <1>2, <1>3
<1>5. n >= p
    BY <1>1, <1>2, <1>4
<1>6. st <= b
  <2>1. CASE st > 0
    <3> DEFINE x == b * p
               d == x \div st
    <3>1. x \in Int /\ st \in Nat \ {0} /\ n = d
      BY <1>1, <2>1 DEF n, NotionalAtRisk
    <3>2. d \in Int /\ d * st <= x
      <4> HIDE DEF x
      <4> QED
        BY <3>1, Quotient
    <3>3. d >= p
      BY <1>5, <3>1
    <3> HIDE DEF d
    <3>4. p * st <= d * st
      BY <1>1, <3>2, <3>3, ProductMonotone
    <3>5. p * st <= b * p
      <4>1. p * st \in Int /\ d * st \in Int /\ x \in Int
        BY <1>1, <3>1, <3>2
      <4> QED
        BY <3>2, <3>4, <4>1
    <3> SUFFICES ASSUME b + 1 <= st PROVE FALSE
      BY <1>1
    <3>6. (b + 1) * p <= st * p
      BY <1>1, ProductMonotone
    <3>7. (b + 1) * p = b * p + p /\ st * p = p * st
      BY <1>1
    <3> DEFINE y == b * p
               z == p * st
    <3>8. y + p <= z /\ z <= y /\ y \in Int /\ z \in Int
      BY <1>1, <3>5, <3>6, <3>7
    <3> HIDE DEF y, z
    <3> QED
      BY <1>1, <3>8
  <2>2. CASE st = 0
    BY <1>1, <2>2
  <2> QED
    BY <1>1, <2>1, <2>2
<1> QED
    BY <1>6 DEF st, b

LEMMA EvaluationFacts ==
    ASSUME NEW c \in Context
    PROVE  /\ Evaluation(c) \in Evaluations
           /\ Evaluation(c).decision # "NONE"
           /\ Evaluation(c).decision # "REJECTED" => Granted(c, Evaluation(c))
<1>1. CASE FailedGates(c) # {}
  <2>1. FirstIn(HardGates, FailedGates(c)) \in EvaluationReasons
    BY <1>1, HardGateType DEF EvaluationReasons
  <2> QED
    BY <1>1, <2>1 DEF Evaluation, Rejected, Evaluations
<1>2. CASE FailedGates(c) = {} /\ (Equity(c) <= 0 \/ ScaledBudget(c) = 0 \/ Shares(c) = 0)
    BY <1>2 DEF Evaluation, Rejected, Evaluations, EvaluationReasons
<1>3. CASE FailedGates(c) = {} /\ ~(Equity(c) <= 0 \/ ScaledBudget(c) = 0 \/ Shares(c) = 0)
  <2>1. Equity(c) \in Nat /\ Equity(c) > 0
    BY <1>3, ContextParts
  <2>2. BaseBudget(c) \in Nat /\ ScaledBudget(c) \in Nat /\ ScaledBudget(c) <= BaseBudget(c)
    BY <2>1, BudgetShrinks
  <2>3. Ceiling(c) \in Nat /\ 10 * Ceiling(c) <= Equity(c) /\ 100 * BaseBudget(c) <= Equity(c)
        /\ 10 * BaseBudget(c) <= Ceiling(c)
    BY <2>1 DEF Ceiling, BaseBudget
  <2>4. /\ c.proposes /\ c.confidence >= 600
        /\ 100 * Portfolio(c).pnl >= -3 * Equity(c)
        /\ ReferencePrice(c.market) > 0
    BY <1>3, <2>1, GatesPassed
  <2>5. StopDistance(c) \in Nat /\ StopDistance(c) <= ScaledBudget(c)
    BY <1>3, <2>2, <2>3, <2>4, StopType, StopFits
  <2>9. 0 < ScaledBudget(c) /\ 10 * ScaledBudget(c) <= Ceiling(c)
    BY <1>3, <2>2, <2>3
  <2> DEFINE why == IF Reductions(c) = {} THEN "WITHIN_LIMITS" ELSE FirstIn(SoftLimits, Reductions(c))
             how == IF Reductions(c) = {} THEN "APPROVED" ELSE "REDUCED"
  <2>6. why \in EvaluationReasons
    BY SoftLimitType DEF EvaluationReasons
  <2>7. how \in {"APPROVED", "REDUCED"}
    OBVIOUS
  <2>8. Evaluation(c) = [decision |-> how, reason |-> why, base |-> BaseBudget(c),
                         adjusted |-> ScaledBudget(c), stop |-> StopDistance(c),
                         ceiling |-> Ceiling(c)]
    BY <1>3 DEF Evaluation
  <2> HIDE DEF why, how
  <2> QED
    BY <2>1, <2>2, <2>3, <2>4, <2>5, <2>6, <2>7, <2>8, <2>9 DEF Evaluations, Granted
<1> QED
    BY <1>1, <1>2, <1>3

---------------------------------------------------------------------------
(* M5. *)

Plans ==
    [kind : {"NO_TRADE", "STOCK", "OPTION"}, direction : Directions \cup {"NONE"},
     price : Nat, quantity : Nat, notional : Nat, loss : Nat, score : Int,
     reason : {"NONE", "RISK_REJECTED", "NO_ELIGIBLE_EQUITY_PLAN"}]

(* What a plan may lose and be worth under the evaluation it was made of.  *)
Fits(p, ev) ==
    p.kind # "NO_TRADE" =>
        /\ p.loss <= ev.adjusted
        /\ p.kind = "STOCK" =>
              /\ p.price > 0
              /\ p.notional = SmallerOf(NotionalAtRisk(ev.adjusted, ev.stop, p.price), ev.ceiling)
              /\ p.notional <= ev.ceiling
              /\ p.quantity * p.price <= 1000 * p.notional
              /\ 1000 * p.notional < p.quantity * p.price + p.price

LEMMA NoPlanFits ==
    ASSUME NEW ev, NEW r \in {"RISK_REJECTED", "NO_ELIGIBLE_EQUITY_PLAN"}
    PROVE  NoPlan \in Plans /\ NoTrade(r) \in Plans /\ Fits(NoPlan, ev) /\ Fits(NoTrade(r), ev)
           /\ NoPlan.kind = "NO_TRADE" /\ NoTrade(r).kind = "NO_TRADE"
BY DEF NoPlan, NoTrade, Plans, Fits

(* What is lost at the stop of a notional sized by that stop. *)
LEMMA LossFits ==
    ASSUME NEW b \in Nat, NEW st \in Nat, NEW price \in Nat \ {0}, NEW n \in Nat,
           n <= NotionalAtRisk(b, st, price)
    PROVE  LossAtStop(n, st, price) \in Nat /\ LossAtStop(n, st, price) <= b
<1>1. CASE st > 0
  <2> DEFINE risk == (b * price) \div st
  <2>1. b * price \in Nat /\ n * st \in Nat /\ st \in Nat \ {0}
    BY <1>1
  <2>2. risk \in Int /\ risk * st <= b * price
    BY <2>1, Quotient
  <2>3. n <= risk
    BY <1>1 DEF NotionalAtRisk
  <2> HIDE DEF risk
  <2>4. n * st <= risk * st
    BY <2>2, <2>3, ProductMonotone
  <2>5. risk * st \in Int
    BY <2>2
  <2> DEFINE x == n * st
             y == b * price
  <2>6. x <= y
    BY <2>1, <2>2, <2>4, <2>5
  <2>7. x \div price <= b /\ x \div price \in Nat
    BY <2>1, <2>6, QuotientBound, QuotientType
  <2> QED
    BY <1>1, <2>7 DEF LossAtStop
<1>2. CASE ~(st > 0)
  <2>1. n <= 50 * b
    BY <1>2 DEF NotionalAtRisk
  <2>2. n \div 50 \in Nat /\ n \div 50 <= b
    BY <2>1
  <2> QED
    BY <1>2, <2>2 DEF LossAtStop
<1> QED
    BY <1>1, <1>2

LEMMA MarketParts ==
    ASSUME NEW m \in Market
    PROVE  ReferencePrice(m) \in Int /\ m.volume \in Int /\ QualityBonus[m.quality] \in Int
           /\ m.quote.ask \in Int /\ m.quote.bid \in Int
<1>1. m.quote.ask \in Int /\ m.quote.bid \in Int /\ m.last \in Int /\ m.volume \in Int
    BY DEF Market, Quote, Features, None
<1>2. ReferencePrice(m) \in Int
    BY <1>1 DEF ReferencePrice, Midpoint
<1>3. QualityBonus[m.quality] \in Int
    BY DEF Market, QualityBonus
<1> QED
    BY <1>1, <1>2, <1>3

LEMMA StockScoreType ==
    ASSUME NEW m \in Market, NEW ev \in Evaluations
    PROVE  StockScore(m, ev) \in Int
<1>1. SpreadBonus(m.quote) \in {0, 5, 10}
    BY DEF SpreadBonus
<1> DEFINE v == IF m.volume > 1000 THEN 15 ELSE 0
           k == IF 5 * ev.adjusted >= 4 * ev.base THEN 10 ELSE 0
           x == 50 + QualityBonus[m.quality] + v + SpreadBonus(m.quote) + k
<1>2. v \in Int /\ k \in Int
    OBVIOUS
<1> HIDE DEF v, k
<1>3. x \in Int
    BY <1>1, <1>2, MarketParts
<1>4. StockScore(m, ev) = 100 * SmallerOf(100, x)
    BY DEF StockScore, v, k
<1> HIDE DEF x
<1> QED
    BY <1>3, <1>4 DEF SmallerOf

LEMMA StockPlanFacts ==
    ASSUME NEW ev \in Evaluations, NEW m \in Market, NEW d \in Directions
    PROVE  StockPlan(ev, m, d) \in Plans /\ Fits(StockPlan(ev, m, d), ev)
<1>1. CASE ReferencePrice(m) <= 0
    BY <1>1, NoPlanFits DEF StockPlan
<1>2. CASE ~(ReferencePrice(m) <= 0)
  <2> DEFINE price == ReferencePrice(m)
             n == SmallerOf(NotionalAtRisk(ev.adjusted, ev.stop, price), ev.ceiling)
             q == (n * 1000) \div price
             loss == LossAtStop(n, ev.stop, price)
  <2>1. price \in Nat \ {0} /\ ev.adjusted \in Nat /\ ev.stop \in Nat /\ ev.ceiling \in Nat
    BY <1>2, MarketParts DEF Evaluations
  <2>2. NotionalAtRisk(ev.adjusted, ev.stop, price) \in Nat
    BY <2>1, NotionalType
  <2>3. n \in Nat /\ n <= NotionalAtRisk(ev.adjusted, ev.stop, price) /\ n <= ev.ceiling
    BY <2>1, <2>2 DEF SmallerOf
  <2>4. StockPlan(ev, m, d) = [kind |-> "STOCK", direction |-> d, price |-> price, quantity |-> q,
                               notional |-> n, loss |-> loss, score |-> StockScore(m, ev),
                               reason |-> "NONE"]
    BY <1>2 DEF StockPlan
  <2> HIDE DEF n, price
  <2>5. loss \in Nat /\ loss <= ev.adjusted
    BY <2>1, <2>3, LossFits
  <2>6. n * 1000 \in Nat
    BY <2>3
  <2>7. q \in Nat /\ q * price <= n * 1000 /\ n * 1000 < q * price + price
    BY <2>1, <2>6, Quotient, QuotientType
  <2>9. n = SmallerOf(NotionalAtRisk(ev.adjusted, ev.stop, price), ev.ceiling)
    BY DEF n
  <2> HIDE DEF q, loss
  <2>8. q * price <= 1000 * n /\ 1000 * n < q * price + price
    BY <2>1, <2>3, <2>7
  <2> QED
    BY <2>1, <2>3, <2>4, <2>5, <2>7, <2>8, <2>9, StockScoreType DEF Plans, Fits
<1> QED
    BY <1>1, <1>2

LEMMA OptionScoreType ==
    ASSUME NEW o \in Option, Liquid(o), NEW price
    PROVE  OptionScore(o, price) \in Int
<1>1. SizeScore(o) \in Int
    BY DEF SizeScore
<1>2. OptionSpreadScore(o) \in Int
  <2>1. o.ask \in Nat /\ o.bid \in Nat /\ o.ask >= o.bid /\ o.bid > 0
    BY DEF Option, Liquid
  <2>2. OptionMidpoint(o) \in Nat \ {0}
    BY <2>1 DEF OptionMidpoint
  <2>3. (1000 * (o.ask - o.bid)) \div OptionMidpoint(o) \in Int
    BY <2>1, <2>2
  <2> QED
    BY <2>3 DEF OptionSpreadScore
<1>3. ExpiryScore(o) \in Int
    BY DEF ExpiryScore
<1>4. MoneynessScore(o, price) \in Int
    BY DEF MoneynessScore
<1>5. DeltaScore(o) \in Int
    BY DEF DeltaScore
<1>6. VolatilityScore(o) \in Int
    BY DEF VolatilityScore
<1>7. DataScore(o) \in Int
    BY DEF DataScore
<1> QED
    BY <1>1, <1>2, <1>3, <1>4, <1>5, <1>6, <1>7 DEF OptionScore

(* Whole contracts paid from the budget do not exceed it. *)
LEMMA OptionPlanFacts ==
    ASSUME NEW ev \in Evaluations, NEW o \in Option, NEW price, NEW d \in Directions,
           Liquid(o)
    PROVE  OptionPlan(o, ev, price, d) \in Plans /\ Fits(OptionPlan(o, ev, price, d), ev)
<1> DEFINE b == ev.adjusted
           f == Premium(o)
           k == Contracts(o, b)
<1>1. b \in Nat /\ f \in Nat \ {0}
    BY DEF Evaluations, Option, Liquid, Premium, Multiplier
<1>2. b \div f \in Nat /\ (b \div f) * f <= b
    BY <1>1, Quotient, QuotientType
<1>3. k \in Nat /\ k <= b \div f
    BY <1>1, <1>2 DEF Contracts, SmallerOf, MaxContracts
<1>4. OptionPlan(o, ev, price, d)
        = [kind |-> "OPTION", direction |-> d, price |-> 0, quantity |-> 1000 * k,
           notional |-> k * f, loss |-> k * f, score |-> OptionScore(o, price), reason |-> "NONE"]
    BY DEF OptionPlan
<1> DEFINE most == b \div f
<1> HIDE DEF k, f, b
<1>5. k * f \in Nat /\ k * f <= most * f
  <2>1. most \in Nat /\ k <= most
    BY <1>2, <1>3
  <2> HIDE DEF most
  <2> QED
    BY <1>1, <1>3, <2>1, ProductMonotone
<1>6. k * f <= b
  <2>1. most * f \in Int /\ most * f <= b
    BY <1>1, <1>2
  <2> HIDE DEF most
  <2> QED
    BY <1>1, <1>5, <2>1
<1>7. OptionScore(o, price) \in Int
    BY OptionScoreType
<1> QED
    BY <1>3, <1>4, <1>5, <1>6, <1>7 DEF Plans, Fits, b

LEMMA SelectionFacts ==
    ASSUME NEW ev \in Evaluations, NEW m \in Market, NEW d \in Directions, NEW chain \in SUBSET Option,
           NEW p \in Selections(ev, m, d, chain)
    PROVE  p \in Plans /\ Fits(p, ev) /\ (ev.decision = "REJECTED" => p.kind = "NO_TRADE")
<1>1. CASE ev.decision = "REJECTED"
    BY <1>1, NoPlanFits DEF Selections
<1>2. CASE ev.decision # "REJECTED"
  <2>1. PICK option \in OptionPlans(chain, ev, m, d) : p = Preferred(StockPlan(ev, m, d), option)
    BY <1>2 DEF Selections
  <2>2. option \in Plans /\ Fits(option, ev)
    <3>1. CASE option = NoPlan
      BY <3>1, NoPlanFits
    <3>2. CASE option # NoPlan
      <4>1. PICK o \in BestOptions(EligibleOptions(chain, d, ReferencePrice(m), ev.adjusted),
                                   ReferencePrice(m)) :
                option = OptionPlan(o, ev, ReferencePrice(m), d)
        BY <2>1, <3>2 DEF OptionPlans
      <4>2. o \in Option /\ Liquid(o)
        BY <4>1 DEF BestOptions, EligibleOptions, Directional, Eligible
      <4> QED
        BY <4>1, <4>2, OptionPlanFacts
    <3> QED
      BY <3>1, <3>2
  <2>3. p \in {NoTrade("NO_ELIGIBLE_EQUITY_PLAN"), StockPlan(ev, m, d), option}
    BY <2>1 DEF Preferred
  <2> QED
    BY <1>2, <2>2, <2>3, NoPlanFits, StockPlanFacts
<1> QED
    BY <1>1, <1>2

---------------------------------------------------------------------------
(* M6. *)

Orders == [side : {"NONE", "BUY", "SELL"}, quantity : Nat, limit : Nat, mid : Nat, notional : Nat]

LEMMA MidpointType ==
    ASSUME NEW q \in Quote, QuoteIsTradable(q)
    PROVE  Midpoint(q) \in Nat /\ RoundToTick(Midpoint(q)) \in Nat
<1>1. q.bid \in Nat /\ q.ask \in Nat
    BY DEF Quote, QuoteIsTradable
<1>2. Midpoint(q) \in Nat
    BY <1>1 DEF Midpoint
<1> QED
    BY <1>2 DEF RoundToTick, Dollar

LEMMA OrderType ==
    ASSUME NEW p \in Plans, NEW q \in Quote, QuoteIsTradable(q)
    PROVE  ExecutionPlan(p, q) \in Orders
<1> DEFINE limit == RoundToTick(Midpoint(q))
<1>1. limit \in Nat /\ Midpoint(q) \in Nat /\ p.quantity \in Nat
    BY MidpointType DEF Plans
<1>2. ExpectedNotional(p, limit) \in Nat
  <2>1. (limit * p.quantity) \div 1000 \in Nat
    BY <1>1
  <2>2. limit * (p.quantity \div 1000) * Multiplier \in Nat
    <3>1. p.quantity \div 1000 \in Nat
      BY <1>1
    <3> HIDE DEF limit
    <3> QED
      BY <1>1, <3>1 DEF Multiplier
  <2> QED
    BY <2>1, <2>2 DEF ExpectedNotional
<1> QED
    BY <1>1, <1>2 DEF ExecutionPlan, Orders, SideOf

(* Half a percent from the planned price and rounded to a cent, a limit    *)
(* price is at most one per cent above it.                                 *)
LEMMA LimitIsNear ==
    ASSUME NEW mid \in Nat, NEW price \in Nat \ {0}, 200 * Magnitude(mid - price) <= price
    PROVE  RoundToTick(mid) \in Nat /\ 100 * RoundToTick(mid) <= 101 * price
<1>1. 200 * mid <= 201 * price
    BY DEF Magnitude
<1>2. CASE mid >= Dollar
    BY <1>1, <1>2 DEF RoundToTick, Dollar
<1>3. CASE ~(mid >= Dollar)
    BY <1>1, <1>3 DEF RoundToTick
<1> QED
    BY <1>2, <1>3

LEMMA OrderIsNear ==
    ASSUME NEW ev \in Evaluations, NEW p \in Plans, Fits(p, ev), NEW q \in Quote,
           QuoteIsTradable(q), PriceHolds(p, q), p.kind = "STOCK"
    PROVE  100 * ExecutionPlan(p, q).notional <= 101 * ev.ceiling
<1> DEFINE limit == RoundToTick(Midpoint(q))
           price == p.price
           k == p.quantity
           n == p.notional
<1>1. /\ price \in Nat \ {0} /\ k \in Nat /\ n \in Nat /\ ev.ceiling \in Nat
      /\ n <= ev.ceiling /\ k * price <= 1000 * n
    BY DEF Fits, Plans, Evaluations
<1>2. limit \in Nat /\ 100 * limit <= 101 * price
    BY <1>1, MidpointType, LimitIsNear DEF PriceHolds
<1>3. ExecutionPlan(p, q).notional = (limit * k) \div 1000
    BY DEF ExecutionPlan, ExpectedNotional
<1> HIDE DEF limit, price, k, n
<1>4. (100 * limit) * k <= (101 * price) * k
    BY <1>1, <1>2, ProductMonotone
<1>5. 100 * (limit * k) <= 101 * (k * price)
    BY <1>1, <1>2, <1>4
<1> DEFINE x == limit * k
           y == k * price
<1>6. x \in Nat /\ y \in Nat /\ 100 * x <= 101 * y /\ y <= 1000 * n
    BY <1>1, <1>2, <1>5
<1> HIDE DEF x, y
<1>7. 100 * (x \div 1000) <= 101 * n
    BY <1>1, <1>6
<1>8. ExecutionPlan(p, q).notional = x \div 1000 /\ x \div 1000 \in Nat
    BY <1>3, <1>6 DEF x
<1> QED
    BY <1>1, <1>7, <1>8

---------------------------------------------------------------------------
(* The invariant: the evaluation is that of a context that was read, the   *)
(* plan fits it, and the order is the plan's at a quote the planner took.  *)
Blank ==
    /\ stage \in {"evaluate", "raised"}
    /\ context = NoContext /\ evaluation = NoEvaluation
    /\ plan = NoPlan /\ order = NoOrder /\ authorization = Unanswered

Evaluated ==
    /\ stage \in {"select", "execute", "authorize", "answered", "raised", "not planned"}
    /\ context \in Contexts /\ evaluation = Evaluation(context)

Planned ==
    /\ plan \in Plans /\ Fits(plan, evaluation)
    /\ evaluation.decision = "REJECTED" => plan.kind = "NO_TRADE"
    /\ stage = "select" => plan = NoPlan

Ordered ==
    \/ /\ order = NoOrder /\ authorization = Unanswered
       /\ stage \notin {"authorize", "answered"}
    \/ /\ stage \in {"authorize", "answered"}
       /\ plan.kind # "NO_TRADE"
       /\ \E q \in Quotes, asset \in [tradable : BOOLEAN], open \in BOOLEAN :
             Plannable(plan, q, asset, open) /\ order = ExecutionPlan(plan, q)

Authorizations ==
    [state : {"NONE", "AUTHORIZED", "DENIED"}, reason : {"NONE", "WITHIN_LIMITS"} \cup Listed(Reasons)]

Answered ==
    /\ authorization \in Authorizations
    /\ authorization.state = "AUTHORIZED" =>
          /\ stage = "answered"
          /\ permission.execution /\ permission.paper
          /\ order.notional <= evaluation.adjusted /\ order.quantity > 0
          /\ evaluation.decision # "REJECTED"

IInv ==
    /\ permission \in Permissions
    /\ Blank \/ (Evaluated /\ Planned /\ Ordered /\ Answered)

LEMMA Granting ==
    ASSUME Evaluated
    PROVE  /\ context \in Context /\ evaluation \in Evaluations /\ evaluation.decision # "NONE"
           /\ evaluation.decision # "REJECTED" => Granted(context, evaluation)
BY EvaluationFacts, ContextAssumption DEF Evaluated

LEMMA Start == Init => IInv
BY DEF Init, IInv, Blank

LEMMA Allowed ==
    ASSUME NEW x, NEW p, NEW ev, NEW kill, NEW expired, Denials(x, p, ev, kill, expired) = {},
           permission \in Permissions
    PROVE  /\ permission.execution /\ permission.paper
           /\ ev.decision # "REJECTED"
           /\ x.notional <= ev.adjusted /\ ~(x.quantity <= 0)
<1> DEFINE D == Denials(x, p, ev, kill, expired)
<1>1. "EXECUTION_DISABLED" \notin D /\ "RISK_REJECTED" \notin D /\ "RISK_BUDGET_EXCEEDED" \notin D
      /\ "INVALID_QUANTITY" \notin D
    OBVIOUS
<1>2. ~(~permission.execution \/ ~permission.paper)
    BY <1>1 DEF Denials
<1>3. ~(p.reason = "RISK_REJECTED" \/ ev.decision = "REJECTED")
    BY <1>1 DEF Denials
<1>4. WithinBudget(x, p, ev)
    BY <1>1 DEF Denials
<1>5. ~(x.quantity <= 0 \/ x.quantity > p.quantity)
    BY <1>1 DEF Denials
<1> QED
    BY <1>2, <1>3, <1>4, <1>5 DEF WithinBudget

LEMMA Step == IInv /\ [Next]_vars => IInv'
<1> SUFFICES ASSUME IInv, [Next]_vars PROVE IInv'
    OBVIOUS
<1>0. permission' = permission /\ permission \in Permissions
    BY DEF IInv, Next, vars, Evaluate, Select, Raises, BuildExecutionPlan, BuildRaises, Authorize,
           ExecuteAgain
<1>1. CASE Evaluate
  <2>1. Blank /\ stage = "evaluate"
    BY <1>1 DEF IInv, Evaluate, Evaluated
  <2>2. Evaluated'
    BY <1>1 DEF Evaluate, Evaluated
  <2>3. plan' = NoPlan /\ order' = NoOrder /\ authorization' = Unanswered /\ stage' = "select"
    BY <1>1, <2>1 DEF Evaluate, Blank
  <2>4. Planned'
    BY <2>3, NoPlanFits DEF Planned
  <2>5. Ordered' /\ Answered'
    BY <2>3 DEF Ordered, Answered, Unanswered, Authorizations
  <2> QED
    BY <1>0, <2>2, <2>4, <2>5 DEF IInv
<1>2. CASE Select
  <2>1. Evaluated /\ Ordered /\ Answered /\ stage = "select"
    BY <1>2 DEF IInv, Select, Blank
  <2>2. PICK m \in Markets, chain \in Chains \cup {{}} :
           plan' \in Selections(evaluation, m, context.direction, chain)
    BY <1>2 DEF Select
  <2>3. m \in Market /\ chain \in SUBSET Option
    BY MarketAssumption, ChainAssumption
  <2>4. evaluation \in Evaluations /\ context.direction \in Directions
    BY <2>1, Granting DEF Context
  <2>5. plan' \in Plans /\ Fits(plan', evaluation)
        /\ (evaluation.decision = "REJECTED" => plan'.kind = "NO_TRADE")
    BY <2>2, <2>3, <2>4, SelectionFacts
  <2>6. stage' = "execute" /\ UNCHANGED <<context, evaluation, order, authorization>>
    BY <1>2 DEF Select
  <2>7. order = NoOrder /\ authorization = Unanswered
    BY <2>1 DEF Ordered
  <2>8. Evaluated' /\ Planned'
    BY <2>1, <2>5, <2>6 DEF Evaluated, Planned
  <2>9. Ordered' /\ Answered'
    BY <2>6, <2>7 DEF Ordered, Answered, Unanswered, Authorizations
  <2> QED
    BY <1>0, <2>8, <2>9 DEF IInv
<1>3. CASE Raises
  <2>1. stage' = "raised" /\ UNCHANGED <<context, evaluation, plan, order, authorization>>
    BY <1>3 DEF Raises
  <2>2. CASE Blank
    BY <1>0, <2>1, <2>2 DEF IInv, Blank
  <2>3. CASE Evaluated /\ Planned /\ Ordered /\ Answered
    <3>1. stage = "select"
      BY <1>3, <2>3 DEF Raises, Evaluated
    <3>2. order = NoOrder /\ authorization = Unanswered
      BY <2>3, <3>1 DEF Ordered
    <3> QED
      BY <1>0, <2>1, <2>3, <3>1, <3>2
         DEF IInv, Evaluated, Planned, Ordered, Answered, Unanswered, Authorizations
  <2> QED
    BY <2>2, <2>3 DEF IInv
<1>4. CASE BuildExecutionPlan
  <2>1. Evaluated /\ Planned /\ Ordered /\ Answered /\ stage = "execute"
    BY <1>4 DEF IInv, BuildExecutionPlan, Blank
  <2>2. PICK q \in Quotes, asset \in [tradable : BOOLEAN], open \in BOOLEAN :
           Plannable(plan, q, asset, open) /\ order' = ExecutionPlan(plan, q)
    BY <1>4 DEF BuildExecutionPlan
  <2>3. stage' = "authorize" /\ UNCHANGED <<context, evaluation, plan, authorization>>
    BY <1>4 DEF BuildExecutionPlan
  <2>4. plan.kind # "NO_TRADE" /\ authorization = Unanswered
    BY <2>1, <2>2 DEF Plannable, Ordered
  <2>5. Ordered'
    BY <2>2, <2>3, <2>4 DEF Ordered
  <2>6. Evaluated' /\ Planned' /\ Answered'
    BY <2>1, <2>3, <2>4 DEF Evaluated, Planned, Answered, Unanswered, Authorizations
  <2> QED
    BY <1>0, <2>5, <2>6 DEF IInv
<1>5. CASE BuildRaises
  <2>1. Evaluated /\ Planned /\ Ordered /\ Answered /\ stage = "execute"
    BY <1>5 DEF IInv, BuildRaises, Blank
  <2>2. stage' = "not planned" /\ UNCHANGED <<context, evaluation, plan, order, authorization>>
    BY <1>5 DEF BuildRaises
  <2>3. order = NoOrder /\ authorization = Unanswered
    BY <2>1 DEF Ordered
  <2> QED
    BY <1>0, <2>1, <2>2, <2>3
       DEF IInv, Evaluated, Planned, Ordered, Answered, Unanswered, Authorizations
<1>6. CASE Authorize
  <2>1. Evaluated /\ Planned /\ Ordered /\ stage = "authorize"
    BY <1>6 DEF IInv, Authorize, Blank
  <2>2. PICK kill \in BOOLEAN, expired \in BOOLEAN :
          authorization' = IF Denials(order, plan, evaluation, kill, expired) = {}
                           THEN [state |-> "AUTHORIZED", reason |-> "WITHIN_LIMITS"]
                           ELSE [state |-> "DENIED",
                                 reason |-> FirstIn(Reasons, Denials(order, plan, evaluation, kill, expired))]
    BY <1>6 DEF Authorize
  <2>3. stage' = "answered" /\ UNCHANGED <<context, evaluation, plan, order>>
    BY <1>6 DEF Authorize
  <2>4. Evaluated' /\ Planned' /\ Ordered'
    BY <2>1, <2>3 DEF Evaluated, Planned, Ordered
  <2>5. Answered'
    <3>1. CASE Denials(order, plan, evaluation, kill, expired) = {}
      <4>1. /\ permission.execution /\ permission.paper
            /\ evaluation.decision # "REJECTED" /\ order.notional <= evaluation.adjusted
            /\ ~(order.quantity <= 0)
        BY <1>0, <3>1, Allowed
      <4>3. order.quantity > 0
        <5>1. order.quantity \in Nat
          <6>1. PICK q \in Quotes, asset \in [tradable : BOOLEAN], open \in BOOLEAN :
                   Plannable(plan, q, asset, open) /\ order = ExecutionPlan(plan, q)
            BY <2>1 DEF Ordered
          <6> QED
            BY <2>1, <6>1 DEF ExecutionPlan, Planned, Plans
        <5> QED
          BY <4>1, <5>1
      <4>2. authorization' \in Authorizations
        BY <2>2, <3>1 DEF Authorizations
      <4> QED
        BY <1>0, <2>3, <4>1, <4>2, <4>3 DEF Answered
    <3>2. CASE Denials(order, plan, evaluation, kill, expired) # {}
      <4>1. FirstIn(Reasons, Denials(order, plan, evaluation, kill, expired)) \in Listed(Reasons)
        BY <3>2, DenialType
      <4>2. authorization'.state = "DENIED" /\ authorization' \in Authorizations
        BY <2>2, <3>2, <4>1 DEF Authorizations
      <4> QED
        BY <4>2 DEF Answered
    <3> QED
      BY <3>1, <3>2
  <2> QED
    BY <1>0, <2>4, <2>5 DEF IInv
<1>7. CASE ExecuteAgain
  <2>1. Evaluated /\ Planned
    BY <1>7 DEF IInv, ExecuteAgain, Blank
  <2>2. /\ stage' = "execute" /\ order' = NoOrder /\ authorization' = Unanswered
        /\ UNCHANGED <<context, evaluation, plan>>
    BY <1>7 DEF ExecuteAgain
  <2> QED
    BY <1>0, <2>1, <2>2
       DEF IInv, Evaluated, Planned, Ordered, Answered, Unanswered, Authorizations
<1>8. CASE UNCHANGED vars
    BY <1>8 DEF IInv, Blank, Evaluated, Planned, Ordered, Answered, vars
<1> QED
    BY <1>1, <1>2, <1>3, <1>4, <1>5, <1>6, <1>7, <1>8 DEF Next

(* What the stages know of one another is kept by every step. *)
THEOREM Invariance == Spec => []IInv
BY Start, Step, PTL DEF Spec

---------------------------------------------------------------------------
(* The properties. *)

(* The variables keep their types: every budget, quantity, price and loss  *)
(* is a natural number and every reason one of those listed.               *)
THEOREM TypeCorrect == Spec => []TypeOK
<1>1. IInv => TypeOK
  <2>1. CASE Blank /\ permission \in Permissions
    <3>1. plan \in Plans
      BY <2>1, NoPlanFits DEF Blank
    <3>2. evaluation \in Evaluations
      BY <2>1 DEF Blank, NoEvaluation, Evaluations, EvaluationReasons
    <3>3. order \in Orders /\ authorization \in Authorizations
      BY <2>1 DEF Blank, NoOrder, Orders, Unanswered, Authorizations
    <3> QED
      BY <2>1, <3>1, <3>2, <3>3
         DEF TypeOK, Blank, Authorizations, Orders, Plans, Evaluations, EvaluationReasons
  <2>2. CASE Evaluated /\ Planned /\ Ordered /\ Answered /\ permission \in Permissions
    <3>1. evaluation \in Evaluations
      BY <2>2, Granting
    <3>2. order \in Orders
      <4>1. CASE order = NoOrder
        BY <4>1 DEF NoOrder, Orders
      <4>2. CASE order # NoOrder
        <5>1. PICK q \in Quotes, asset \in [tradable : BOOLEAN], open \in BOOLEAN :
                 Plannable(plan, q, asset, open) /\ order = ExecutionPlan(plan, q)
          BY <2>2, <4>2 DEF Ordered
        <5>2. q \in Quote /\ QuoteIsTradable(q) /\ plan \in Plans
          BY <2>2, <5>1, MarketAssumption DEF Plannable, Planned
        <5> QED
          BY <5>1, <5>2, OrderType
      <4> QED
        BY <4>1, <4>2
    <3> QED
      BY <2>2, <3>1, <3>2
         DEF TypeOK, Evaluated, Planned, Answered, Authorizations, Orders, Plans, Evaluations,
             EvaluationReasons
  <2> QED
    BY <2>1, <2>2 DEF IInv
<1> QED
    BY <1>1, Invariance, PTL

(* A thesis M4 rejected never becomes an order: not by a selection, and    *)
(* not by executing its plan again.                                        *)
THEOREM RejectedForGood == Spec => []RejectionIsFinal
<1>1. IInv => RejectionIsFinal
  <2>1. CASE Blank
    BY <2>1 DEF Blank, RejectionIsFinal, NoEvaluation
  <2>2. CASE Planned /\ Ordered /\ Answered
    BY <2>2 DEF RejectionIsFinal, Planned, Ordered, Answered, Unanswered
  <2> QED
    BY <2>1, <2>2 DEF IInv
<1> QED
    BY <1>1, Invariance, PTL

(* Whatever the market did between the stages, an authorised order is      *)
(* within one per cent of the equity M4 read, and its thesis passed M4.    *)
THEOREM AuthorizedWithinM4 == Spec => []AuthorizedFitsM4
<1>1. IInv => AuthorizedFitsM4
  <2>1. CASE Blank
    BY <2>1 DEF Blank, AuthorizedFitsM4, Unanswered
  <2>2. CASE IInv /\ Evaluated /\ Planned /\ Ordered /\ Answered
    <3> SUFFICES ASSUME authorization.state = "AUTHORIZED" PROVE AuthorizedFitsM4
      BY DEF AuthorizedFitsM4
    <3>1. /\ permission.execution /\ permission.paper /\ evaluation.decision # "REJECTED"
          /\ order.notional <= evaluation.adjusted
      BY <2>2 DEF Answered
    <3>2. Granted(context, evaluation) /\ evaluation \in Evaluations /\ evaluation.decision # "NONE"
          /\ context \in Context
      BY <2>2, <3>1, Granting
    <3>3. evaluation.decision \in {"APPROVED", "REDUCED"} /\ evaluation.adjusted \in Nat
          /\ evaluation.base \in Nat
      BY <3>1, <3>2 DEF Evaluations
    <3>4. order.notional \in Int
      <4>1. PICK q \in Quotes, asset \in [tradable : BOOLEAN], open \in BOOLEAN :
               Plannable(plan, q, asset, open) /\ order = ExecutionPlan(plan, q)
        BY <2>2 DEF Ordered, Unanswered
      <4>2. ExecutionPlan(plan, q) \in Orders
        BY <2>2, <4>1, OrderType, MarketAssumption DEF Plannable, Planned
      <4> QED
        BY <4>1, <4>2 DEF Orders
    <3>5. Equity(context) \in Int
      BY <3>2, ContextParts
    <3> QED
      BY <3>1, <3>2, <3>3, <3>4, <3>5 DEF AuthorizedFitsM4, Granted
  <2> QED
    BY <2>1, <2>2 DEF IInv
<1> QED
    BY <1>1, Invariance, PTL

(* A plan's loss fits the budget although the market was read anew.        *)
THEOREM PlansWithinBudget == Spec => []PlansFitTheBudget
<1>1. IInv => PlansFitTheBudget
  <2>1. CASE Blank
    BY <2>1 DEF Blank, PlansFitTheBudget, NoPlan
  <2>2. CASE Evaluated /\ Planned
    <3> SUFFICES ASSUME plan.kind # "NO_TRADE" PROVE PlansFitTheBudget
      BY DEF PlansFitTheBudget
    <3>1. Granted(context, evaluation) /\ evaluation \in Evaluations /\ context \in Context
      BY <2>2, Granting DEF Planned
    <3>2. plan \in Plans /\ Fits(plan, evaluation) /\ Equity(context) \in Int
      BY <2>2, <3>1, ContextParts DEF Planned
    <3> QED
      BY <3>1, <3>2 DEF PlansFitTheBudget, Granted, Fits, Plans, Evaluations
  <2> QED
    BY <2>1, <2>2 DEF IInv
<1> QED
    BY <1>1, Invariance, PTL

(* The price an order is limited to moves a stock order at most one per    *)
(* cent over M4's ceiling.                                                 *)
THEOREM OrdersNearTheCeiling == Spec => []OrdersStayNearTheCeiling
<1>1. IInv => OrdersStayNearTheCeiling
  <2>1. CASE Blank
    BY <2>1 DEF Blank, OrdersStayNearTheCeiling, NoPlan
  <2>2. CASE Evaluated /\ Planned /\ Ordered
    <3> SUFFICES ASSUME plan.kind = "STOCK" PROVE OrdersStayNearTheCeiling
      BY DEF OrdersStayNearTheCeiling
    <3>1. evaluation \in Evaluations
      BY <2>2, Granting
    <3>2. CASE order = NoOrder
      BY <3>1, <3>2 DEF OrdersStayNearTheCeiling, NoOrder, Evaluations
    <3>3. CASE order # NoOrder
      <4>1. PICK q \in Quotes, asset \in [tradable : BOOLEAN], open \in BOOLEAN :
               Plannable(plan, q, asset, open) /\ order = ExecutionPlan(plan, q)
        BY <2>2, <3>3 DEF Ordered
      <4>2. plan \in Plans /\ Fits(plan, evaluation) /\ q \in Quote
            /\ QuoteIsTradable(q) /\ PriceHolds(plan, q)
        BY <2>2, <4>1, MarketAssumption DEF Planned, Plannable
      <4> QED
        BY <3>1, <4>1, <4>2, OrderIsNear DEF OrdersStayNearTheCeiling
    <3> QED
      BY <3>2, <3>3
  <2> QED
    BY <2>1, <2>2 DEF IInv
<1> QED
    BY <1>1, Invariance, PTL

---------------------------------------------------------------------------
(* What the portfolio may do to a budget. *)

Unencumbered(c) == [c EXCEPT !.portfolio = EmptyPortfolio]

LEMMA UnencumberedParts ==
    ASSUME NEW c \in Context
    PROVE  LET e == Unencumbered(c)
           IN  /\ e \in Context
               /\ Equity(e) = Equity(c) /\ Portfolio(e) = EmptyPortfolio
               /\ e.market = c.market /\ e.atr = c.atr /\ e.proposes = c.proposes
               /\ e.confidence = c.confidence /\ e.volatility = c.volatility
<1> DEFINE e == Unencumbered(c)
<1>1. EmptyPortfolio \in Holdings /\ EmptyPortfolio.readable
    BY DEF EmptyPortfolio, Holdings
<1>2. e \in Context /\ e.portfolio = EmptyPortfolio
    BY <1>1 DEF Unencumbered, Context
<1>3. /\ e.market = c.market /\ e.atr = c.atr /\ e.proposes = c.proposes
      /\ e.confidence = c.confidence /\ e.volatility = c.volatility /\ e.account = c.account
    BY DEF Unencumbered, Context
<1> HIDE DEF e
<1>4. Equity(e) = Equity(c) /\ Portfolio(e) = EmptyPortfolio
    BY <1>1, <1>2, <1>3 DEF Equity, Portfolio
<1> QED
    BY <1>2, <1>3, <1>4 DEF e

LEMMA EmptyShare == ASSUME NEW w \in Int, w > 0 PROVE Share(0, w) = 0
<1>1. CASE w < 1000
  <2>1. (-1000 * 0) \div w = 0
    BY <1>1
  <2> QED
    BY <1>1, <2>1 DEF Share
<1>2. CASE w >= 1000
  <2>1. w \div 1000 > 0 /\ w \div 1000 \in Int
    BY <1>2
  <2>2. (-0) \div (w \div 1000) = 0
    BY <2>1
  <2> QED
    BY <1>2, <2>2 DEF Share
<1> QED
    BY <1>1, <1>2

LEMMA EmptyFactors ==
    ASSUME NEW c \in Context, Equity(c) > 0
    PROVE  LET e == Unencumbered(c)
           IN  /\ Confidence(e) = Confidence(c) /\ Volatility(e) = Volatility(c)
               /\ Liquidity(e) = Liquidity(c)
               /\ Concentration(e) = 1000 /\ ExposureFactor(e) = 1000
<1> DEFINE e == Unencumbered(c)
<1>1. /\ Equity(e) = Equity(c) /\ Portfolio(e) = EmptyPortfolio /\ Equity(c) \in Int
      /\ e.market = c.market /\ e.confidence = c.confidence /\ e.volatility = c.volatility
    BY UnencumberedParts, ContextParts
<1> HIDE DEF e
<1>2. Confidence(e) = Confidence(c) /\ Volatility(e) = Volatility(c) /\ Liquidity(e) = Liquidity(c)
    BY <1>1 DEF Confidence, Volatility, Liquidity, DollarVolume
<1>3. Concentration(e) = 1000
  <2>1. Share(0, Equity(e)) = 0
    BY <1>1, EmptyShare
  <2> QED
    BY <1>1, <2>1 DEF Concentration, EmptyPortfolio
<1>4. GrossExposure(e) = 1000 /\ NetExposure(e) = 1000 /\ MaxPositions(e) = 1000
    BY <1>1 DEF GrossExposure, NetExposure, MaxPositions, Exposure, EmptyPortfolio, Magnitude
<1>5. ExposureFactor(e) = 1000
    BY <1>4 DEF ExposureFactor, SmallerOf
<1> QED
    BY <1>2, <1>3, <1>5 DEF e

LEMMA EmptyBudget ==
    ASSUME NEW c \in Context, Equity(c) > 0
    PROVE  ScaledBudget(c) <= ScaledBudget(Unencumbered(c))
<1> DEFINE e == Unencumbered(c)
<1>1. PICK b \in Nat : b = BaseBudget(c)
    BY BudgetShrinks
<1>2. BaseBudget(e) = b
    BY <1>1, UnencumberedParts DEF BaseBudget
<1>3. PICK f1, f2, f3, f4, f5 \in Fractions :
         f1 = Confidence(c) /\ f2 = Volatility(c) /\ f3 = Liquidity(c)
           /\ f4 = Concentration(c) /\ f5 = ExposureFactor(c)
    BY FactorTypes
<1>4. /\ Confidence(e) = f1 /\ Volatility(e) = f2 /\ Liquidity(e) = f3
      /\ Concentration(e) = 1000 /\ ExposureFactor(e) = 1000
    BY <1>3, EmptyFactors
<1>5. PICK b1 \in Nat : b1 = Scale(b, f1)
    BY ScaleShrinks
<1>6. PICK b2 \in Nat : b2 = Scale(b1, f2)
    BY ScaleShrinks
<1>7. PICK b3 \in Nat : b3 = Scale(b2, f3)
    BY ScaleShrinks
<1>8. PICK b4 \in Nat : b4 = Scale(b3, f4)
    BY ScaleShrinks
<1>9. 1000 \in Fractions /\ f4 <= 1000 /\ f5 <= 1000
    BY DEF Fractions
<1>10. PICK d4 \in Nat : d4 = Scale(b3, 1000)
    BY <1>9, ScaleShrinks
<1>11. b3 <= b3 /\ b4 <= d4
    BY <1>8, <1>9, <1>10, ScaleMonotone
<1>12. Scale(b4, f5) <= Scale(d4, 1000)
    BY <1>9, <1>11, ScaleMonotone
<1>13. ScaledBudget(c) = Scale(b4, f5)
    BY <1>1, <1>3, <1>5, <1>6, <1>7, <1>8 DEF ScaledBudget
<1>14. ScaledBudget(e) = Scale(d4, 1000)
    BY <1>2, <1>4, <1>5, <1>6, <1>7, <1>10 DEF ScaledBudget
<1> QED
    BY <1>12, <1>13, <1>14

(* A larger budget buys at least as many shares. *)
LEMMA MoreShares ==
    ASSUME NEW a \in Nat, NEW b \in Nat, a <= b, NEW st \in Nat, NEW price \in Nat \ {0},
           NEW top \in Nat
    PROVE  SmallerOf(NotionalAtRisk(a, st, price), top) \div price
             <= SmallerOf(NotionalAtRisk(b, st, price), top) \div price
<1>1. NotionalAtRisk(a, st, price) <= NotionalAtRisk(b, st, price)
  <2>1. CASE st > 0
    <3>1. a * price <= b * price /\ a * price \in Nat /\ b * price \in Nat
      BY ProductMonotone
    <3> DEFINE x == a * price
               y == b * price
               r == y \div st
    <3>2. x \in Nat /\ y \in Nat /\ x <= y /\ st \in Nat \ {0}
      BY <2>1, <3>1
    <3> HIDE DEF x, y
    <3>3. r \in Int /\ y < r * st + st
      BY <3>2, Quotient
    <3>4. x \div st <= r
      BY <3>2
    <3> QED
      BY <2>1, <3>4 DEF NotionalAtRisk, x, y
  <2>2. CASE ~(st > 0)
    BY <2>2 DEF NotionalAtRisk
  <2> QED
    BY <2>1, <2>2
<1> DEFINE m == SmallerOf(NotionalAtRisk(a, st, price), top)
           n == SmallerOf(NotionalAtRisk(b, st, price), top)
<1>2. m \in Nat /\ n \in Nat /\ m <= n
  <2>1. NotionalAtRisk(a, st, price) \in Nat /\ NotionalAtRisk(b, st, price) \in Nat
    BY NotionalType
  <2> QED
    BY <1>1, <2>1 DEF SmallerOf
<1> HIDE DEF m, n
<1>3. m \div price <= n \div price
    BY <1>2
<1> QED
    BY <1>3 DEF m, n

LEMMA EmptyEvaluation ==
    ASSUME NEW c \in Context, Evaluation(c).decision # "REJECTED"
    PROVE  Evaluation(c).adjusted <= Evaluation(Unencumbered(c)).adjusted
<1> DEFINE e == Unencumbered(c)
<1>1. FailedGates(c) = {} /\ ~(Equity(c) <= 0 \/ ScaledBudget(c) = 0 \/ Shares(c) = 0)
    BY DEF Evaluation, Rejected
<1>2. Evaluation(c).adjusted = ScaledBudget(c)
    BY <1>1 DEF Evaluation
<1>3. Equity(c) \in Nat /\ Equity(c) > 0
    BY <1>1, ContextParts
<1>4. /\ e \in Context /\ Equity(e) = Equity(c) /\ Portfolio(e) = EmptyPortfolio
      /\ e.market = c.market /\ e.atr = c.atr /\ e.proposes = c.proposes
      /\ e.confidence = c.confidence
    BY UnencumberedParts
<1>5. ScaledBudget(c) \in Nat /\ ScaledBudget(e) \in Nat /\ ScaledBudget(c) <= ScaledBudget(e)
    BY <1>3, <1>4, BudgetShrinks, EmptyBudget
<1> HIDE DEF e
<1>6. FailedGates(e) = {}
  <2>1. ~DailyLoss(RiskState(e))
    BY <1>3, <1>4 DEF DailyLoss, RiskState, EmptyPortfolio
  <2>2. RiskState(e).kill = RiskState(c).kill /\ Drawdown(RiskState(e)) = Drawdown(RiskState(c))
    BY <1>4 DEF RiskState, Drawdown
  <2>3. FailedGates(e) \subseteq FailedGates(c)
    BY <1>4, <2>1, <2>2 DEF FailedGates
  <2> QED
    BY <1>1, <2>3
<1>7. Shares(e) # 0
  <2> DEFINE price == ReferencePrice(c.market)
             st == StopDistance(c)
             top == Ceiling(c)
  <2>1. price \in Nat \ {0} /\ st \in Nat /\ top \in Nat
    <3>1. price \in Int /\ price > 0
      BY <1>1, <1>3, ContextParts, GatesPassed
    <3> QED
      BY <1>3, <3>1, StopType DEF Ceiling
  <2>2. Shares(c) = SmallerOf(NotionalAtRisk(ScaledBudget(c), st, price), top) \div price
    BY DEF Shares
  <2>3. Shares(e) = SmallerOf(NotionalAtRisk(ScaledBudget(e), st, price), top) \div price
    BY <1>4 DEF Shares, StopDistance, Ceiling
  <2> HIDE DEF price, st, top
  <2>4. Shares(c) <= Shares(e)
    BY <1>5, <2>1, <2>2, <2>3, MoreShares
  <2>5. Shares(c) \in Nat /\ Shares(e) \in Int
    <3> DEFINE m == SmallerOf(NotionalAtRisk(ScaledBudget(c), st, price), top)
               n == SmallerOf(NotionalAtRisk(ScaledBudget(e), st, price), top)
    <3>1. m \in Nat /\ n \in Nat
      BY <1>5, <2>1, NotionalType DEF SmallerOf
    <3> HIDE DEF m, n
    <3>2. m \div price \in Nat /\ n \div price \in Nat
      BY <2>1, <3>1, QuotientType
    <3> QED
      BY <2>2, <2>3, <3>2 DEF m, n
  <2> QED
    BY <1>1, <2>4, <2>5
<1>8. Evaluation(e).adjusted = ScaledBudget(e)
  <2>1. ~(Equity(e) <= 0 \/ ScaledBudget(e) = 0 \/ Shares(e) = 0)
    BY <1>1, <1>3, <1>4, <1>5, <1>7
  <2> QED
    BY <1>6, <2>1 DEF Evaluation
<1> QED
    BY <1>2, <1>5, <1>8 DEF e

(* No holding, exposure or loss of the portfolio ever enlarges a budget.   *)
THEOREM ExposureNeverPays == Spec => []MoreExposureNeverHelps
<1>1. IInv => MoreExposureNeverHelps
  <2>1. CASE Blank
    BY <2>1 DEF Blank, MoreExposureNeverHelps, NoEvaluation
  <2>2. CASE Evaluated
    BY <2>2, Granting, EmptyEvaluation DEF MoreExposureNeverHelps, Evaluated, Unencumbered
  <2> QED
    BY <2>1, <2>2 DEF IInv
<1> QED
    BY <1>1, Invariance, PTL

---------------------------------------------------------------------------
(* M5's size against M6's limit.                                           *)

(* A quotient is no smaller than what its divisor goes into. *)
LEMMA QuotientAbove ==
    ASSUME NEW a \in Int, NEW d \in Nat \ {0}, NEW n \in Int, n * d <= a
    PROVE  n <= a \div d
<1> DEFINE r == a \div d
<1>1. r \in Int /\ a < r * d + d
    BY Quotient
<1> HIDE DEF r
<1> SUFFICES ASSUME r + 1 <= n PROVE FALSE
    BY <1>1 DEF r
<1>2. (r + 1) * d <= n * d
    BY <1>1, ProductMonotone
<1>3. (r + 1) * d = r * d + d
    BY <1>1
<1> DEFINE x == r * d
           y == n * d
<1>4. a < x + d /\ x + d <= y /\ y <= a /\ x \in Int /\ y \in Int
    BY <1>1, <1>2, <1>3
<1> HIDE DEF x, y
<1> QED
    BY <1>4

(* At four stops and more a stock is worth four budgets, and either a      *)
(* whole share or ten budgets.                                             *)
LEMMA StockIsLarge ==
    ASSUME NEW A \in Nat \ {0}, NEW S \in Nat, NEW P \in Nat \ {0}, NEW C \in Nat,
           S <= A, 10 * A <= C, S = 0 \/ P >= 4 * S
    PROVE  LET N == SmallerOf(NotionalAtRisk(A, S, P), C)
           IN N \in Nat /\ (N >= 10 * A \/ (N >= P /\ N >= 4 * A))
<1> DEFINE R == NotionalAtRisk(A, S, P)
<1>1. R \in Nat
    BY NotionalType
<1>2. R >= 10 * A \/ (R >= P /\ R >= 4 * A)
  <2>1. CASE S = 0
    <3>1. R = 50 * A
      BY <2>1 DEF NotionalAtRisk
    <3> HIDE DEF R
    <3> QED
      BY <3>1
  <2>2. CASE S > 0
    <3> DEFINE x == A * P
    <3>1. x \in Int /\ S \in Nat \ {0} /\ R = x \div S
      BY <2>2 DEF NotionalAtRisk
    <3>2. S * P <= A * P
      BY ProductMonotone
    <3>3. P * S = S * P
      OBVIOUS
    <3>4. (4 * S) * A <= P * A
      BY <2>2, ProductMonotone
    <3>5. (4 * S) * A = (4 * A) * S /\ P * A = A * P
      OBVIOUS
    <3>6. P * S <= x /\ (4 * A) * S <= x
      BY <3>2, <3>3, <3>4, <3>5
    <3> HIDE DEF x, R
    <3>7. P <= x \div S
      BY <3>1, <3>6, QuotientAbove
    <3>8. 4 * A <= x \div S
      <4>1. 4 * A \in Int
        OBVIOUS
      <4> QED
        BY <3>1, <3>6, <4>1, QuotientAbove
    <3> QED
      BY <1>1, <3>1, <3>7, <3>8
  <2> QED
    BY <2>1, <2>2
<1> HIDE DEF R
<1>3. SmallerOf(R, C) \in Nat /\ (SmallerOf(R, C) >= 10 * A \/ (SmallerOf(R, C) >= P /\ SmallerOf(R, C) >= 4 * A))
    BY <1>1, <1>2 DEF SmallerOf
<1> QED
    BY <1>3 DEF R

(* Half a percent from the planned price and rounded up to a cent, a limit *)
(* price is at most half a percent under it.                               *)
LEMMA LimitIsNotLow ==
    ASSUME NEW mid \in Nat, NEW price \in Nat \ {0}, 200 * Magnitude(mid - price) <= price
    PROVE  200 * RoundToTick(mid) >= 199 * price
<1>1. 200 * mid >= 199 * price
    BY DEF Magnitude
<1>2. RoundToTick(mid) >= mid /\ RoundToTick(mid) \in Nat
    BY DEF RoundToTick
<1> QED
    BY <1>1, <1>2

(* So an order of it costs more than the budget. *)
LEMMA StockExceedsBudget ==
    ASSUME NEW ev \in Evaluations, 0 < ev.adjusted, ev.stop <= ev.adjusted, 10 * ev.adjusted <= ev.ceiling,
           NEW p \in Plans, Fits(p, ev), p.kind = "STOCK", p.quantity > 0,
           ev.stop = 0 \/ p.price >= 4 * ev.stop,
           NEW q \in Quote, QuoteIsTradable(q), PriceHolds(p, q)
    PROVE  ExecutionPlan(p, q).notional > ev.adjusted
<1> DEFINE A == ev.adjusted
           P == p.price
           N == p.notional
           K == p.quantity
           L == RoundToTick(Midpoint(q))
           S == ev.stop
           C == ev.ceiling
           x == K * P
           y == L * K
<1>1. /\ A \in Nat \ {0} /\ P \in Nat \ {0} /\ N \in Nat /\ K \in Nat /\ K > 0
      /\ S \in Nat /\ C \in Nat /\ S <= A /\ 10 * A <= C /\ (S = 0 \/ P >= 4 * S)
      /\ N = SmallerOf(NotionalAtRisk(A, S, P), C) /\ 1000 * N < K * P + P
    BY DEF Fits, Plans, Evaluations
<1>2. N >= 10 * A \/ (N >= P /\ N >= 4 * A)
  <2> DEFINE M == SmallerOf(NotionalAtRisk(A, S, P), C)
  <2> HIDE DEF A, P, N, S, C
  <2>1. /\ A \in Nat \ {0} /\ P \in Nat \ {0} /\ S \in Nat /\ C \in Nat
        /\ S <= A /\ 10 * A <= C /\ (S = 0 \/ P >= 4 * S) /\ N = M
    BY <1>1
  <2>2. M >= 10 * A \/ (M >= P /\ M >= 4 * A)
    BY <2>1, StockIsLarge
  <2> HIDE DEF M
  <2> QED
    BY <2>1, <2>2
<1>3. L \in Nat /\ 200 * L >= 199 * P
    BY <1>1, MidpointType, LimitIsNotLow DEF PriceHolds
<1>4. ExecutionPlan(p, q).notional = y \div 1000
    BY DEF ExecutionPlan, ExpectedNotional
<1> HIDE DEF A, P, N, K, L
<1>5. x \in Nat /\ x >= P /\ 1000 * N < x + P
    BY <1>1
<1>6. y \in Nat /\ 200 * y >= 199 * x
  <2>1. (199 * P) * K <= (200 * L) * K
    BY <1>1, <1>3, ProductMonotone
  <2>2. (199 * P) * K = 199 * (K * P) /\ (200 * L) * K = 200 * (L * K)
    BY <1>1, <1>3
  <2>3. y \in Nat
    BY <1>1, <1>3
  <2> QED
    BY <2>1, <2>2, <2>3
<1> HIDE DEF x, y
<1>7. x >= 3996 * A
    BY <1>1, <1>2, <1>5
<1>8. y >= 1000 * A + 1000
    BY <1>1, <1>5, <1>6, <1>7
<1>9. y \div 1000 > A
    BY <1>1, <1>6, <1>8
<1> QED
    BY <1>4, <1>9 DEF A

(* A defect, shown in full: a stock plan is never authorised while the     *)
(* price is four of M4's stops or more, at whatever the market was in      *)
(* between, and no order sells short (NoStockEntryPasses).  A run finds    *)
(* the documented authorisation denied once; this is why it always is, for *)
(* all accounts, budgets and markets.                                      *)
THEOREM NoStockPasses == Spec => []NoStockEntryPasses
<1>1. IInv => NoStockEntryPasses
  <2>1. CASE Blank
    BY <2>1 DEF Blank, NoStockEntryPasses, NoPlan
  <2>2. CASE Evaluated /\ Planned /\ Ordered /\ Answered
    <3> SUFFICES ASSUME plan.kind = "STOCK" PROVE NoStockEntryPasses
      BY DEF NoStockEntryPasses
    <3>1. CASE order = NoOrder /\ authorization = Unanswered
      BY <3>1 DEF NoStockEntryPasses, NoOrder, Unanswered
    <3>2. CASE ~(order = NoOrder /\ authorization = Unanswered)
      <4>1. PICK q \in Quotes, asset \in [tradable : BOOLEAN], open \in BOOLEAN :
               Plannable(plan, q, asset, open) /\ order = ExecutionPlan(plan, q)
        BY <2>2, <3>2 DEF Ordered
      <4>2. plan \in Plans /\ Fits(plan, evaluation) /\ q \in Quote
            /\ QuoteIsTradable(q) /\ PriceHolds(plan, q)
        BY <2>2, <4>1, MarketAssumption DEF Planned, Plannable
      <4>3. order.side # "SELL"
        BY <4>1 DEF Plannable, Shortable, ExecutionPlan, SideOf
      <4>4. ASSUME authorization.state = "AUTHORIZED"
            PROVE  ~(evaluation.stop = 0 \/ plan.price >= 4 * evaluation.stop)
        <5>1. order.notional <= evaluation.adjusted /\ order.quantity > 0 /\ evaluation.decision # "REJECTED"
          BY <2>2, <4>4 DEF Answered
        <5>2. Granted(context, evaluation) /\ evaluation \in Evaluations
          BY <2>2, <5>1, Granting
        <5>3. 0 < evaluation.adjusted /\ evaluation.stop <= evaluation.adjusted
              /\ 10 * evaluation.adjusted <= evaluation.ceiling
          BY <5>2 DEF Granted
        <5>4. order.quantity = plan.quantity
          BY <4>1 DEF ExecutionPlan
        <5> SUFFICES ASSUME evaluation.stop = 0 \/ plan.price >= 4 * evaluation.stop PROVE FALSE
          OBVIOUS
        <5>5. order.notional > evaluation.adjusted
          BY <4>1, <4>2, <5>1, <5>2, <5>3, <5>4, StockExceedsBudget
        <5>6. order \in Orders
          BY <4>1, <4>2, OrderType
        <5>7. order.notional \in Int /\ evaluation.adjusted \in Int
          BY <5>2, <5>6 DEF Orders, Evaluations
        <5> QED
          BY <5>1, <5>5, <5>7
      <4> QED
        BY <4>3, <4>4 DEF NoStockEntryPasses
    <3> QED
      BY <3>1, <3>2
  <2> QED
    BY <2>1, <2>2 DEF IInv
<1> QED
    BY <1>1, Invariance, PTL
=============================================================================
