-------------------------------- MODULE Risk --------------------------------
(***************************************************************************)
(* M4, the risk constitution (src/backend/app/risk): what one evaluation   *)
(* of a thesis makes of the market, the account and the portfolio it read. *)
(* The service keeps nothing between evaluations, so this module has       *)
(* operators only; Pipeline takes the steps.                               *)
(*                                                                         *)
(* Money and prices are integers of half a cent (a midpoint is exact),     *)
(* fractions are thousandths.  The code's Decimals have 28 digits; here a  *)
(* quotient is rounded towards the smaller budget.                         *)
(*                                                                         *)
(* Operators named Faulty... are not part of the specification: each is an *)
(* operator of it with a plausible bug, for testing the properties.        *)
(***************************************************************************)
EXTENDS Integers, Sequences

Dollar == 200
None == -1       \* a feature the market state lacks

SmallerOf(a, b) == IF a <= b THEN a ELSE b
LargerOf(a, b) == IF a >= b THEN a ELSE b
Magnitude(a) == IF a < 0 THEN -a ELSE a
Scale(amount, factor) == (amount * factor) \div 1000

(* What the first member of an ordered list that is in the set S is.       *)
FirstIn(order, S) ==
  order[CHOOSE i \in 1..Len(order) :
          order[i] \in S /\ \A j \in 1..(i - 1) : order[j] \notin S]

NoQuote == [bid |-> None, ask |-> None]
Midpoint(q) == (q.bid + q.ask) \div 2

(* The quote's midpoint, or else the last trade or bar, or else 0.         *)
ReferencePrice(m) == IF m.quote # NoQuote THEN Midpoint(m.quote) ELSE m.last

---------------------------------------------------------------------------
(* The context of an evaluation.  c.account and c.portfolio are what the   *)
(* broker answered; an answer that failed is not readable.                 *)

(* _default_account_snapshot: what stands in for an account not read.      *)
DefaultEquity == 100000 * Dollar
Equity(c) == IF c.account.readable THEN c.account.equity ELSE DefaultEquity

EmptyPortfolio == [readable |-> TRUE, held |-> 0, gross |-> 0, net |-> 0, count |-> 0, pnl |-> 0]
Portfolio(c) == IF c.portfolio.readable THEN c.portfolio ELSE EmptyPortfolio

RiskState(c) ==
  [kill |-> FALSE, start |-> Equity(c), peak |-> Equity(c), current |-> Equity(c),
   pnl |-> Portfolio(c).pnl]

FaultyDailyLoss(s) == s.start > 0 /\ 100 * s.pnl > 3 * s.start
DailyLoss(s) == s.start > 0 /\ 100 * s.pnl < -3 * s.start
Drawdown(s) == s.peak > 0 /\ 10 * (s.peak - s.current) > s.peak

(* A spread above 5% of the midpoint is too wide.                          *)
QuoteIsUsable(q) ==
  /\ q.bid > 0 /\ q.ask > 0 /\ q.ask >= q.bid
  /\ 20 * (q.ask - q.bid) <= Midpoint(q)

PriceIsValid(m) ==
  /\ ReferencePrice(m) > 0
  /\ m.quote # NoQuote => QuoteIsUsable(m.quote)

HardGates == <<"KILL_SWITCH_ACTIVE", "M3_NO_TRADE", "INVALID_THESIS", "POOR_DATA_QUALITY",
               "LOW_COMMITTEE_CONFIDENCE", "INVALID_PRICE", "DAILY_LOSS_LIMIT", "MAX_DRAWDOWN">>

FailedGates(c) ==
  LET s == RiskState(c)
      fails == [KILL_SWITCH_ACTIVE |-> s.kill,
                M3_NO_TRADE |-> ~c.proposes,
                INVALID_THESIS |-> c.confidence = 0,
                POOR_DATA_QUALITY |-> ReferencePrice(c.market) <= 0,
                LOW_COMMITTEE_CONFIDENCE |-> c.confidence < 600,
                INVALID_PRICE |-> ~PriceIsValid(c.market),
                DAILY_LOSS_LIMIT |-> DailyLoss(s),
                MAX_DRAWDOWN |-> Drawdown(s)]
  IN {g \in DOMAIN fails : fails[g]}

---------------------------------------------------------------------------
(* Soft reductions: the factor each check leaves of the budget, 1000 when  *)
(* it passes.  The floor of a tenth below each one never applies, a half   *)
(* having applied before it.                                               *)
FaultyAtLeastHalf(factor) == factor
AtLeastHalf(factor) == LargerOf(500, factor)

Volatility(c) ==
  IF c.volatility > 30 THEN AtLeastHalf((2000 - (c.volatility - 30)) \div 2) ELSE 1000

(* The average volume is in thousands of shares.                           *)
DollarVolume(c) == (c.market.volume * ReferencePrice(c.market)) \div Dollar
Liquidity(c) ==
  IF c.market.volume # None /\ DollarVolume(c) < 1000 THEN AtLeastHalf(DollarVolume(c)) ELSE 1000

Confidence(c) == IF c.confidence < 800 THEN 750 ELSE 1000

(* amount as thousandths of whole > 0, rounded up, in small products. *)
Share(amount, whole) ==
  IF whole < 1000 THEN -((-1000 * amount) \div whole) ELSE -((-amount) \div (whole \div 1000))

FaultyConcentration(c) ==
  LET held == Share(Portfolio(c).held, Equity(c))
  IN IF Equity(c) > 0 /\ held > 25 THEN AtLeastHalf(1000 - 10 * (25 - held)) ELSE 1000

Concentration(c) ==
  LET held == Share(Portfolio(c).held, Equity(c))
  IN IF Equity(c) > 0 /\ held > 25 THEN AtLeastHalf(1000 - 10 * (held - 25)) ELSE 1000

(* An exposure beyond 80% of its limit. *)
Exposure(amount, limit) ==
  IF limit > 0 /\ 5 * amount > 4 * limit
  THEN AtLeastHalf(1000 - (Share(amount, limit) - 800)) ELSE 1000
GrossExposure(c) == Exposure(Portfolio(c).gross, Equity(c))
NetExposure(c) == Exposure(Magnitude(Portfolio(c).net), Equity(c) \div 2)
MaxPositions(c) == IF Portfolio(c).count >= 8 THEN 500 ELSE 1000

SoftLimits == <<"VOLATILITY_REDUCTION", "LIQUIDITY_REDUCTION", "CONFIDENCE_REDUCTION",
                "SYMBOL_CONCENTRATION", "GROSS_EXPOSURE", "NET_EXPOSURE", "MAX_POSITIONS">>

Reductions(c) ==
  LET factor == [VOLATILITY_REDUCTION |-> Volatility(c),
                 LIQUIDITY_REDUCTION |-> Liquidity(c),
                 CONFIDENCE_REDUCTION |-> Confidence(c),
                 SYMBOL_CONCENTRATION |-> Concentration(c),
                 GROSS_EXPOSURE |-> GrossExposure(c),
                 NET_EXPOSURE |-> NetExposure(c),
                 MAX_POSITIONS |-> MaxPositions(c)]
  IN {r \in DOMAIN factor : factor[r] < 1000}

---------------------------------------------------------------------------
(* Sizing. *)
BaseBudget(c) == Equity(c) \div 100
Ceiling(c) == Equity(c) \div 10

(* Of the three exposures only the strictest counts. *)
ExposureFactor(c) ==
  SmallerOf(GrossExposure(c), SmallerOf(NetExposure(c), MaxPositions(c)))

ScaledBudget(c) ==
  Scale(Scale(Scale(Scale(Scale(BaseBudget(c), Confidence(c)), Volatility(c)),
                    Liquidity(c)), Concentration(c)), ExposureFactor(c))

(* Twice the ATR, between 2% and 10% of the price; 0 when there is no ATR. *)
StopDistance(c) ==
  LET price == ReferencePrice(c.market)
  IN IF c.atr <= 0 THEN 0
     ELSE LargerOf(price \div 50, SmallerOf(2 * c.atr, price \div 10))

(* budget / (stop / price), the stop being 2% of the price by default. *)
NotionalAtRisk(budget, stop, price) ==
  IF stop > 0 THEN (budget * price) \div stop ELSE 50 * budget

Shares(c) ==
  SmallerOf(NotionalAtRisk(ScaledBudget(c), StopDistance(c), ReferencePrice(c.market)), Ceiling(c))
    \div ReferencePrice(c.market)

Rejected(reason) ==
  [decision |-> "REJECTED", reason |-> reason, base |-> 0, adjusted |-> 0, stop |-> 0, ceiling |-> 0]

(* RiskEvaluationService.evaluate. *)
Evaluation(c) ==
  IF FailedGates(c) # {} THEN Rejected(FirstIn(HardGates, FailedGates(c)))
  ELSE IF Equity(c) <= 0 \/ ScaledBudget(c) = 0 \/ Shares(c) = 0
  THEN Rejected("CALCULATION_FAILURE")
  ELSE [decision |-> IF Reductions(c) = {} THEN "APPROVED" ELSE "REDUCED",
        reason |-> IF Reductions(c) = {} THEN "WITHIN_LIMITS"
                   ELSE FirstIn(SoftLimits, Reductions(c)),
        base |-> BaseBudget(c), adjusted |-> ScaledBudget(c),
        stop |-> StopDistance(c), ceiling |-> Ceiling(c)]
=============================================================================
