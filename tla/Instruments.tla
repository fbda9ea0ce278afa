---------------------------- MODULE Instruments ----------------------------
(***************************************************************************)
(* M5, instrument selection (src/backend/app/instruments, .../options):    *)
(* an evaluation of M4 and a later reading of the market make a stock      *)
(* plan, an option plan, or none.  Operators only, like Risk, in whose     *)
(* units they compute; scores are hundredths of a point.                   *)
(*                                                                         *)
(* An option is a contract of the chain with its snapshot.  The snapshot   *)
(* carries its own idea of the contract, parsed from the symbol: "parses"  *)
(* says whether the symbol has the 21 characters the parser wants.         *)
(*                                                                         *)
(* Operators named Faulty... are not part of the specification, as in Risk *)
(***************************************************************************)
EXTENDS Risk

NoPlan == [kind |-> "NO_TRADE", direction |-> "NONE", price |-> 0, quantity |-> 0, notional |-> 0,
           loss |-> 0, score |-> 0, reason |-> "NONE"]
NoTrade(reason) == [NoPlan EXCEPT !.reason = reason]

---------------------------------------------------------------------------
(* The stock alternative.  Quantities are thousandths of a share or of a   *)
(* contract.                                                               *)

(* Any non-zero spread below 1% counts, a negative one too. *)
SpreadBonus(q) ==
  LET spread == q.ask - q.bid
  IN CASE q = NoQuote \/ spread = 0 \/ Midpoint(q) <= 0 -> 0
       [] 100 * spread < Midpoint(q) -> 10
       [] 50 * spread < Midpoint(q) /\ 100 * spread >= Midpoint(q) -> 5
       [] OTHER -> 0

QualityBonus == [GOOD |-> 20, DEGRADED |-> 10, INSUFFICIENT |-> 0, STALE |-> 0]

StockScore(m, ev) ==
  100 * SmallerOf(100, 50 + QualityBonus[m.quality]
                          + (IF m.volume > 1000 THEN 15 ELSE 0)
                          + SpreadBonus(m.quote)
                          + (IF 5 * ev.adjusted >= 4 * ev.base THEN 10 ELSE 0))

(* What is lost when the price moves by the stop M4 set. *)
LossAtStop(notional, stop, price) ==
  IF stop > 0 THEN (notional * stop) \div price ELSE notional \div 50

StockPlan(ev, m, direction) ==
  LET price == ReferencePrice(m)
      notional == SmallerOf(NotionalAtRisk(ev.adjusted, ev.stop, price), ev.ceiling)
  IN IF price <= 0 THEN NoPlan
     ELSE [kind |-> "STOCK", direction |-> direction, price |-> price,
           quantity |-> (notional * 1000) \div price, notional |-> notional,
           loss |-> LossAtStop(notional, ev.stop, price), score |-> StockScore(m, ev),
           reason |-> "NONE"]

---------------------------------------------------------------------------
(* The option alternative. *)
Multiplier == 100
MaxContracts == 10
Premium(o) == o.ask * Multiplier

OptionMidpoint(o) == (o.bid + o.ask) \div 2

(* price / strike of a call, strike / price of a put, as [num, den]. *)
Moneyness(o, price) ==
  IF o.type = "CALL" THEN [num |-> price, den |-> o.strike] ELSE [num |-> o.strike, den |-> price]

(* Within d thousandths of one. *)
NearTheMoney(o, price, d) ==
  LET mn == Moneyness(o, price) IN 1000 * Magnitude(mn.num - mn.den) <= d * mn.den

InRange(o, price) == o.dte \in 7..90 /\ NearTheMoney(o, price, 150)

Liquid(o) ==
  /\ o.bid > 0 /\ o.ask >= o.bid
  /\ o.bidSize >= 1 /\ o.askSize >= 1
  /\ 10 * (o.ask - o.bid) <= OptionMidpoint(o)

DeltaAllowed(o) == o.delta = None \/ o.delta \in 250..900

Affordable(o, budget) == budget > 0 /\ Premium(o) <= budget

Eligible(o, price, budget) ==
  InRange(o, price) /\ DeltaAllowed(o) /\ Liquid(o) /\ Affordable(o, budget)

Directional(chain, direction) ==
  {o \in chain : o.type = (IF direction = "BULLISH" THEN "CALL" ELSE "PUT")}

EligibleOptions(chain, direction, price, budget) ==
  {o \in Directional(chain, direction) : o.quoted /\ Eligible(o, price, budget)}

SizeScore(o) ==
  LET size == o.bidSize + o.askSize
  IN CASE size >= 100 -> 100 [] size \in 50..99 -> 80 [] size \in 10..49 -> 60 [] OTHER -> 40

(* A locked quote counts as having no spread to score. *)
OptionSpreadScore(o) ==
  LET permille == (1000 * (o.ask - o.bid)) \div OptionMidpoint(o)
  IN CASE o.ask = o.bid -> 0
       [] o.ask # o.bid /\ permille <= 30 -> 100
       [] OTHER -> 40 + ((100 - permille) * 60) \div 70

ExpiryScore(o) ==
  LET distance == Magnitude(o.dte - 45)
  IN CASE distance <= 5 -> 100 [] distance \in 6..15 -> 80 [] OTHER -> 60

MoneynessScore(o, price) ==
  CASE NearTheMoney(o, price, 20) -> 100
    [] NearTheMoney(o, price, 50) /\ ~NearTheMoney(o, price, 20) -> 80
    [] NearTheMoney(o, price, 100) /\ ~NearTheMoney(o, price, 50) -> 60
    [] OTHER -> 30

DeltaScore(o) ==
  LET distance == Magnitude(o.delta - 550)
  IN CASE o.delta = None -> 50
       [] o.delta # None /\ distance <= 50 -> 100
       [] o.delta # None /\ distance \in 51..100 -> 80
       [] OTHER -> 50

VolatilityScore(o) ==
  CASE o.iv \in {None, 0} -> 50
    [] o.iv > 5000 -> 20
    [] o.iv \in 150..600 -> 100
    [] o.iv \in 100..149 \cup 601..1000 -> 70
    [] OTHER -> 40

(* A spread above 5% of the midpoint is DEGRADED. *)
DataScore(o) == IF 20 * (o.ask - o.bid) > OptionMidpoint(o) THEN 60 ELSE 100

OptionScore(o, price) ==
  25 * SizeScore(o) + 20 * OptionSpreadScore(o) + 15 * ExpiryScore(o) + 15 * MoneynessScore(o, price)
    + 10 * DeltaScore(o) + 10 * VolatilityScore(o) + 5 * DataScore(o)

FaultyContracts(o, budget) == SmallerOf((budget + Premium(o) - 1) \div Premium(o) + 1, MaxContracts)

Contracts(o, budget) == SmallerOf(budget \div Premium(o), MaxContracts)

OptionPlan(o, ev, price, direction) ==
  LET paid == Contracts(o, ev.adjusted) * Premium(o)
  IN [kind |-> "OPTION", direction |-> direction, price |-> 0,
      quantity |-> 1000 * Contracts(o, ev.adjusted), notional |-> paid, loss |-> paid,
      score |-> OptionScore(o, price), reason |-> "NONE"]

(* The best-scored eligible options; the chain's order breaks a tie. *)
BestOptions(eligible, price) ==
  {o \in eligible : \A other \in eligible : OptionScore(other, price) <= OptionScore(o, price)}

(* The plans _build_option_plan may return; none when nothing is good enough. *)
OptionPlans(chain, ev, m, direction) ==
  LET price == ReferencePrice(m)
      best == BestOptions(EligibleOptions(chain, direction, price, ev.adjusted), price)
  IN IF price <= 0 \/ best = {} THEN {NoPlan}
     ELSE {IF OptionScore(o, price) < 4000 THEN NoPlan ELSE OptionPlan(o, ev, price, direction)
            : o \in best}

(* A snapshot whose symbol did not parse has strike 0, and its score       *)
(* divides by it.                                                          *)
ScoringRaises(chain, ev, m, direction) ==
  LET price == ReferencePrice(m)
  IN price > 0 /\ \E o \in EligibleOptions(chain, direction, price, ev.adjusted) : ~o.parses

---------------------------------------------------------------------------
ComplexityMargin == 500

(* _select_instrument *)
Preferred(stock, option) ==
  CASE stock.kind = "NO_TRADE" /\ option.kind = "NO_TRADE" -> NoTrade("NO_ELIGIBLE_EQUITY_PLAN")
    [] stock.kind # "NO_TRADE" /\ option.kind = "NO_TRADE" -> stock
    [] stock.kind = "NO_TRADE" /\ option.kind # "NO_TRADE" -> option
    [] OTHER -> IF option.score - ComplexityMargin > stock.score THEN option ELSE stock

FaultySelections(ev, m, direction, chain) ==
  {Preferred(StockPlan(ev, m, direction), option) : option \in OptionPlans(chain, ev, m, direction)}

(* InstrumentSelectorService.select, when nothing raises. *)
Selections(ev, m, direction, chain) ==
  IF ev.decision = "REJECTED" THEN {NoTrade("RISK_REJECTED")}
  ELSE {Preferred(StockPlan(ev, m, direction), option) : option \in OptionPlans(chain, ev, m, direction)}
=============================================================================
