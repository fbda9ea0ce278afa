------------------------------ MODULE Pipeline ------------------------------
(***************************************************************************)
(* The way of one thesis to an order: M4 evaluates its risk (Risk), M5     *)
(* selects an instrument (Instruments), and M6 plans and authorises the    *)
(* order (src/backend/app/execution: planner, validation, authorization),  *)
(* as scripts/check_execution.py and the council chain the three services. *)
(* What happens after the authorisation is the module Execution.           *)
(*                                                                         *)
(* Each stage reads the market or the account anew, and may find anything  *)
(* there: the price may have moved, a service may not answer.  The stages  *)
(* hand on the objects they built, however old; the last of them may be    *)
(* executed again.                                                         *)
(*                                                                         *)
(* Operators named Faulty... are not part of the specification: each is an *)
(* operator of it, or of Risk or Instruments, with a plausible bug, for    *)
(* testing the properties.                                                 *)
(***************************************************************************)
EXTENDS Instruments

CONSTANTS
    Contexts,     \* what M4 may read: thesis, market, account and portfolio
    Markets,      \* the market states M5 may be given
    Chains,       \* the option chains the option gateway may return
    Quotes,       \* the quotes M6 may read
    Permissions   \* the settings M6 may run with

Directions == {"BULLISH", "BEARISH"}
Features == Nat \cup {None}

Quote == {q \in [bid : Int, ask : Int] : (q.bid + q.ask) % 2 = 0}
Market == [quote : Quote, last : Nat, volume : Features, quality : DOMAIN QualityBonus]
Account == [readable : BOOLEAN, equity : Int]
Holdings == [readable : BOOLEAN, held : Nat, gross : Nat, net : Int, count : Nat, pnl : Int]
Context == [direction : Directions, proposes : BOOLEAN, confidence : 0..1000, market : Market,
            atr : Features, volatility : Features, account : Account, portfolio : Holdings]
Option == {o \in [type : {"CALL", "PUT"}, dte : Int, strike : Nat \ {0}, bid : Nat, ask : Nat,
                  bidSize : Nat, askSize : Nat, delta : Features, iv : Features,
                  parses : BOOLEAN, quoted : BOOLEAN] :
             (o.bid + o.ask) % 2 = 0}

ASSUME ContextAssumption == Contexts \subseteq Context
ASSUME MarketAssumption == Markets \subseteq Market /\ Quotes \subseteq Quote
ASSUME ChainAssumption == Chains \subseteq SUBSET Option
ASSUME PermissionAssumption ==
  Permissions \subseteq {p \in [execution : BOOLEAN, paper : BOOLEAN] : p.paper => p.execution}

NoContext == [direction |-> "NONE"]
NoEvaluation == [decision |-> "NONE", reason |-> "NONE", base |-> 0, adjusted |-> 0, stop |-> 0,
                 ceiling |-> 0]
NoOrder == [side |-> "NONE", quantity |-> 0, limit |-> 0, mid |-> 0, notional |-> 0]
Unanswered == [state |-> "NONE", reason |-> "NONE"]

VARIABLES
    stage,        \* what happens next, or how it ended
    permission,   \* the settings
    context,      \* what M4 read
    evaluation,   \* M4's RiskEvaluation
    plan,         \* M5's InstrumentPlan
    order,        \* M6's ExecutionPlan
    authorization \* M6's ExecutionAuthorization

vars == <<stage, permission, context, evaluation, plan, order, authorization>>

Init ==
  /\ permission \in Permissions
  /\ stage = "evaluate" /\ context = NoContext /\ evaluation = NoEvaluation
  /\ plan = NoPlan /\ order = NoOrder /\ authorization = Unanswered

---------------------------------------------------------------------------
(* M4 and M5. *)

Evaluate == \E c \in Contexts :
  /\ stage = "evaluate"
  /\ context' = c
  /\ evaluation' = Evaluation(c)
  /\ stage' = "select"
  /\ UNCHANGED <<permission, plan, order, authorization>>

Select == \E m \in Markets, chain \in Chains \cup {{}} :
  /\ stage = "select"
  /\ evaluation.decision = "REJECTED" \/ ~ScoringRaises(chain, evaluation, m, context.direction)
  /\ plan' \in Selections(evaluation, m, context.direction, chain)
  /\ stage' = "execute"
  /\ UNCHANGED <<permission, context, evaluation, order, authorization>>

(* M4's market data, M5's snapshots and the scoring of a contract that did *)
(* not parse raise through the caller; a chain that cannot be read does    *)
(* not, it counts as empty.                                                *)
SnapshotsAreAsked(m, chain) ==
  evaluation.decision # "REJECTED" /\ ReferencePrice(m) > 0
    /\ Directional(chain, context.direction) # {}

Raises ==
  /\ \/ stage = "evaluate"
     \/ stage = "select" /\ \E m \in Markets, chain \in Chains : SnapshotsAreAsked(m, chain)
  /\ stage' = "raised"
  /\ UNCHANGED <<permission, context, evaluation, plan, order, authorization>>

---------------------------------------------------------------------------
(* M6: the planner. *)

(* To the cent from a dollar on; below that half a cent is a tick. *)
RoundToTick(price) == IF price >= Dollar THEN 2 * ((price + 1) \div 2) ELSE price

(* Crossed, locked, or wider than 2% of the midpoint. *)
QuoteIsTradable(q) ==
  /\ q.bid > 0 /\ q.ask > 0 /\ q.bid < q.ask
  /\ 50 * (q.ask - q.bid) <= Midpoint(q)

FaultyPriceHolds(p, q) == p.price > 0 => 20 * Magnitude(Midpoint(q) - p.price) <= p.price

(* Half a percent from the price M5 planned at; options have none. *)
PriceHolds(p, q) == p.price > 0 => 200 * Magnitude(Midpoint(q) - p.price) <= p.price

(* The AssetInfo the gateway builds has no such fields: getattr finds none. *)
Shortable(asset) == FALSE

Plannable(p, q, asset, open) ==
  /\ open /\ QuoteIsTradable(q) /\ asset.tradable
  /\ p.kind = "STOCK" /\ p.direction = "BEARISH" => Shortable(asset)
  /\ PriceHolds(p, q)
  /\ p.kind # "NO_TRADE"

SideOf(p) == IF p.kind = "STOCK" /\ p.direction = "BEARISH" THEN "SELL" ELSE "BUY"

(* Both kinds are priced by the quote of plan.symbol, the underlying. *)
ExpectedNotional(p, limit) ==
  IF p.kind = "OPTION" THEN limit * (p.quantity \div 1000) * Multiplier
  ELSE (limit * p.quantity) \div 1000

ExecutionPlan(p, q) ==
  LET limit == RoundToTick(Midpoint(q))
  IN [side |-> SideOf(p), quantity |-> p.quantity, limit |-> limit, mid |-> Midpoint(q),
      notional |-> ExpectedNotional(p, limit)]

BuildExecutionPlan == \E q \in Quotes, asset \in [tradable : BOOLEAN], open \in BOOLEAN :
  /\ stage = "execute"
  /\ Plannable(plan, q, asset, open)
  /\ order' = ExecutionPlan(plan, q)
  /\ stage' = "authorize"
  /\ UNCHANGED <<permission, context, evaluation, plan, authorization>>

(* A check of the planner fails, or a call of it, and execute raises. *)
BuildRaises ==
  /\ stage = "execute"
  /\ stage' = "not planned"
  /\ UNCHANGED <<permission, context, evaluation, plan, order, authorization>>

---------------------------------------------------------------------------
(* M6: the authoriser.  kill is the kill switch of the RiskState execute   *)
(* may be given, expired whether the plan outlived its seconds.            *)

Reasons == <<"EXECUTION_DISABLED", "UPSTREAM_NO_TRADE", "RISK_REJECTED", "RISK_BUDGET_MISSING",
             "KILL_SWITCH_ACTIVE", "PLAN_EXPIRED", "INVALID_QUANTITY", "NOTIONAL_EXCEEDED",
             "RISK_BUDGET_EXCEEDED">>

WithinBudget(x, p, ev) == x.notional <= ev.adjusted /\ (p.kind = "OPTION" => p.loss <= ev.adjusted)

Denials(x, p, ev, kill, expired) ==
  LET denies == [EXECUTION_DISABLED |-> ~permission.execution \/ ~permission.paper,
                 UPSTREAM_NO_TRADE |-> p.kind = "NO_TRADE",
                 RISK_REJECTED |-> p.reason = "RISK_REJECTED" \/ ev.decision = "REJECTED",
                 RISK_BUDGET_MISSING |-> ev.base = 0,
                 KILL_SWITCH_ACTIVE |-> kill,
                 PLAN_EXPIRED |-> expired,
                 INVALID_QUANTITY |-> x.quantity <= 0 \/ x.quantity > p.quantity,
                 NOTIONAL_EXCEEDED |-> x.notional > ev.ceiling,
                 RISK_BUDGET_EXCEEDED |-> ~WithinBudget(x, p, ev)]
  IN {r \in DOMAIN denies : denies[r]}

Authorize == \E kill, expired \in BOOLEAN :
  LET denials == Denials(order, plan, evaluation, kill, expired)
  IN /\ stage = "authorize"
     /\ authorization' = IF denials = {} THEN [state |-> "AUTHORIZED", reason |-> "WITHIN_LIMITS"]
                         ELSE [state |-> "DENIED", reason |-> FirstIn(Reasons, denials)]
     /\ stage' = "answered"
     /\ UNCHANGED <<permission, context, evaluation, plan, order>>

(* The same plan and evaluation are executed again, at any later time. *)
ExecuteAgain ==
  /\ stage \in {"answered", "not planned"}
  /\ stage' = "execute" /\ order' = NoOrder /\ authorization' = Unanswered
  /\ UNCHANGED <<permission, context, evaluation, plan>>

Next == Evaluate \/ Select \/ Raises \/ BuildExecutionPlan \/ BuildRaises \/ Authorize \/ ExecuteAgain

Spec == Init /\ [][Next]_vars

---------------------------------------------------------------------------
(* Properties. *)

Listed(reasons) == {reasons[i] : i \in 1..Len(reasons)}

TypeOK ==
  /\ stage \in {"evaluate", "select", "execute", "authorize", "answered", "raised", "not planned"}
  /\ permission \in Permissions
  /\ context \in Contexts \cup {NoContext}
  /\ evaluation \in [decision : {"NONE", "REJECTED", "REDUCED", "APPROVED"},
                     reason : {"NONE", "CALCULATION_FAILURE", "WITHIN_LIMITS"}
                                \cup Listed(HardGates) \cup Listed(SoftLimits),
                     base : Nat, adjusted : Nat, stop : Nat, ceiling : Nat]
  /\ plan \in [kind : {"NO_TRADE", "STOCK", "OPTION"}, direction : Directions \cup {"NONE"},
               price : Nat, quantity : Nat, notional : Nat, loss : Nat, score : Int,
               reason : {"NONE", "RISK_REJECTED", "NO_ELIGIBLE_EQUITY_PLAN"}]
  /\ order \in [side : {"NONE", "BUY", "SELL"}, quantity : Nat, limit : Nat, mid : Nat, notional : Nat]
  /\ authorization \in [state : {"NONE", "AUTHORIZED", "DENIED"},
                        reason : {"NONE", "WITHIN_LIMITS"} \cup Listed(Reasons)]

(* What M6 authorises, whatever was read between, is at most the budget M4 *)
(* left of one per cent of the equity it read, for a thesis that proposes  *)
(* a trade with the confidence of sixty per cent, on a day's loss of at    *)
(* most three, and with paper execution permitted (authorization.py,       *)
(* EXECUTION_SAFETY.md "What M6 Can NEVER Do").                            *)
AuthorizedFitsM4 ==
  authorization.state = "AUTHORIZED" =>
    /\ permission.execution /\ permission.paper
    /\ evaluation.decision \in {"APPROVED", "REDUCED"}
    /\ context.proposes /\ context.confidence >= 600
    /\ 100 * Portfolio(context).pnl >= -3 * Equity(context)
    /\ order.notional <= evaluation.adjusted
    /\ 100 * order.notional <= Equity(context)

(* However the price moved between the two readings, the plan of M5 loses  *)
(* at M4's stop, or as an option's premium, no more than M4's budget, and  *)
(* a stock plan is worth no more than a tenth of the equity.               *)
PlansFitTheBudget ==
  plan.kind # "NO_TRADE" =>
    /\ plan.loss <= evaluation.adjusted
    /\ 100 * plan.loss <= Equity(context)
    /\ plan.kind = "STOCK" => 10 * plan.notional <= Equity(context)

(* A thesis M4 rejected gets no plan and no order, although M5 and M6 are  *)
(* still called for it, and called again (selector.select's first gate).   *)
RejectionIsFinal ==
  evaluation.decision = "REJECTED" =>
    plan.kind = "NO_TRADE" /\ order = NoOrder /\ authorization.state # "AUTHORIZED"

(* A portfolio never earns a budget: with no positions at all the budget   *)
(* would have been at least as large, losses of the day apart (the soft    *)
(* reductions of rules.py).                                                *)
MoreExposureNeverHelps ==
  evaluation.decision \in {"APPROVED", "REDUCED"} =>
    evaluation.adjusted <= Evaluation([context EXCEPT !.portfolio = EmptyPortfolio]).adjusted

(* The limit price is read after the quantity was sized, and rounded: a    *)
(* stock order still costs at most one per cent more than M4's ceiling     *)
(* (planner.py's price deviation check).                                   *)
OrdersStayNearTheCeiling ==
  plan.kind = "STOCK" => 100 * order.notional <= 101 * evaluation.ceiling

---------------------------------------------------------------------------
(* What the repository says, and a run refutes. *)

(* "Fail-closed: Missing data, calculation failures, or invalid prices     *)
(* instantly trigger a rejection" (docs/RISK_CONSTITUTION.md:7): no budget *)
(* is granted on an account that could not be read.                        *)
UnreadableAccountIsRejected ==
  stage = "select" /\ ~context.account.readable => evaluation.decision = "REJECTED"

(* Scenario B of docs/M6_REPORT.md:145-175, "EXPECTATION: PASS": a thesis  *)
(* M4 approved becomes a stock plan, and its order, within M4's ceiling,   *)
(* is authorised (scripts/check_execution.py:284-293), unless execution is *)
(* not permitted, the kill switch is on, the plan is too old or buys       *)
(* nothing.                                                                *)
StockEntriesAreAuthorized ==
  /\ stage = "answered" /\ plan.kind = "STOCK"
  /\ evaluation.decision = "APPROVED" /\ order.notional <= evaluation.ceiling
  => \/ authorization.state = "AUTHORIZED"
     \/ authorization.reason \in {"EXECUTION_DISABLED", "KILL_SWITCH_ACTIVE", "PLAN_EXPIRED", "INVALID_QUANTITY"}

(* The other side of it: M5 sizes a stock so that its stop, at most a      *)
(* tenth of the price, loses the budget, and M6 compares the whole         *)
(* notional with that budget (validation.py:62).  Unless the price fell    *)
(* under four stops meanwhile, no stock plan is authorised; and none for a *)
(* short is ever planned, the asset's flags not being read                 *)
(* (planner.py:132).  Not what is intended, and no run checks it:          *)
(* NoStockPasses of PipelineProofs shows that it is no accident of the     *)
(* instance that refutes StockEntriesAreAuthorized.                        *)
NoStockEntryPasses ==
  plan.kind = "STOCK" =>
    /\ evaluation.stop = 0 \/ plan.price >= 4 * evaluation.stop
       => authorization.state # "AUTHORIZED"
    /\ order.side # "SELL"
=============================================================================
