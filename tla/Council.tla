------------------------------ MODULE Council ------------------------------
(***************************************************************************)
(* M9, a run of the council (src/backend/app/orchestration/service.py),    *)
(* with the discovery of a live run (discovery/service.py) in its first    *)
(* stage.  The run is one coroutine that never gives way, so only the      *)
(* callbacks see it between its steps; it stays to be read until the next  *)
(* one takes its place.                                                    *)
(*                                                                         *)
(* Operators named Faulty... are not part of the specification: each is an *)
(* operator of it with a plausible bug, for testing the properties.        *)
(*                                                                         *)
(* A run in demo mode is synthetic from its candidates to its plans; the   *)
(* stages after the discovery of a live run are stubs.  Money is dollars,  *)
(* the reference prices of the demo cents.                                 *)
(***************************************************************************)
EXTENDS Discovery

CONSTANTS
    Requests             \* CouncilRunRequests: [demo, max]

VARIABLES
    wired,               \* the orchestrator has a market gateway
    mode,                \* discovery_universe_mode
    categories,          \* what the universe provider knows of them by now
    run,                 \* _current_run
    scan                 \* what discover() of this run has found so far

vars == <<wired, mode, categories, run, scan>>

ASSUME CouncilAssumption == \A r \in Requests : r.demo \in BOOLEAN /\ r.max \in Int

Stages == <<"DISCOVERING", "COMMITTEE", "RISK", "INSTRUMENT", "EXECUTION_PLANNING", "COMPLETE">>
Terminal == {"COMPLETE", "FAILED"}

NoScan == [universe |-> None, answers |-> <<>>, shortlist |-> None, analysed |-> <<>>, failed |-> {}]

(* candidates[:n], which drops from the end when n is negative. *)
Slice(candidates, n) == FirstOf(IF n >= 0 THEN n ELSE AtLeast(0, Len(candidates) + n), candidates)
Selected == Slice(run.candidates, run.max)

---------------------------------------------------------------------------
(* The synthetic candidates and what is decided about them. *)

Demo(symbol, direction, price) ==
  [id |-> <<"candidate", symbol>>, symbol |-> symbol, direction |-> direction, price |-> price]
DemoCandidates ==
  << Demo("SPY", "BULLISH", 51230), Demo("QQQ", "BULLISH", 48610), Demo("AAPL", "BEARISH", 22940),
     Demo("TSLA", "BULLISH", 31820), Demo("NVDA", "BULLISH", 12480) >>

Decision(candidate) == IF candidate.direction = "BULLISH" THEN "PROPOSE_LONG" ELSE "PROPOSE_SHORT"
Analysis(candidate) ==
  [id |-> candidate.id, symbol |-> candidate.symbol, direction |-> candidate.direction,
   price |-> candidate.price, committee |-> Decision(candidate), risk |-> None, budget |-> None,
   ceiling |-> None, instrument |-> None, planned |-> None, stop |-> None, order |-> None,
   authorized |-> FALSE, code |-> None, status |-> "PENDING"]

FaultyRisk(a) ==
  IF a.symbol = "AAPL" THEN [a EXCEPT !.risk = "REJECTED"]
  ELSE IF a.symbol = "NVDA" THEN [a EXCEPT !.risk = "REDUCED", !.budget = 750]
  ELSE [a EXCEPT !.risk = "APPROVED", !.budget = 1000, !.ceiling = 5000]

DemoRisk(a) ==
  CASE a.symbol = "AAPL" -> [a EXCEPT !.risk = "REJECTED"]
    [] a.symbol = "NVDA" -> [a EXCEPT !.risk = "REDUCED", !.budget = 750, !.ceiling = 7500]
    [] OTHER -> [a EXCEPT !.risk = "APPROVED", !.budget = 1000, !.ceiling = 5000]

Stopped(a, reason) == [a EXCEPT !.instrument = "NO_TRADE", !.stop = reason, !.status = "STOPPED"]

DemoInstrument(a) ==
  CASE a.risk = "REJECTED" -> Stopped(a, "M4_RISK_REJECTED")
    [] a.risk # "REJECTED" /\ a.symbol = "TSLA" -> Stopped(a, "INSTRUMENT_NO_TRADE")
    [] OTHER -> [a EXCEPT !.instrument = "STOCK", !.planned = a.ceiling]

(* The order of a demo plan: at the touch, five cents from the reference. *)
DemoOrder(a) ==
  [side |-> IF a.direction = "BULLISH" THEN "BUY" ELSE "SELL",
   limit |-> IF a.direction = "BULLISH" THEN a.price + 5 ELSE a.price - 5,
   notional |-> a.planned, most |-> a.ceiling]
DemoExecution(a) ==
  CASE a.risk = "REJECTED" -> [a EXCEPT !.code = "RISK_REJECTED"]
    [] a.risk # "REJECTED" /\ a.instrument = "NO_TRADE" -> [a EXCEPT !.code = "UPSTREAM_NO_TRADE"]
    [] OTHER -> [a EXCEPT !.order = DemoOrder(a), !.code = "EXECUTION_DISABLED", !.status = "COMPLETE"]

---------------------------------------------------------------------------
(* The curated provider knows the categories of its symbols from the       *)
(* start, the Alpaca one learns them and keeps them as long as the         *)
(* orchestrator lives.                                                     *)
Init ==
  /\ wired \in BOOLEAN /\ mode \in {"curated", "alpaca"}
  /\ categories = [s \in IF mode = "curated" THEN ToSet(Symbols) ELSE {} |-> Category(s)]
  /\ run = None /\ scan = NoScan

In(stage) == run # None /\ run.status = stage

(* POST /council/run: create_council_run. *)
Start ==
  /\ run # None => run.status \in Terminal
  /\ \E request \in Requests :
       run' = [status |-> "DISCOVERING", demo |-> request.demo, max |-> request.max,
               candidates |-> <<>>, discovered |-> 0, analyzed |-> 0, analyses |-> <<>>,
               done |-> 0, approved |-> 0, rejected |-> 0]
  /\ scan' = NoScan
  /\ UNCHANGED <<wired, mode, categories>>

Fail == /\ run' = [run EXCEPT !.status = "FAILED"]
        /\ UNCHANGED <<wired, mode, categories, scan>>

(* The end of _run_discovery_stage. *)
Discovered(candidates) ==
  run' = [run EXCEPT !.candidates = candidates, !.discovered = Len(candidates),
                     !.analyzed = IF Len(candidates) < run.max THEN Len(candidates) ELSE run.max,
                     !.status = "COMMITTEE"]
DiscoverDemo ==
  /\ In("DISCOVERING") /\ run.demo
  /\ Discovered(DemoCandidates)
  /\ UNCHANGED <<wired, mode, categories, scan>>

(* _init_services asserts the gateway. *)
Unwired == In("DISCOVERING") /\ ~run.demo /\ ~wired /\ Fail

Scanning == In("DISCOVERING") /\ ~run.demo /\ wired

(* get_universe *)
ListUniverse ==
  /\ Scanning /\ scan.universe = None
  /\ \E universe \in Universes(mode) : scan' = [scan EXCEPT !.universe = universe]
  /\ UNCHANGED <<wired, mode, categories, run>>

Screening == Len(scan.universe) > Cardinality(DOMAIN scan.answers)

(* screen_symbols, a symbol. *)
Screen ==
  /\ Scanning /\ scan.universe # None /\ scan.shortlist = None /\ Screening
  /\ LET symbol == scan.universe[Cardinality(DOMAIN scan.answers) + 1]
     IN \E name \in Names :
          scan' = [scan EXCEPT !.answers =
                     [s \in DOMAIN @ \cup {symbol} |-> IF s = symbol THEN name ELSE @[s]]]
  /\ UNCHANGED <<wired, mode, categories, run>>

(* The category of each of symbols is asked for; a look-up may fail. *)
Categorize(symbols) ==
  \E failing \in SUBSET (symbols \ DOMAIN categories) :
    categories' = Categorized(categories, symbols, failing)

(* apply_hard_filters to select_top_k. *)
Shorten ==
  /\ Scanning /\ scan.universe # None /\ scan.shortlist = None /\ ~Screening
  /\ Categorize(ViableOf(scan.answers))
  /\ scan' = [scan EXCEPT !.shortlist = Shortlist(categories', scan.answers)]
  /\ UNCHANGED <<wired, mode, run>>

(* The deep analysis of a symbol, for which the gateway is asked again; a  *)
(* failure rejects the symbol and nobody takes its place.                  *)
Analysed == Len(scan.analysed) + Cardinality(scan.failed)
Analyse ==
  /\ Scanning /\ scan.shortlist # None /\ Analysed < Len(scan.shortlist)
  /\ LET s == scan.shortlist[Analysed + 1]
     IN \E name \in Names :
          scan' = IF name \in Buildable THEN [scan EXCEPT !.analysed = Append(@, s)]
                  ELSE [scan EXCEPT !.failed = @ \cup {s}]
  /\ UNCHANGED <<wired, mode, categories, run>>

(* The candidates of a live run have no candidate_id. *)
Found(s) == [id |-> None, symbol |-> s, direction |-> Opportunity[scan.answers[s]].direction, price |-> None]
DiscoverLive ==
  /\ Scanning /\ scan.shortlist # None /\ Analysed = Len(scan.shortlist)
  /\ Categorize(ToSet(scan.analysed))
  /\ LET finalists == Finalists(categories', scan.answers, scan.analysed)
     IN Discovered([i \in DOMAIN finalists |-> Found(finalists[i])])
  /\ UNCHANGED <<wired, mode, scan>>

(* A candidate's committee; candidate["candidate_id"] raises in a live run. *)
Deliberate ==
  /\ In("COMMITTEE") /\ run.done < Len(Selected)
  /\ LET candidate == Selected[run.done + 1]
     IN IF candidate.id = None THEN Fail
        ELSE /\ run' = [run EXCEPT !.analyses = Append(@, Analysis(candidate)), !.done = @ + 1]
             /\ UNCHANGED <<wired, mode, categories, scan>>

(* The other stages take the analyses in their order. *)
Take(stage) == In(stage) /\ run.done < Len(run.analyses)
Put(analysis) == run' = [run EXCEPT !.analyses[run.done + 1] = analysis, !.done = @ + 1]
Turn == run.analyses[run.done + 1]

FaultyApproves(analysis) == analysis.risk = "APPROVED"

Approves(analysis) == analysis.risk \in {"APPROVED", "REDUCED"}

Evaluate ==
  /\ Take("RISK")
  /\ LET analysis == DemoRisk(Turn)
         approved == IF Approves(analysis) THEN 1 ELSE 0
     IN run' = [run EXCEPT !.analyses[run.done + 1] = analysis, !.done = @ + 1,
                           !.approved = @ + approved, !.rejected = @ + 1 - approved]
  /\ UNCHANGED <<wired, mode, categories, scan>>

SelectInstrument ==
  /\ Take("INSTRUMENT") /\ Put(DemoInstrument(Turn))
  /\ UNCHANGED <<wired, mode, categories, scan>>

PlanExecution ==
  /\ Take("EXECUTION_PLANNING") /\ Put(DemoExecution(Turn))
  /\ UNCHANGED <<wired, mode, categories, scan>>

(* A stage has been through all of them. *)
Through == IF run.status = "COMMITTEE" THEN Len(Selected) ELSE Len(run.analyses)
NextStage ==
  /\ \E i \in 2..5 : In(Stages[i]) /\ run.done = Through
                     /\ run' = [run EXCEPT !.status = Stages[i + 1], !.done = 0]
  /\ UNCHANGED <<wired, mode, categories, scan>>

Next ==
  \/ Start \/ DiscoverDemo \/ Unwired
  \/ ListUniverse \/ Screen \/ Shorten \/ Analyse \/ DiscoverLive
  \/ Deliberate \/ Evaluate \/ SelectInstrument \/ PlanExecution \/ NextStage

Spec == Init /\ [][Next]_vars

---------------------------------------------------------------------------
(* The shape of the state: a run, its analyses in step with its stage. *)
Orders == [side : {"BUY", "SELL"}, limit : Nat, notional : Nat, most : Nat]
Tickers == {"SPY", "QQQ", "AAPL", "TSLA", "NVDA"}
StopReasons == {"M4_RISK_REJECTED", "INSTRUMENT_NO_TRADE"}
Analyses ==
  [id : {<<"candidate", s>> : s \in Tickers}, symbol : Tickers, direction : {"BULLISH", "BEARISH"}, price : Nat,
   committee : {"PROPOSE_LONG", "PROPOSE_SHORT"}, risk : {None, "APPROVED", "REDUCED", "REJECTED"},
   budget : Nat \cup {None}, ceiling : Nat \cup {None}, instrument : {None, "STOCK", "NO_TRADE"},
   planned : Nat \cup {None}, stop : StopReasons \cup {None},
   order : Orders \cup {None},
   authorized : BOOLEAN,
   code : {None, "RISK_REJECTED", "UPSTREAM_NO_TRADE", "EXECUTION_DISABLED"},
   status : {"PENDING", "STOPPED", "COMPLETE"}]

ASSUME OrderAssumption == None \notin Orders \cup StopReasons

TypeOK ==
  /\ wired \in BOOLEAN /\ mode \in {"curated", "alpaca"}
  /\ categories \in [DOMAIN categories -> {"ETF", "EQUITY"}]
  /\ scan.universe # None => scan.universe \in Universes(mode)
  /\ DOMAIN scan.answers \subseteq IF scan.universe = None THEN {} ELSE ToSet(scan.universe)
  /\ \A s \in DOMAIN scan.answers : scan.answers[s] \in Names
  /\ scan.shortlist # None => ToSet(scan.analysed) \cup scan.failed \subseteq ToSet(scan.shortlist)
  /\ run # None =>
       /\ run.status \in ToSet(Stages) \cup {"FAILED"}
       /\ run.analyses \in Seq(Analyses)
       /\ Len(run.analyses) <= Len(run.candidates) /\ run.done \in 0..Len(run.candidates)
       /\ {run.discovered, run.approved, run.rejected} \subseteq 0..Len(run.candidates)

(* The finalists of a live run are viable, in the order of their scores,   *)
(* no more of a category than its share, and a viable symbol that scores   *)
(* better than one of them is left out only because its deep analysis      *)
(* failed or its category was full of better ones: neither the three cuts  *)
(* (of diversify, deep_k and final_k), a failure between the screening and *)
(* the result, nor a category that a failed look-up gave and the provider  *)
(* kept, ever cost the best symbol its place otherwise                     *)
(* (discovery/service.py, stages 3 to 9; universe.py:121-137).             *)
ViableSymbols == ViableOf(scan.answers)
Points(s) == Opportunity[scan.answers[s]].total
Ahead(a, b) == Points(a) > Points(b) \/ (Points(a) = Points(b) /\ a < b)
Peers(s) == {t \in ViableSymbols : categories[t] = categories[s]}

FinalistsAreBest ==
  run # None /\ ~run.demo =>
    LET chosen == [i \in DOMAIN run.candidates |-> run.candidates[i].symbol]
    IN /\ ToSet(chosen) \subseteq ViableSymbols /\ Len(chosen) <= FinalK
       /\ \A i, j \in DOMAIN chosen : i < j => Ahead(chosen[i], chosen[j])
       /\ \A s \in ToSet(chosen) : Cardinality(Peers(s) \cap ToSet(chosen)) <= MaxPerGroup
       /\ \A s \in ViableSymbols \ ToSet(chosen) : (\E f \in ToSet(chosen) : Ahead(s, f)) =>
            \/ s \in scan.failed
            \/ Cardinality({t \in Peers(s) : Ahead(t, s)}) >= MaxPerGroup

(* The total of an eligible symbol is between 0 and 100 points, although   *)
(* the momentum it is a mean of may leave that range on either side: no    *)
(* extreme of one feature outweighs the others without end (signals.py     *)
(* clamps a score before and, for the month's return, not after its last   *)
(* change; scoring.py never clamps).                                       *)
TotalsStayInRange ==
  \A s \in DOMAIN scan.answers :
    Opportunity[scan.answers[s]].rejection = None => Opportunity[scan.answers[s]].total \in Hundred

(* Not what is intended: the two trend classifications of a symbol never   *)
(* agree on a direction, since the second is of the same two averages in   *)
(* the other order (screening.py:154 passes sma_50 as the short one).  The *)
(* ten points and the reason TREND_ALIGNED of signals.py:136-146, which    *)
(* docs/SCORING.md:54-61 documents and tests/test_discovery_signals.py:303 *)
(* builds by hand, are never given to a screened symbol.  No run checks    *)
(* this; TrendsDiffer of CouncilProofs proves it of any bars.              *)
TrendsNeverAgree ==
  \A s \in DOMAIN scan.answers :
    LET f == Seen[scan.answers[s]].features IN ~BothIn(f, Ups) /\ ~BothIn(f, Downs)

(* A complete run adds up: every selected candidate has its analysis, in   *)
(* order; each was approved or rejected; one with a plan was approved and  *)
(* has a stock plan whose order stays under the ceiling that its risk      *)
(* decision set, one without was stopped for a reason the next stage was   *)
(* told; nothing is authorised; and what a live run completes with is no   *)
(* analysis at all.                                                        *)
CompleteRunsAddUp ==
  In("COMPLETE") =>
    /\ [i \in DOMAIN run.analyses |-> run.analyses[i].id] = [i \in DOMAIN Selected |-> Selected[i].id]
    /\ run.approved = Cardinality({i \in DOMAIN run.analyses : run.analyses[i].risk \in {"APPROVED", "REDUCED"}})
    /\ run.approved + run.rejected = Len(run.analyses)
    /\ run.max >= 0 => run.analyzed = Len(run.analyses)
    /\ ~run.demo => run.analyses = <<>>
    /\ \A i \in DOMAIN run.analyses :
         LET a == run.analyses[i]
         IN /\ ~a.authorized
            /\ (a.order # None) <=> (a.status = "COMPLETE")
            /\ a.order # None => /\ a.risk \in {"APPROVED", "REDUCED"} /\ a.instrument = "STOCK"
                                 /\ a.order.notional <= a.ceiling
            /\ a.order = None => a.stop # None /\ a.code \in {"RISK_REJECTED", "UPSTREAM_NO_TRADE"}
=============================================================================
