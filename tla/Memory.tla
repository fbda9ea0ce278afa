------------------------------- MODULE Memory -------------------------------
(***************************************************************************)
(* M8, the trading memory (src/backend/app/memory: service.py, store.py,   *)
(* api.py): closed positions are evaluated into the rows of eight tables,  *)
(* and summaries, calibrations and contexts are read from them.            *)
(*                                                                         *)
(* One step is one transaction of the store, whose lock lasts no longer,   *)
(* with the computation up to the next one.  The store is a file, shared   *)
(* by the threads of a process that may die between two transactions.      *)
(*                                                                         *)
(* Operators named Faulty... are not part of the specification: each is an *)
(* operator of it, or of PostTrade, with a plausible bug, for testing the  *)
(* properties.                                                             *)
(***************************************************************************)
EXTENDS PostTrade, Sequences

CONSTANTS
    Positions,    \* positions' ids
    Workers,      \* threads that call the service
    Evidence,     \* the arguments evaluate_closed_position may be given
    Queries,      \* the query contexts get_historical_context may be given
    MaxTime       \* bound: calls begun in a behaviour

Optional(S) == S \cup {None}

Confidences == 0..1000
Stances == Long \cup Short \cup {"NEUTRAL", "ABSTAIN"}

ASSUME PositionAssumption == Positions \subseteq Int /\ IsFiniteSet(Positions) /\ MaxTime \in Nat

(* Components are compared one by one, the set of all evidence being vast. *)
ASSUME EvidenceAssumption ==
  \A e \in Evidence :
    /\ e.position.id \in Positions /\ e.position.side \in {"LONG", "SHORT"}
    /\ e.position.status \in {"OPEN", "PARTIALLY_EXITED", "EXIT_PENDING", "CLOSED"}
    /\ {e.position.entry, e.position.price, e.position.mfe, e.position.mae} \subseteq Nat
    /\ e.position.pnl \in Int
    /\ e.committee # None =>
         /\ e.committee.direction \in {"LONG", "SHORT", "NONE"}
         /\ e.committee.confidence \in Confidences /\ e.committee.disagreement \in DOMAIN SeverityOrder
         /\ DOMAIN e.committee.opinions \subseteq Agents
         /\ \A a \in DOMAIN e.committee.opinions :
              e.committee.opinions[a] \in [stance : Stances, confidence : Confidences]
    /\ e.thesis \in {None, "BULLISH", "BEARISH"}
    /\ e.risk # None => e.risk.decision \in {"APPROVED", "REDUCED", "REJECTED"} /\ e.risk.budget \in Nat
    /\ e.plan # None => e.plan.planned \in Optional(Nat) /\ e.plan.score \in Nat
    /\ {e.filled, e.sold, e.from, e.to} \subseteq Optional(Nat)

(* The tables of a trade other than trade_records and agent_performance.   *)
Tables == <<"outcome", "thesis", "execution", "exit", "risk", "instrument">>
TableNames == {Tables[i] : i \in DOMAIN Tables}

VARIABLES
    trades,      \* trades[p]: p's row of trade_records
    rows,        \* rows[p][t]: its row of the table t
    scores,      \* scores[p][a]: agent a's row of agent_performance
    snapshots,   \* the calibration snapshots, in the order of their insertion
    calls,       \* calls[w]: the call w is in, or the answer of the last one
    time,        \* moments so far
    raced        \* positions two calls were evaluating at once

vars == <<trades, rows, scores, snapshots, calls, time, raced>>

Answer(kind, samples, evaluated, performance) ==
  [kind |-> kind, samples |-> samples, evaluated |-> evaluated, performance |-> performance]
Nothing(kind) == Answer(kind, 0, 0, NoPerformance)
Idle == [pc |-> "idle", answer |-> Nothing("none")]

Init ==
  /\ trades = [p \in Positions |-> None]
  /\ rows = [p \in Positions |-> [t \in TableNames |-> None]]
  /\ scores = [p \in Positions |-> [a \in Agents |-> None]]
  /\ snapshots = <<>>
  /\ calls = [w \in Workers |-> Idle]
  /\ time = 0 /\ raced = {}

Returns(w, answer) == calls' = [calls EXCEPT ![w] = [pc |-> "idle", answer |-> answer]]
May(w) == calls[w].pc = "idle" /\ time < MaxTime

---------------------------------------------------------------------------
(* evaluate_closed_position: the trade's row is looked up, everything is   *)
(* computed from the arguments, and each row is upserted on its own.       *)

Evaluating(w, p) == calls[w].pc = "evaluate" /\ calls[w].e.position.id = p

AgentOrder == <<"QUANT", "BULL", "BEAR", "REGIME">>

Vote(e, a) == IF a \in Participants(e) THEN <<a>> ELSE <<>>
Votes(e) == Vote(e, "QUANT") \o Vote(e, "BULL") \o Vote(e, "BEAR") \o Vote(e, "REGIME")

FaultyTargets(e) == Tables \o <<"trade">> \o Votes(e)

FaultyOrder(e) == <<"trade">> \o Votes(e) \o Tables

(* The upserts to come, in order. *)
Targets(e) == <<"trade">> \o Tables \o Votes(e)

(* with_update counts one version and the merge another.  A position that  *)
(* is neither closed nor about to be raises, and nothing is written.       *)
Evaluate(w) == \E e \in Evidence :
  LET p == e.position.id
      known == trades[p]
  IN /\ May(w) /\ e.position.status \in {"CLOSED", "EXIT_PENDING"}
     /\ time' = time + 1
     /\ calls' = [calls EXCEPT ![w] =
          [pc |-> "evaluate", e |-> e, at |-> time', left |-> Targets(e),
           trade |-> IF known = None THEN TradeRecord(e, time', time', 1)
                     ELSE TradeRecord(e, time', known.created, known.version + 2)]]
     /\ raced' = IF \E other \in Workers : Evaluating(other, p) THEN raced \cup {p} ELSE raced
     /\ UNCHANGED <<trades, rows, scores, snapshots>>

Upserts(w, targets) ==
  /\ calls[w].pc = "evaluate" /\ Head(calls[w].left) \in targets
  /\ IF Len(calls[w].left) = 1 THEN Returns(w, Nothing("none"))
     ELSE calls' = [calls EXCEPT ![w].left = Tail(@)]

FaultyMerged(old, new) == new

(* ON CONFLICT(trade_id) DO UPDATE leaves created_at alone. *)
Merged(old, new) == IF old = None THEN new ELSE [new EXCEPT !.created = old.created]

UpsertTradeRecord(w) ==
  /\ Upserts(w, {"trade"})
  /\ LET p == calls[w].e.position.id
     IN trades' = [trades EXCEPT ![p] = Merged(@, calls[w].trade)]
  /\ UNCHANGED <<rows, scores, snapshots, time, raced>>

RowOf(e, table) ==
  CASE table = "outcome" -> TradeOutcome(e)
    [] table = "thesis" -> [correctness |-> Correctness(e), move |-> Stored(Move(e))]
    [] table = "execution" -> ExecutionQuality(e)
    [] table = "exit" -> ExitQuality(e)
    [] table = "risk" -> RiskOutcome(e)
    [] table = "instrument" -> InstrumentOutcome(e)

UpsertEvaluation(w) ==
  /\ Upserts(w, TableNames)
  /\ LET c == calls[w]
         t == Head(c.left)
     IN rows' = [rows EXCEPT ![c.e.position.id][t] = [at |-> c.at, content |-> RowOf(c.e, t)]]
  /\ UNCHANGED <<trades, scores, snapshots, time, raced>>

FaultyScored(of, a, record) ==
  [b \in Agents |-> IF b = a THEN record ELSE IF a = "QUANT" THEN None ELSE of[b]]
Scored(of, a, record) == [of EXCEPT ![a] = record]

UpsertAgentPerformance(w) ==
  /\ Upserts(w, Agents)
  /\ LET c == calls[w]
         a == Head(c.left)
     IN scores' = [scores EXCEPT ![c.e.position.id] =
                     Scored(@, a, [at |-> c.at, content |-> AgentRecord(c.e, a)])]
  /\ UNCHANGED <<trades, rows, snapshots, time, raced>>

---------------------------------------------------------------------------
(* Reading.  An agent's history is one transaction; a calibration or a     *)
(* summary is made of four.                                                *)

History(a) == {p \in Positions : scores[p][a] # None}
PredictionsOf(a) ==
  {[agent |-> a, of |-> p, confidence |-> scores[p][a].content.confidence,
    right |-> scores[p][a].content.correct] :
     p \in {p \in History(a) : scores[p][a].content.correct # None}}

AllTrades == {trades[p] : p \in Positions} \ {None}
FaultyLatest == snapshots[Len(snapshots)]
Latest == CHOOSE s \in {snapshots[i] : i \in DOMAIN snapshots} :
            \A i \in DOMAIN snapshots : snapshots[i].at <= s.at

Reading(kind, seen, query) ==
  [pc |-> "predictions", kind |-> kind, left |-> AgentOrder, predictions |-> {}, seen |-> seen,
   evaluated |-> 0, query |-> query]

Recompute(w) ==
  /\ May(w)
  /\ time' = time + 1
  /\ calls' = [calls EXCEPT ![w] = Reading("calibration", {}, None)]
  /\ UNCHANGED <<trades, rows, scores, snapshots, raced>>

(* get_performance_summary: without trades it reads nothing else. *)
Summarize(w) ==
  /\ May(w)
  /\ time' = time + 1
  /\ IF AllTrades = {} THEN Returns(w, Nothing("empty"))
     ELSE calls' = [calls EXCEPT ![w] = Reading("summary", AllTrades, None)]
  /\ UNCHANGED <<trades, rows, scores, snapshots, raced>>

(* get_context_for_trade: the latest calibration and the agents' counts    *)
(* are read when there is a trade to compare with.                         *)
FindContext(w) == \E q \in Queries :
  /\ May(w)
  /\ time' = time + 1
  /\ IF SimilarityRaises(q, AllTrades) THEN Returns(w, Nothing("raised"))
     ELSE IF MostSimilar(q, AllTrades, q.k) = {} THEN Returns(w, Nothing("empty"))
     ELSE calls' = [calls EXCEPT ![w] =
                      [Reading("context", MostSimilar(q, AllTrades, q.k), q) EXCEPT !.pc = "latest"]]
  /\ UNCHANGED <<trades, rows, scores, snapshots, raced>>

ReadLatest(w) ==
  /\ calls[w].pc = "latest"
  /\ calls' = [calls EXCEPT ![w].pc = "records"]
  /\ UNCHANGED <<trades, rows, scores, snapshots, time, raced>>

(* The calibration is dated when it is computed, after the last history.   *)
ReadPredictions(w) ==
  LET c == calls[w]
      found == c.predictions \cup PredictionsOf(Head(c.left))
      last == Len(c.left) = 1
  IN /\ c.pc = "predictions"
     /\ time' = IF last /\ c.kind = "calibration" THEN time + 1 ELSE time
     /\ CASE ~last ->
               calls' = [calls EXCEPT ![w].left = Tail(@), ![w].predictions = found]
          [] last /\ c.kind = "calibration" ->
               calls' = [calls EXCEPT ![w] = [pc |-> "save", at |-> time', of |-> Calibration(found)]]
          [] last /\ c.kind = "summary" /\ DisagreementRaises(c.seen) -> Returns(w, Nothing("unnamed"))
          [] OTHER -> calls' = [calls EXCEPT ![w].pc = "records", ![w].left = AgentOrder,
                                             ![w].predictions = found]
     /\ UNCHANGED <<trades, rows, scores, snapshots, raced>>

SaveCalibration(w) ==
  /\ calls[w].pc = "save"
  /\ snapshots' = Append(snapshots, [at |-> calls[w].at, of |-> calls[w].of])
  /\ Returns(w, Nothing("none"))
  /\ UNCHANGED <<trades, rows, scores, time, raced>>

(* The agents' counts, of a summary or a context. *)
ReadRecords(w) ==
  LET c == calls[w]
      counted == c.evaluated + Cardinality(History(Head(c.left)))
  IN /\ c.pc = "records"
     /\ IF Len(c.left) = 1
        THEN Returns(w, Answer(c.kind, Cardinality(c.predictions), counted, Performance(c.seen)))
        ELSE calls' = [calls EXCEPT ![w].left = Tail(@), ![w].evaluated = counted]
     /\ UNCHANGED <<trades, rows, scores, snapshots, time, raced>>

---------------------------------------------------------------------------
(* The process dies; what was committed stays. *)
Crash ==
  /\ \E w \in Workers : calls[w].pc # "idle"
  /\ calls' = [w \in Workers |-> Idle]
  /\ UNCHANGED <<trades, rows, scores, snapshots, time, raced>>

Next ==
  \/ \E w \in Workers :
       \/ Evaluate(w) \/ UpsertTradeRecord(w) \/ UpsertEvaluation(w) \/ UpsertAgentPerformance(w)
       \/ Recompute(w) \/ Summarize(w) \/ FindContext(w)
       \/ ReadLatest(w) \/ ReadPredictions(w) \/ SaveCalibration(w) \/ ReadRecords(w)
  \/ Crash

Spec == Init /\ [][Next]_vars
---------------------------------------------------------------------------
(* The rows of the tables.  No number is zero, and no row is missing.      *)
Numbers == (Int \ {0}) \cup {None}

TradeRow ==
  [position : Positions, at : Nat, side : {"LONG", "SHORT"}, entry : Numbers, price : Numbers,
   pnl : Numbers, return : Numbers, mfe : Numbers, mae : Numbers, r : Numbers,
   confidence : Numbers, disagreement : Optional(DOMAIN SeverityOrder),
   risk : {None, "APPROVED", "REDUCED", "REJECTED"}, created : Nat, version : Nat]

EvaluationRow == [at : Nat, content : {RowOf(e, t) : e \in Evidence, t \in TableNames}]

AgentRow ==
  [at : Nat, content : [stance : Stances, confidence : Confidences, correct : Optional(BOOLEAN),
                        agreed : Optional(BOOLEAN), profitable : BOOLEAN, r : Numbers]]

ASSUME RowAssumption == None \notin TradeRow /\ None \notin EvaluationRow /\ None \notin AgentRow

---------------------------------------------------------------------------
(* Properties. *)

TypeOK ==
  /\ \A p \in Positions : trades[p] # None => trades[p] \in TradeRow /\ trades[p].position = p
  /\ \A p \in Positions, t \in TableNames :
       rows[p][t] # None => rows[p][t] \in EvaluationRow /\ rows[p][t].at \in 1..time
  /\ \A p \in Positions, a \in Agents :
       scores[p][a] # None => scores[p][a] \in AgentRow /\ scores[p][a].at \in 1..time
  /\ \A i \in DOMAIN snapshots : snapshots[i].at \in 1..time
  /\ \A w \in Workers : calls[w].pc \in {"idle", "evaluate", "predictions", "latest", "records", "save"}
  /\ raced \subseteq Positions

(* A row about a trade exists only beside the trade's own, wherever the    *)
(* process died: the agents' histories and the summaries count no trade    *)
(* that is not there (the order of the upserts, service.py:129-140).       *)
RowsHaveTrades ==
  \A p \in Positions :
    (\E t \in TableNames : rows[p][t] # None) \/ (\E a \in Agents : scores[p][a] # None)
      => trades[p] # None

(* Unless two evaluations of a position overlapped, the rows of its trade  *)
(* are of the newest evaluation up to some table, and of older ones after  *)
(* it: a crash cuts an evaluation off, it never mixes two (service.py      *)
(* evaluate_closed_position has no transaction over its upserts).          *)
At(row) == IF row = None THEN 0 ELSE row.at
NewestFirst ==
  \A p \in Positions \ raced :
    /\ At(rows[p]["outcome"]) <= At(trades[p])
    /\ \A i \in 2..Len(Tables) : At(rows[p][Tables[i]]) <= At(rows[p][Tables[i - 1]])
    /\ \A a \in Agents : At(scores[p][a]) <= At(rows[p]["instrument"])

(* A trade keeps the moment it was created, also when two first            *)
(* evaluations of it race (store.py upsert_trade_record).                  *)
CreatedAtIsKept ==
  [][\A p \in Positions : trades[p] # None => trades'[p].created = trades[p].created]_vars

(* A summary never rests its calibration on more opinions than it counts   *)
(* records of agents, though the first are read before the second and      *)
(* evaluations go on in between (analytics.py get_performance_summary).    *)
SummariesAddUp ==
  \A w \in Workers : calls[w].pc = "idle" /\ calls[w].answer.kind = "summary" =>
    calls[w].answer.samples <= calls[w].answer.evaluated

(* Not what is intended: each trade a summary counts was won or lost.  One *)
(* that broke even is in none of its counts, the zero of its profit being  *)
(* stored as NULL (store.py upsert_trade_record, models.py is_complete),   *)
(* although analytics.py:535 counts break-evens for models.py:426 to show. *)
(* No run checks this; CountsWonAndLost of MemoryProofs proves it of any   *)
(* evidence.                                                               *)
CountedTradesWonOrLost ==
  \A w \in Workers : calls[w].pc = "idle" =>
    LET all == calls[w].answer.performance.all IN all.count = all.wins + all.losses

(* Of the opinions ever stored, each of a confidence of one half or more   *)
(* is in one bucket of the calibration, 1.0 too, and the expected error    *)
(* is at most 1 (analytics.py compute_calibration).                        *)
CalibrationIsSound ==
  LET all == UNION {PredictionsOf(a) : a \in Agents}
      summary == Calibration(all)
  IN Cardinality(all) >= MinSamples =>
       /\ summary.bucketed = Cardinality({p \in all : p.confidence >= 500})
       /\ summary.error = None \/ summary.error \in 1..1000

(* The calibration a context shows is never replaced by an older one, the  *)
(* saves of two calls coming in either order (store.py                     *)
(* get_latest_calibration).                                                *)
LatestNeverGoesBack ==
  [][snapshots # <<>> => Latest'.at >= Latest.at]_vars

(* api.py:102 "Get comprehensive performance summary.": one is given.      *)
SummariesAreGiven == \A w \in Workers : calls[w].pc = "idle" => calls[w].answer.kind # "unnamed"
=============================================================================
