# AlphaCouncil in TLA+

AlphaCouncil is a paper-trading pipeline in Python: it discovers candidates,
lets a committee of LLM agents form a thesis, gates it through a risk
constitution, selects an instrument, executes one limit order at Alpaca's paper
broker, watches the position, and writes down what can be learned. This
directory holds the TLA+ specifications of its backend (`src/backend/app`), the
TLC configurations that check them on small instances, and proofs of the
theorems that hold for every instance.

Run everything from this directory:

    tlc -workers 2 -config MCExecution.cfg MCExecution     # and the other cfgs
    tlc -workers 2 -config MCPositions.cfg MCPositions
    tlc -workers 2 -config MCCommittee.cfg MCCommittee
    tlc -workers 2 -config MCPipeline.cfg MCPipeline
    tlc -workers 2 -config MCMemory.cfg MCMemory
    tlc -workers 2 -config MCCouncil.cfg MCCouncil
    tlapm ExecutionProofs.tla ; tlapm PositionsProofs.tla ; tlapm CommitteeProofs.tla
    tlapm PipelineProofs.tla ; tlapm MemoryProofs.tla ; tlapm CouncilProofs.tla
    tlapm DiscoveryProofs.tla ; tlapm Sums.tla

## 1. The system

The parts, the state each keeps, its operations and what makes it correct.
The services are called from the API's endpoints, from scripts and by each
other; nothing retries by itself. The endpoints, of the council and of memory,
are coroutines that never give way while they work, so that one API process
takes their requests one at a time. Calls overlap where a service is used from several
threads, which the stores allow for with a lock and a connection per thread, or
where several processes (the API and a script) share a database file or the
broker's account.

| Part | State it keeps | Operations | What is hard | Correct when |
|---|---|---|---|---|
| **execution** (M6) | SQLite table `executions` (`:memory:` by default, a connection per thread); the orders at the broker | `execute` (plan, authorise, duplicate checks, record, submit, confirm, track), `reconcile_all`, `reconcile_specific` | overlapping callers, ambiguous timeouts, store errors between steps, crashes, a window after which a row is forgotten | one order per identity, no order without a row, results that are true, recovery that finds everything |
| **positions** (M7) | SQLite table `positions`; shares the execution store and broker | `monitor_once`, `reconcile_all`, `build_exit_plan`, `execute_exit`, `reconcile_exit` | provider quantities are per symbol, exits go through the entry gates, states with no way out | a position that must be closed can be closed, at most once and never beyond what is held |
| **committee** (M3) | none between calls; opinions within one | `evaluate_candidate`: four agents, challenges, one rebuttal round, aggregation | each LLM call may fail alone; aggregation needs quorum and weight | a thesis is published only with a quorum of valid agents; disagreement never stands in for support |
| **risk** (M4) | none (pure); `RiskState` given by the caller | `evaluate`: hard gates, budget, decision | order of gates, Decimal arithmetic, defaults on account errors | no approval past a hard gate, the budget never above its ceiling |
| **instruments, options** (M5) | none (pure) | stock or option selection, sizing, filters, scores | zero and rounding boundaries | a plan never exceeds the M4 budget |
| **discovery** (M2) | none between calls | universe, filters, signals, scores, diversification | one failing symbol of many, correlated picks | at most the configured number of candidates, diversified |
| **market** (M1) | none | bars, quotes, indicators, market state | missing and stale data | flags tell what is missing |
| **memory** (M8) | SQLite tables of trades, theses, lessons, agent records | `evaluate_closed_position` (seven separate upserts), queries, analytics | a crash between two upserts, re-evaluation, versions | a trade is evaluated once, and completely |
| **orchestration** (M9) | one `_current_run` slot shared by all requests | `run_council`, status queries | a new run over an old one, a stage that raises | a run ends complete or FAILED and its report is its own |
| **core, alpaca, llm, main, web, scripts** | settings; none | validation at start-up, SDK calls, routing, presentation | | modelled where others depend on them, else not |

Interactions: orchestration calls discovery, committee, risk, instruments and
execution in turn, passing immutable results forward; execution and positions
share the execution store, the paper gateway and the authoriser; memory reads
the positions that closed. The only state shared between concurrent actors is
the two stores, the broker, and the run slot.

## 2. The plan

The order is by what an error would cost: first orders, then the positions they
open, then what decides on them, then what is learned from them.

| Part | Modules | Proofs |
|---|---|---|
| what both order paths promise | `OrderLedger` | implemented by `Execution` and by `Positions`, proved |
| execution | `Execution`, `MCExecution` | `ExecutionProofs` |
| positions and exits | `Positions`, `MCPositions` | `PositionsProofs` |
| committee | `Committee`, `MCCommittee` | `CommitteeProofs` |
| risk, instruments, planner and authoriser, composed | `Risk`, `Instruments` (operators), `Pipeline` (steps), `MCPipeline` | `PipelineProofs` |
| memory | `PostTrade` (operators), `Memory` (steps), `MCMemory` | `MemoryProofs`, over `Sums` |
| market features, discovery and the council run | `Market`, `Discovery` (operators), `Council` (steps), `MCCouncil` | `DiscoveryProofs` (the operators), `CouncilProofs`, both over `Sums` |

`Pipeline` is the composition of the three services one thesis passes through;
it ends where `Execution` begins, with an authorised or denied plan. `Council`
composes the orchestrator with the discovery of a live run.

Left for later: exits and entries of one symbol over one broker (`Execution`
with `Positions`), the result `execute_exit` returns, and the committee's
verdict as the input of `Pipeline` (there, the direction, the proposal and the
confidence are any the committee can produce).

## 3. Module and code

### OrderLedger
What the execution package promises: for each identity (`IdempotencyKey`) at
most one order is placed, after a real call was authorised for it, and a closed
order stays closed. Two variables, three actions.

### Execution
The granularity is that of the code's effects: one step is one SQLite
transaction or one HTTP request, and other threads, the broker, a
reconciliation pass or a crash come between any two.

| TLA+ | Code |
|---|---|
| `store[k]` | the row of `executions` with `idempotency_key` k: its primary key's form, `provider_order_id`, `provider_status`, and whether `updated_at` is inside the pending window |
| `orders[o]` | the order Alpaca keeps under id o |
| `inflight` | submissions whose HTTP client gave up and which may still arrive |
| `call[w]` | the locals of thread w in `execute` / `_submit_and_track` / `track_order` |
| `recon` | the locals of `reconcile_pending_executions` / `_reconcile_record` |
| `Execute` | planner and authoriser, `service.py:114-133` |
| `CheckLocal`, `CheckProvider`, `Adopt` | `service.py:135-168`, `idempotency.py:73-88` |
| `Record`, `Submit`, `Confirm`, `Fail` | `_submit_and_track`, `service.py:181-260` |
| `PollRead`, `PollWrite`, `PollTimeout` | `tracking.py:48-86` |
| `ReconcilePending`, `ReconcileActive`, `ReconcileSpecific`, `ReconcileLookup`, `ReconcileWrite`, `ReconcileRaises`, `ReconcileDone` | `reconciliation.py:29-96` |
| `UpsertRaises`, `Upsert`, `UpdateProviderInfo`, `UpdateStatus`, `PendingRows`, `ActiveRows` | the statements of `store.py` |
| `Accept`, `BrokerProgress`, `Deliver` | Alpaca, as the gateway uses it (external) |
| `WindowPasses`, `Crash` | time and the process |

Details that matter and are kept: a row in both of a pass's lists is taken
twice, from its pending and from its active copy; a row can exist under two primary keys for
one idempotency key (`"ac-..."` and the form `adopt_existing_order` makes), so an
INSERT may raise; UPDATEs are by primary key and silently touch nothing; the
active query compares bare words with `str()` of SDK statuses; errors in
look-ups are swallowed; the write-ahead upsert resets `provider_order_id`; the
`except` of `_submit_and_track` also catches store errors after a successful
submission. Every call of the store or the broker may raise.

Abstracted: prices, quantities, timestamps, messages; the reasons of denial
(one choice in `Execute`); statuses no code distinguishes share a
representative. `ClientOrderId` is injective: the string corner cases are
listed as hazards.

Assumptions: Alpaca refuses a client order id it has seen; a tracked order's
time-out admits at least one poll; with a `:memory:` store there is one thread
and no pass (each connection has its own database).

### Positions
The same granularity: one step per call of the position store, the execution
store or the broker. The monitor's pass, any number of exit callers, fills and
other traders interleave.

| TLA+ | Code |
|---|---|
| `store[p]` | the row of `positions`: `current_quantity` and `status`, the only columns a decision or an exit depends on that ever change |
| `held[s]` | what `list_positions` reports of symbol s, signed |
| `rows[k]` | the `executions` row of exit key k: which plan's primary key, and `provider_order_id` |
| `orders[o]` | the exit order Alpaca keeps under id o, with the position it is for |
| `monitor`, `call[w]` | the locals of a pass, and of a caller with its exit plan |
| `decisions[p]` | the quantity of the EXIT decision a pass returned and a caller may act on, however late |
| `MonitorBegin`, `MonitorList`, `MonitorReconcile`, `MonitorApply`, `MonitorEvaluate`, `MonitorRaises` | `monitor.py:84-181`, `reconciliation.py:32-139` |
| `BuildExitPlan`, `ExitQuantity` | `exit_planner.py:45-156`, the clamp at 70-79 |
| `ExecuteExit`, `Authorized` | `service.py:86-155` and the authoriser on a plan with risk budget 0 |
| `CheckLocal`, `CheckProvider`, `Adopt`, `Record`, `Submit`, `Confirm`, `Fail` | `service.py:157-371`, `idempotency.py:73-88` |
| `NewService` | a service created without a store gets a new one in memory |
| `OpenPosition` | `PositionStore.upsert`, which only scripts and tests call |
| `Touch`, `Fill`, `EndOrder` | Alpaca and other traders (external) |

Kept: the broker nets a symbol, so two positions of it are both compared with,
and clamped to, the sum; the clamp ignores the side; a key keeps three
characters of the position's id (`Prefix`), so two positions may share an exit;
a second plan after a failed one breaks the UNIQUE key; a flagged position is
never read again; a tracked active exit ends in the `except` clause because the
result is frozen; the local quantity is never written after entry.

Abstracted: prices, watermarks and time (the exit rules fire or not: `signals`,
which includes the kill switch); statuses nothing writes; the result of
`execute_exit`, which nothing in `src` reads; a plan's prices but for whether its
limit price is zero (`priced`), which decides authorisation. The planner is the
one with a broker and a store: without them it does not clamp at all
(`exit_planner.py:43`). Positions are in stock; options go the same way.
Every store or broker call may raise; a caller that dies is one that takes no
further step, which no property forbids. A submission that raises did not reach
Alpaca or reached it at once: one that arrives after its client gave up is in
`Execution` only, whose submission this one copies.

### Committee
One step is one agent's analysis, one challenge, or the computation between.

| TLA+ | Code |
|---|---|
| `turn`, `initial` | `_run_independent_round`: QUANT, BULL, BEAR, REGIME in this order, and the results |
| `Analyze` | `CommitteeAgent.analyze`: an opinion, an abstention, or FAILED |
| `Detect`, `Severity`, `Challenged` | `detect_disagreement`, `_classify_severity`, `generate_challenges` |
| `todo`, `Rebut` | the challenges `run_rebuttal_round` has still to put, and putting one |
| `final` | the opinions after the merge (`service.py:95-102`) |
| `Decide`, `Aggregate`, `verdict` | `aggregate_opinions`, and the decision model |
| `Begin` | the next candidate of `evaluate_candidate_set` |

Kept: weights, thresholds and penalties with their values; a score that is
centred on 50 before the penalty; no confidence at all (score 50 times the
penalty); the quorum by number and weight; a rebuttal that always fails
(`prompts.py:219` has undoubled braces, and `base.py:251` formats it).
`Apart(ops, n)` says "the spread is at least n", which is all the code asks of it.

Abstracted: everything an agent may fail on is one result, FAILED; texts,
evidence and lists of participants, which no decision reads; rounding of
Decimals to 28 digits (quotients are compared by cross multiplication). The
limit on the number of candidates is left out: no two of them share state.

### Risk, Instruments and Pipeline
One step of `Pipeline` is one service call: `evaluate` of M4, `select` of M5,
the planner and then the authoriser of M6. Each reads the market or the account
anew and may find anything there; the evaluation and the plan are handed on,
however old, and may be executed again.

| TLA+ | Code |
|---|---|
| `FailedGates`, `HardGates` | the hard rules, in the order `RiskConstitution` runs them (`risk/rules.py`) |
| `Reductions`, `SoftLimits`, `ScaledBudget` | the soft reductions and their product |
| `StopDistance`, `NotionalAtRisk`, `Ceiling`, `Evaluation` | the budget, the sizing and the decision (`risk/service.py`, `risk/budget.py`) |
| `StockPlan`, `StockScore`, `LossAtStop` | `instruments/stock.py` |
| `Eligible`, `OptionScore` and its parts, `Contracts`, `OptionPlans` | the filters, scores and sizing of an option |
| `Selections`, `Preferred` | `instruments/selector.py`: the rejected thesis first, the margin for complexity |
| `Plannable`, `RoundToTick`, `ExpectedNotional`, `ExecutionPlan` | `execution/planner.py` |
| `Denials`, `Reasons` | `execution/validation.py`, `authorization.py`: every denial, and the first as the reason |
| `Evaluate`, `Select`, `Raises`, `BuildExecutionPlan`, `BuildRaises`, `Authorize`, `ExecuteAgain` | the calls, and what they raise |

Kept: money is an integer of half a cent, so that a midpoint is exact, and
quotients round towards the smaller budget; the made-up account of 100000
dollars (`readable = FALSE` stands for an error of the gateway and for a service
that has none); gates that can never fail are still listed. `Shortable` is
FALSE: the planner asks the `AssetInfo` for `shortable` and `easy_to_borrow`
with `getattr`, which the gateway's class does not have, so every short stock
plan raises ASSET_NOT_SHORTABLE. The whole notional of an entry is compared
with the loss M4 allows (`validation.py:62`), so that stock entries are denied
(`MCPipelineEntry.cfg`). An option's bid and ask have each their size, and either
may be missing or zero.

Abstracted: the defaults of a normalised position that lacks a market value;
the wording of reasons; Decimals beyond half a cent. A chain is a set of
contracts; the best of equals is any of them.

### PostTrade and Memory
One step of `Memory` is one transaction of the store (its lock and its
connection last no longer) with the computation up to the next one.

| TLA+ | Code |
|---|---|
| `trades`, `rows`, `scores`, `snapshots` | the tables `trade_records`, the six evaluation tables, `agent_performance`, `calibration_snapshots` |
| `calls[w]` | the locals of a thread in the service, or the answer it got |
| `time` | the moments the code reads from the clock, in order |
| `raced` | history: positions that two calls evaluated at once |
| `Evaluate`, `UpsertTradeRecord`, `UpsertEvaluation`, `UpsertAgentPerformance` | `evaluate_closed_position`, `memory/service.py:82-140`, and the statements of `memory/store.py` |
| `TradeRecord` ... `AgentRecord` | `memory/evaluator.py` |
| `Recompute`, `SaveCalibration`, `Calibration`, `Insight` | `recompute_calibration` and the calibration engine |
| `Summarize`, `ReadPredictions`, `ReadRecords`, `Performance` | `get_performance_summary` |
| `FindContext`, `ReadLatest`, `Similarity`, `MostSimilar` | `get_historical_context` and the similarity engine |
| `Crash` | the process dies between two transactions; the file stays |

Kept: a zero is stored as NULL (`x if x else None`), so a trade that broke even
is not complete; both counts of a re-evaluated record's version; a direction
whose correctness is the thesis's whichever side the agent took; the sign of a
SHORT's return, turned twice; what raises for a severity NONE or for a float
query. The calls that overlap are those of threads that share a service, for
which the store carries its lock, and of processes that share the file: the
endpoints of one API process do not, as they never give way.

Abstracted: quantities, notionals and means; the regime, signal and exit-reason
analytics, whose inputs are never stored; the reads that are one transaction.
Fractions are thousandths, rounded away from zero so that none becomes zero.

### Market, Discovery and Council
One step of `Council` is the screening or the deep analysis of one symbol, or
what a stage does with one candidate. The run is one coroutine that never gives
way; the slot `_current_run` keeps it until the next one.

| TLA+ | Code |
|---|---|
| `Unique`, `QualityStatus`, `CurrentPrice`, `Features`, `Rsi`, `Trend`, `Surprise` | `market/models.py`, `market/indicators.py`, `market/state.py` |
| `Screened`, `Rejection` | `discovery/screening.py`, `filters.py` |
| `Momentum` ... `Quality`, `TotalOf`, `Direction` | `discovery/signals.py`, `scoring.py` |
| `Listed`, `Universes`, `Category`, `Categorized` | the two providers of `discovery/universe.py`: the assets that are kept, and what is known of a symbol's category |
| `Rank`, `Ranked`, `Diversified`, `Shortlist`, `Finalists` | `scoring.py`, `diversification.py`, the nine stages of `discovery/service.py` |
| `run` | `_current_run`: the stage, the candidates, their analyses, the counts |
| `mode`, `categories` | the provider the service was made with, and what it keeps of categories between runs |
| `scan` | the locals of `discover()` |
| `Start`, `DiscoverDemo`, `Unwired`, `ListUniverse`, `Screen`, `Shorten`, `Analyse`, `DiscoverLive` | `create_council_run` and the discovery stage |
| `Deliberate`, `Evaluate`, `SelectInstrument`, `PlanExecution`, `NextStage`, `Fail` | the other stages, `orchestration/service.py` |

Kept: an answer of the gateway is one of a few, each a whole series of bars with
a snapshot, so that scores are computed and not chosen; `rsi` uses the first
fourteen changes of the series only, although `docs/FEATURE_ENGINE.md:54` names
Wilder's smoothing; a negative `max_candidates` slices from the end; the
candidates of a live run have no `candidate_id`, so that a live run that finds
anything FAILS; the stages of a live run after its discovery are stubs, as in
the code; the orchestrator the router builds has no gateway (`wired`). A universe is the
curated list or the tradable, active, plainly named equities of Alpaca's assets,
read through the gateway's trading client, and nothing if that fails. The Alpaca
provider looks a category up once and keeps it; a look-up that fails makes the
symbol an equity for good, within the run and in later ones.

Abstracted: sorting is by rank, the number of symbols that come before, and the
diversification, which walks a sorted list and counts each category, keeps those
whose rank in their category is below `MaxPerGroup`: sets instead of lists, with
the same result; realised volatility and the logarithm are parameters; indicators no
score reads, the explanations of a score, progress callbacks and timestamps are
left out.

## 4. What is checked

| Run | Instance | Shows |
|---|---|---|
| `MCExecution.cfg` | 1 key, 2 threads, 2 order ids, 3 calls, 1 poll, 1 pass, 1 crash | `TypeOK`; `AtMostOneOrder`; `OrdersAreReconcilable`; `ResultsAreTrue`; `IdsAreKept`; `ImplementsLedger` (about 2.3 million states) |
| `MCExecutionLive.cfg` | 2 keys, 1 thread, 2 calls, 1 pass, `FairSpec` | `IdsAreOurs` across plans; `CallsReturn`, `PassesEnd` |
| `MCExecutionAdopt.cfg` | violation | `FoundIsAdopted`: the adoption the safety document promises raises IntegrityError |
| `MCPositions.cfg` | 2 long positions of one symbol, 1 caller, 2 order ids, quantities to 2, holdings -2..2, 2 exit plans | `TypeOK`; `ExitsFitThePosition`; `FlagsHaveCause`; `OneExitNeverReverses`; `MismatchedIsNotDecided`; `ImplementsLedger` (about 2.1 million states) |
| `MCPositionsExits.cfg` | violation | `ExitsAreAuthorized`: the exit of a held position at a quoted price is denied |
| `MCCommittee.cfg` | every result of the four agents, confidences 0, 0.3 and 1 | `TypeOK`; `AtMostOneIsSilent`; `LongNeedsSupport`; `ShortNeedsSupport`; `ChallengesHaveOpponents` (about 600,000 states) |
| `MCPipeline.cfg` | 2 prices, both directions, each gate and each reduction hit from either side, 5 later markets, 7 chains, 9 quotes | `TypeOK`; `AuthorizedFitsM4`; `PlansFitTheBudget`; `RejectionIsFinal`; `MoreExposureNeverHelps`; `OrdersStayNearTheCeiling` (11,552 states) |
| `MCPipelineEntry.cfg` | violation | `StockEntriesAreAuthorized`: the entry of an approved thesis in a stock, which `docs/M6_REPORT.md:145-175` and the script `check_execution.py` show as authorised, is denied with RISK_BUDGET_EXCEEDED |
| `MCPipelineAccount.cfg` | violation | `UnreadableAccountIsRejected`: an account that cannot be read is taken for one of 100000 dollars |
| `MCMemory.cfg` | 2 positions, 2 threads, 3 calls, crashes, 4 sets of evidence | `TypeOK`; `RowsHaveTrades`; `NewestFirst`; `SummariesAddUp`; `CalibrationIsSound`; `CreatedAtIsKept`; `LatestNeverGoesBack` (about 1.26 million states) |
| `MCMemoryUnanimous.cfg` | violation | `SummariesAreGiven`: one trade of a unanimous committee and no summary is given any more |
| `MCCouncil.cfg` | 4 symbols of either universe, or no answer to Alpaca's list; 9 kinds of answers, any deep analysis and any look-up of a category failing, demo runs of 4 sizes | `TypeOK`; `FinalistsAreBest`; `TotalsStayInRange`; `CompleteRunsAddUp` (about 2.9 million states) |

Bounds. Two threads are the least that overlap, and code has no step that
involves three; the third call is the retry after both. Two order ids let a
second order exist, so that "at most one" can fail. One poll reaches each branch
of the loop (read, write, time-out, error). One pass and one crash suffice for
every order of {call, pass, crash}. The counters `calls`, `passes`, `crashes`
bound the behaviours; the theorems have no such bound. Deadlock is not checked:
the system may be at rest when its bounds are used up and every order has ended.
Symmetry over threads and order ids is used for safety only; `AnyKey`'s CHOOSE
ranges over keys, which are not in the symmetry set.

For positions: two positions of one symbol are the least that share a holding,
and quantity 2 the least that can be clamped to something or fill in part.
Two plans and two order ids let a second exit of either position meet the first
one's order, row or failure. One caller: calls overlap with passes, fills and
trades, and calls with calls only in the proofs, which hold for any number.
`Touch` happens at most once per symbol. Deadlock is not checked: with all
positions flagged and all orders ended nothing is left to do.

For the committee the four agents, their weights and the stances are the
code's; only the confidences are a sample: none, full, and one between, which
let the heavier of two camps be either. The theorems hold for all of them. A
committee can always take the next candidate, so deadlock is checked.

For the pipeline a share at 50 dollars and one at 90 cents meet both branches of
the rounding to ticks and both ends of the sizing. `Spoiled` takes one reading
of a good context at a time to either side of each threshold, `MCPortfolios`
every combination of two values per exposure. The later markets and quotes
agree with M4's, moved a little, moved too far, or failed, and the chains hold
contracts that pass or fail each filter. A behaviour ends when every call raised.

For memory two threads and three calls are two that overlap and one that finds
what they left. The evidence is a win, the same position evaluated again without
its committee, a loss, and a position still open. Two samples suffice for a
calibration to be more than "insufficient". Every upsert is a place to crash.

For the council four viable symbols of a universe can meet each of the three cuts: two of
a category may stay, and a look-up that fails can make all four equities; three go on
to the deep analysis, and two become candidates. Alpaca's list has four assets that pass
and one that fails each test. The answers are a rally, a slide, a dip, a crash,
a jump, and one for every reason to reject, and an ASSUME of the module states
that they are told apart. Ties and duplicate bars are among them. A run can always be followed by another,
so deadlock is checked.

Fairness. `WF_vars(WorkerStep(w))`: a running thread is scheduled, and every
call of the SDK and of SQLite returns or raises. `WF_vars(ReconcileStep)`: the
same for the thread of a pass. No fairness is assumed of the broker's progress,
late deliveries, new calls or crashes, and none that a request succeeds:
a call whose every request fails still returns.

Five runs end in a violation: what a document, a comment or a script says is not
what the code does. `PROJECT.json` has the line of each under "findings". They
are those whose cost is highest: an adoption that raises, an exit and an entry
that are denied, an account that is made up, a summary that is never given again. What else
was found not to hold is in section 6.

Each property that holds has an operator `Faulty...` beside the operator it distorts (a
fresh client order id per call, a query that forgets FAILED rows, a dry run that
submits, ...). Replacing the one by the other makes TLC report that property.

## 5. What is proved

`ExecutionProofs` proves, for every set of keys, threads and order ids and all
bounds, and from the three named assumptions of `Execution` only
(`SentinelAssumption`, `BoundAssumption`, `ThreadAssumption`):

* `TypeCorrect`, `OneOrder`, `Ours`, `Results`: `Spec => []` of `TypeOK`,
  `AtMostOneOrder`, `IdsAreOurs`, `ResultsAreTrue`;
* `Reconcilable` and `IdsKept`, for a durable store: `[]OrdersAreReconcilable`
  and the action property `IdsAreKept`;
* `Refinement`: `Spec => ImplementsLedger`;
* `CallsAreBounded` and `PassesAreBounded`, what `CallsReturn` and `PassesEnd` rest
  on besides fairness: each step of a call lowers `Left`, at most `2 * MaxPolls + 6`, each
  step of a pass over finitely many keys lowers `Rounds`, at most `4 * |Keys| + 2`, and no
  step of another actor moves a call or a pass that runs, but for a crash that
  ends it. That a step is always possible and is taken stays with TLC;
* `StaleOverlooked`, for a durable store: a row without an order id that left the
  window of `get_pending_executions`, and that no pass has in hand, is touched by
  nothing but a call of `execute` for its plan or `reconcile_specific`.

None of the properties is inductive alone. `IInv` adds what they rest on:

* `TypeInv`: an order id in a call's or the pass's hands at the stages that use
  it is a real id;
* `CallInv`: the order in hand exists, belongs to the call's key, and a
  terminal status seen is still the broker's (terminal orders do not move);
* `RowInv`, `ReconInv`: ids in rows, in the pass's copy of them and in its hands
  are the key's own;
* `BrokerInv`: an order's client id is its key's, no two orders share one, and
  everything at the broker or under way was requested by a real call and, if the
  store is durable, has a row.

`InvStep` has one step per action. Each operator that changes `call`, `store`
or `recon` has an effect lemma (`GotoEffect`, `UpsertEffect`, ...) which states
its result field by field, so that no later proof unfolds an EXCEPT. The
refinement needs `AcceptPlaces` and `ProgressCloses`: an acceptance is
`Place` of an identity that had none; progress is `Close` or a stutter.

`PositionsProofs` proves, from `MapAssumption`, `BoundAssumption` and
`SentinelAssumption` of `Positions`:

* `TypeCorrect` and `ExitsFit`: `Spec => []` of `TypeOK` and `ExitsFitThePosition`;
* `FlagsCaused`: `[]FlagsHaveCause`;
* `NotDecided` and `NeverReverses`: the action properties
  `MismatchedIsNotDecided` and `OneExitNeverReverses`;
* `FlagsStay`: the row of a flagged position never changes again, and no pass
  decides anything about it, whatever the broker comes to hold;
* `Refinement`: `Spec => ImplementsLedger`.

The argument has two layers. `TypeInv` carries a quantity along its way: a
decision is no larger than its row, a plan than its position, an order than its
plan, and the row's quantity never changes; it also says that a call past
authorisation that is not a dry run has its key in `requested`, that no two
orders share a key, and what a pass has flagged by which stage. `HoldingInv` is
about a symbol that is `Quiet`: nobody else traded it and no exit was placed,
so its holding is still what every plan was clamped to (`PlansClamped`) and
every mismatch was found against (`FlagsInv`). When its first exit is placed,
`ExitsClamped` takes over: what is left of the order and what is held go down
together. `QuietBefore` is the lemma all three steps rest on.

`CommitteeProofs` proves, from `ConfidenceAssumption` and `SwitchAssumption` of
`Committee`, for any confidences, with rebuttals on or off: `TypeCorrect`,
`Quorum` (`[]AtMostOneIsSilent`), `LongsAreSupported`, `ShortsAreSupported` and
the action property `ChallengesAreOpposed`. `Inv` adds to the types that the
aggregated opinions are those of the first round and that the verdict is their
aggregation. `Balance` splits the weighted stance into the pull of the bulls
less that of the bears; `ScoreNeedsSupport` is the arithmetic of the
thresholds: 60 cannot be reached without a positive stance at any penalty, and
40 not without a negative one as long as the penalty is above 0.80, which only
HIGH is not: there a committee in balance, or without confidence, scores 35
and proposes a short. `ChallengesAreOpposed` rests on `HighHasCamps`: a spread of three
needs both signs.

`PipelineProofs` proves, from the assumptions on the inputs (`ContextAssumption`,
`MarketAssumption`, `ChainAssumption`, `PermissionAssumption`), for any prices,
accounts, chains and quotes: `TypeCorrect`, `AuthorizedWithinM4`,
`PlansWithinBudget`, `RejectedForGood`, `ExposureNeverPays`,
`OrdersNearTheCeiling` and `NoStockPasses`. The invariant says what each stage holds: `Evaluated`,
the evaluation is the one of the context; `Planned`, the plan is one the
selection makes of some market and chain; `Ordered`, the order is the plan's at
some tradable quote near its price; `Answered`, an authorisation has no denial. The
rest is arithmetic of the operators: each reduction is between nothing and
everything, and at most what it is for the empty portfolio; a stop times a
quantity cut down is at most the budget at both prices; half a per cent and a
tick are at most one per cent of a ceiling.

`NoStockPasses` is the counterpart of the run `MCPipelineEntry`, and no merit of the
code: the run shows one entry denied, the theorem (`[]NoStockEntryPasses`) that
practically all are. It holds for every budget, also one of a
single half cent, and for every price of a plan that is four of M4's stops or
more: a stop is a tenth of the price it was set at, at the most, so the price must have
fallen below 0.4 of that for the theorem not to apply. A budget that buys a
share at all is at least the stop of one share (`StopFits`), or nothing would be
left after rounding down; so the plan is worth about four budgets or ten of
them, where the ceiling cuts it off (`StockIsLarge`). A tradable quote is within
half a per cent of the plan's price (`LimitIsNotLow`) and the order's worth
exceeds the budget (`StockExceedsBudget`), which is the denial
`RISK_BUDGET_EXCEEDED`. For this the invariant keeps in `Fits` that the worth of a
stock plan is its quantity times its price, cut to half cents, and in `Granted`
that the budget of what passed M4 is not zero and a tenth of the ceiling at most.

`MemoryProofs` proves, from `EvidenceAssumption` and the other named assumptions
of `Memory` and `PostTrade`, for any positions, threads, evidence, queries and any
number of crashes: `TypeCorrect`, `NoOrphans` (`[]RowsHaveTrades`), `CutNotMixed`
(`[]NewestFirst`), `CreatedOnce` and `LatestOnlyForward` (the action properties),
`OpinionsHaveRecords` (`[]SummariesAddUp`) and `CalibrationSound`
(`[]CalibrationIsSound`). `CountsWonAndLost` shows a disagreement in full: no
trade that broke even is ever counted, although `analytics.py:535` counts such
trades. The invariant has three parts. `Shape` types the rows and calls and says
that a call's pending upserts are a rising suffix of `Targets`. `Order` is why a
crash cuts and never mixes: the moments of a position's rows fall along the tables
(`Newest`), a call under way has written exactly the tables before its place, and
on a position that is not `raced` it is alone. `Dated` keeps moments in the past
and lets `Latest` be the greatest of them. `SummariesAddUp` needs more, about one
reader at a time: each opinion read has its record among those still to be counted
or already counted, since records never disappear; the sizes are compared agent by
agent. `CalibrationIsSound` is arithmetic over any finite set of opinions: the
five buckets are disjoint and make up the opinions of one half or more
(`BucketsPartition`), the gap of a bucket is at most its size (`GapBounded`), so
that the expected error is at most one (`CalibrationBounded`). `SummariesGiven` is
the counterpart of the run `MCMemoryUnanimous`: if every committee of the evidence
disagrees at least a little (`CommitteesDisagree`), every summary is given; the
unanimous one is the only cause of the violation.

`Sums` has the facts about `SumFunctionOnSet` of the community modules that these
proofs and those of discovery share: its type, the sum with an element more or
less, equal and bounded terms. The fold is defined by recursion over a set; its
equation, and each fact, is proved by looking at a smallest subset that would
refute it (`Minimal`), which takes no induction rule.

`CouncilProofs` proves, from the named assumptions of `Market`, `Discovery` and
`Council`, for any universe, answers, caps and requests: `TypeCorrect`,
`FinalistsBest` (`[]FinalistsAreBest`), `RunsAddUp` (`[]CompleteRunsAddUp`) and
`TotalsInRange` (`[]TotalsStayInRange`). A universe is any of either provider's, and
categories are what the provider has kept, right or wrong: what is known is never
known differently later, so that the shortlist of a run and its finalists are cut by the
same categories. `TrendsDiffer` shows a disagreement in full: no analysis has both
averages agree, although `docs/SCORING.md:54-61` gives ten points for it. That
features, scores and totals are integers is proved in `DiscoveryProofs`, from what
the gateway may answer (`HeardAssumption`: bars and quotes are numbers, a
volatility or none) and two facts about parameters (`LogarithmAssumption`,
`TrendAssumption`). There `ScoreRanges` bounds each of the seven signals, the
momentum between -10 and 110, and `TotalsAreBounded` their weighted sum. It needs one
balance of the weights, `MomentumIsOutweighed`, a hypothesis of both theorems:
the momentum weighs no more than trend, volume, volatility and reversion
together, by default 20 against 60 (`core/config.py:50-56`). Without a balance of
this kind the total can be negative; the run's weights are the defaults.
`Inv` has three parts. `RunOK` says, stage by stage, which analyses are already
what the stage makes of a candidate and which are still what the stage before it
made (`Analysis`, `Risked`, `Instrumented`, `Concluded`), and counts the approved
ones. `ScanOK` says that what the deep analysis has been through, with or
without success, is a beginning of the shortlist. `Finest` is
`FinalistsAreBest` over one scan; only `DiscoverLive` establishes it and nothing
afterwards touches what it speaks of. It rests on the ranking: `Before` is a
strict total order of the symbols, so the ranks of n symbols are an injection
into n numbers and reach each of them (`RankReached`), and the first k of a
ranking come before all others (`BestOf`). `DiversifiedAgain` is why the second
diversification loses nobody: what is left of a diversified set has no rank it
did not have before.

Only model-checked: the liveness properties `CallsReturn` and `PassesEnd` (the
prover does not treat fairness and ENABLED), whose measure is proved, and the
violations. Every other property of the runs has its theorem.

## 6. Not modelled

* `get_execution_status` (reads only), `track_order_async` and `cancel_order` (no
  caller); the updates of `positions/store.py` nothing calls.
* Prompts and the parsing of LLM answers: an agent's outcome is an opinion or a
  failure. Evidence and texts, which no decision reads.
* Settings validation, SDK wrappers, HTTP routing and serialisation, the web
  console and the operator scripts: they keep no state the parts above read.
* Time is not modelled: a plan's time to live is part of the authorisation's
  outcome, and nothing checks it later, in the code or here.

Known limits of the code that no run is about, as each follows from a line:

* `execution/models.py:308` and `:325`: the key keeps eight characters of the plan's
  id, and `replace("ac-", "")` removes every occurrence; plans that agree on
  them share an order.
* `execution/store.py:162`, `:173`: a row of unknown outcome leaves the window of one hour
  (in effect a calendar day) for good, while filled rows never leave reconciliation and may be marked
  UNKNOWN_PROVIDER (`StaleOverlooked` proves the first).
* `execution/validation.py:40`: slow duplicate checks let a plan outlive its seconds.
* `execution/service.py:73`: the default store is `:memory:`. With
  `Durable = FALSE` a crash leaves an order without a row, and
  `OrdersAreReconcilable` does not hold.
* `positions/service.py:162`, `:247`, `:275`: the key of an exit is kept after a failed
  attempt, refused to a second plan, and shared by positions whose ids agree on
  three characters.
* `positions/monitor.py:103`, `:114`: nothing clears a flag (`FlagsStay`), and the local quantity is
  never reconciled.
* `positions/service.py:356`: a tracked exit assigns to a frozen model, so the
  caller of a live order gets the result of a failure.
* `execution/planner.py` raises its errors through `execute` to the caller.
* `committee/agents/base.py:251`: a rebuttal formats a prompt with undoubled braces
  (`prompts.py:219`) and raises before the LLM is asked; the `except` keeps the first
  opinion. The request would have succeeded; `service.py:95` means to use its answer.
* `discovery/screening.py:154`: the short and the long average are handed over swapped, so
  the ten points of TREND_ALIGNED (`docs/SCORING.md:54-61`,
  `tests/test_discovery_signals.py:303`) are never given (`TrendsDiffer`).
* `memory/store.py:366`: a result of zero is stored as missing, so the break-evens that
  `memory/analytics.py:535` and `memory/models.py:426` count cannot occur
  (`CountsWonAndLost`).
