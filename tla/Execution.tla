----------------------------- MODULE Execution -----------------------------
(***************************************************************************)
(* M6, the execution package (src/backend/app/execution): concurrent calls *)
(* of ExecutionService.execute, the SQLite ExecutionStore they share, the  *)
(* broker behind PaperExecutionGateway, the OrderTracker's polling, the    *)
(* ExecutionReconciler, and process crashes between any two steps.         *)
(*                                                                         *)
(* One step is one call of the store (a SQLite transaction) or of the      *)
(* broker (an HTTP request); other callers run between two steps.  Either  *)
(* may raise: the database stays locked, the request fails.                *)
(*                                                                         *)
(* Operators named Faulty... are not part of the specification: each is an *)
(* operator of it with a plausible bug, for testing the properties.        *)
(***************************************************************************)
EXTENDS Naturals

CONSTANTS
    Keys,         \* idempotency keys: one per instrument plan (IdempotencyKey)
    Workers,      \* threads that call execute
    OrderIds,     \* ids the broker may give to orders
    NoOrder,      \* an id the broker has not given yet
    NoRow,        \* no row of the store has this idempotency_key
    NoId,         \* SQL NULL in provider_order_id
    Durable,      \* TRUE: a db_path was given; FALSE: the default ":memory:"
    MaxPolls,     \* polls that fit in execution_track_timeout_seconds
    MaxCalls,     \* bound: calls of execute in a behaviour
    MaxPasses,    \* bound: reconciliation passes in a behaviour
    MaxCrashes    \* bound: crashes in a behaviour

(* str() of the SDK's order statuses.  NEW also stands for the others that *)
(* _normalize_order maps to SUBMITTED, CANCELED for EXPIRED, DONE_FOR_DAY  *)
(* and REJECTED: no code distinguishes them.                               *)
OpenStatus   == {"OrderStatus.NEW", "OrderStatus.PARTIALLY_FILLED"}
ClosedStatus == {"OrderStatus.FILLED", "OrderStatus.CANCELED"}
ProviderStatus == OpenStatus \cup ClosedStatus

(* provider_status of a row: NULL, a status of the broker, or a mark of    *)
(* the service ("FAILED: ...") or of the reconciler.                       *)
RowStatus == ProviderStatus \cup {"NULL", "FAILED", "UNKNOWN_PROVIDER"}

Order == [cid : Keys, key : Keys, status : ProviderStatus]

(* A row of the executions table, found by its UNIQUE idempotency_key.     *)
(* form tells the two primary keys a row of that key can have apart:       *)
(* "plan" is the execution_plan_id ("ac-..."), "adopted" the one           *)
(* adopt_existing_order makes from the client order id (without "ac-").    *)
(* fresh: updated_at is inside get_pending_executions' window.  Every row  *)
(* has authorization_state AUTHORIZED: no code writes another one.         *)
Row == [form : {"plan", "adopted"}, pid : OrderIds \cup {NoId},
        status : RowStatus, fresh : BOOLEAN]

ASSUME SentinelAssumption ==
    /\ NoOrder \notin Order
    /\ NoRow \notin Row
    /\ NoId \notin OrderIds

ASSUME BoundAssumption ==
    /\ Keys # {}
    /\ Durable \in BOOLEAN
    /\ MaxPolls \in Nat \ {0}
    /\ MaxCalls \in Nat /\ MaxPasses \in Nat /\ MaxCrashes \in Nat

(* Each thread has a connection of its own, and a ":memory:" database is   *)
(* its connection's: only the thread that built the store finds the table. *)
ASSUME ThreadAssumption ==
    ~Durable => MaxPasses = 0 /\ \A v, w \in Workers : v = w

VARIABLES
    store,      \* the executions table: store[k] is the row of key k, or NoRow
    orders,     \* the broker's orders: orders[o] is order o, or NoOrder
    inflight,   \* submissions the client gave up on that may still arrive
    call,       \* call[w]: the state of worker w's call of execute
    recon,      \* the state of a reconciliation pass
    requested,  \* history: keys a real call was authorised for
    calls, passes, crashes    \* counters for the bounds

vars == <<store, orders, inflight, call, recon, requested, calls, passes, crashes>>
bounds == <<calls, passes, crashes>>

(* Where a call stands.  "poll" is the head of the tracker's loop.         *)
Stage == {"idle", "local", "provider", "adopt", "record", "submit",
          "confirm", "fail", "poll", "write"}

(* What execute returned or raised.  DUPLICATE is an adopted result        *)
(* (reason DUPLICATE_EXECUTION), AUTHORIZED a dry run's.                   *)
Outcome == {"none", "RAISED", "NOT_EXECUTED", "AUTHORIZED", "DUPLICATE", "FAILED",
            "SUBMITTED", "PARTIALLY_FILLED", "FILLED", "CANCELED"}

Call == [pc : Stage, key : Keys, dry : BOOLEAN, track : BOOLEAN,
         oid : OrderIds \cup {NoId},       \* the order in hand
         seen : RowStatus,                 \* its last known provider_status
         polls : 0..MaxPolls, out : Outcome]

(* A row read as pending and then as active is in both lists of a pass.    *)
Entries == {"pending", "active"} \X Keys

Recon == [pc : {"idle", "active", "lookup", "write"},
          todo : SUBSET Entries,                  \* entries still to reconcile
          ids : [Keys -> OrderIds \cup {NoId}],   \* provider_order_id of the active ones
          key : Keys,                             \* the row in hand, and
          oid : OrderIds \cup {NoId},             \* the order found for it, with
          seen : RowStatus]                       \* its status at that time

TypeOK ==
    /\ store \in [Keys -> Row \cup {NoRow}]
    /\ orders \in [OrderIds -> Order \cup {NoOrder}]
    /\ inflight \subseteq [cid : Keys, key : Keys]
    /\ call \in [Workers -> Call]
    /\ recon \in Recon
    /\ requested \subseteq Keys
    /\ calls \in 0..MaxCalls /\ passes \in 0..MaxPasses /\ crashes \in 0..MaxCrashes

AnyKey == CHOOSE k \in Keys : TRUE

IdleCall == [pc |-> "idle", key |-> AnyKey, dry |-> TRUE, track |-> FALSE,
             oid |-> NoId, seen |-> "NULL", polls |-> 0, out |-> "none"]

IdleRecon == [pc |-> "idle", todo |-> {}, ids |-> [k \in Keys |-> NoId],
              key |-> AnyKey, oid |-> NoId, seen |-> "NULL"]

Init ==
    /\ store = [k \in Keys |-> NoRow]
    /\ orders = [o \in OrderIds |-> NoOrder]
    /\ inflight = {}
    /\ call = [w \in Workers |-> IdleCall]
    /\ recon = IdleRecon
    /\ requested = {}
    /\ calls = 0 /\ passes = 0 /\ crashes = 0

-----------------------------------------------------------------------------
(* The broker. *)

(* The client order id a key is submitted under: ClientOrderId.to_string.  *)
(* Faulty: every call makes an id of its own.                              *)
FaultyClientOrderId(k) == <<k, calls>>

ClientOrderId(k) == k

(* get_order_by_client_id.  Faulty: it answers with any order there is.    *)
FaultyOrdersWith(cid) == {o \in OrderIds : orders[o] # NoOrder}

OrdersWith(cid) == {o \in OrderIds : orders[o] # NoOrder /\ orders[o].cid = cid}

(* ExecutionOrder.status, is_active and is_terminal of a provider status.  *)
(* Faulty: the mapping lets an unmapped status through.                    *)
FaultyNormalized(s) == s

Normalized(s) ==
    CASE s = "OrderStatus.NEW" -> "SUBMITTED"
      [] s = "OrderStatus.PARTIALLY_FILLED" -> "PARTIALLY_FILLED"
      [] s = "OrderStatus.FILLED" -> "FILLED"
      [] OTHER -> "CANCELED"
IsActive(s) == s \in OpenStatus
IsTerminal(s) == s \in ClosedStatus

(* A submission reaches the broker, which refuses a client order id it     *)
(* already knows, gives the new order an id of its own and answers with    *)
(* its status, which may be final at once (filled, rejected).              *)
Accept(r, o, s) ==
    /\ OrdersWith(r.cid) = {}
    /\ orders[o] = NoOrder
    /\ orders' = [orders EXCEPT ![o] = [cid |-> r.cid, key |-> r.key, status |-> s]]

(* An order makes progress: it fills, in part or whole, or ends unfilled.  *)
BrokerProgress(o) ==
    /\ orders[o] # NoOrder
    /\ IsActive(orders[o].status)
    /\ \E s \in ProviderStatus \ {"OrderStatus.NEW", orders[o].status} :
          orders' = [orders EXCEPT ![o].status = s]
    /\ UNCHANGED <<store, inflight, call, recon, requested, bounds>>

(* A submission whose client gave up arrives late, or is lost or refused.  *)
Deliver(r) ==
    /\ r \in inflight
    /\ inflight' = inflight \ {r}
    /\ \/ \E o \in OrderIds, s \in ProviderStatus : Accept(r, o, s)
       \/ UNCHANGED orders
    /\ UNCHANGED <<store, call, recon, requested, bounds>>

-----------------------------------------------------------------------------
(* The store: one operator per statement it runs. *)

(* INSERT ... ON CONFLICT(execution_plan_id): a row with the same          *)
(* idempotency_key under another primary key raises IntegrityError.        *)
UpsertRaises(k, form) == store[k] # NoRow /\ store[k].form # form

Upsert(k, form, pid, status) ==
    store' = [store EXCEPT ![k] =
                [form |-> form, pid |-> pid, status |-> status, fresh |-> TRUE]]

(* UPDATE ... WHERE execution_plan_id: no effect when no row has it.       *)
UpdateProviderInfo(k, forms, o, status) ==
    store' = IF store[k] # NoRow /\ store[k].form \in forms
             THEN [store EXCEPT ![k] = [form |-> @.form, pid |-> o, status |-> status,
                                        fresh |-> TRUE]]
             ELSE store

(* Faulty: the statement also clears the id. *)
FaultyUpdateStatus(k, forms, status) ==
    store' = [store EXCEPT ![k] = [form |-> @.form, pid |-> NoId, status |-> status,
                                   fresh |-> TRUE]]

UpdateStatus(k, forms, status) ==
    store' = IF store[k] # NoRow /\ store[k].form \in forms
             THEN [store EXCEPT ![k] = [form |-> @.form, pid |-> @.pid,
                                        status |-> status, fresh |-> TRUE]]
             ELSE store

(* get_pending_executions.  Faulty: rows marked FAILED are left out.       *)
FaultyPendingRows ==
    {k \in Keys : store[k] # NoRow /\ store[k].pid = NoId /\ store[k].fresh
                  /\ store[k].status = "NULL"}

PendingRows == {k \in Keys : store[k] # NoRow /\ store[k].pid = NoId /\ store[k].fresh}

(* get_active_executions.  The query compares provider_status with bare    *)
(* words, while the column holds str() of the SDK's status.                *)
ActiveRows == {k \in Keys : /\ store[k] # NoRow
                            /\ store[k].pid # NoId
                            /\ store[k].status \notin
                                 {"NULL", "FILLED", "CANCELED", "EXPIRED", "REJECTED"}}

(* updated_at falls out of the pending window of every row written so far. *)
WindowPasses ==
    /\ store' = [k \in Keys |->
                   IF store[k] = NoRow THEN NoRow
                   ELSE [form |-> store[k].form, pid |-> store[k].pid,
                         status |-> store[k].status, fresh |-> FALSE]]
    /\ store' # store
    /\ UNCHANGED <<orders, inflight, call, recon, requested, bounds>>

-----------------------------------------------------------------------------
(* ExecutionService.execute, one call per worker at a time. *)

At(w, stage) == call[w].pc = stage

Goto(w, stage) == call' = [call EXCEPT ![w].pc = stage]

(* The call goes on with order o in hand, last seen in this status. *)
Hold(w, stage, o, status) ==
    call' = [call EXCEPT ![w] = [@ EXCEPT !.pc = stage, !.oid = o, !.seen = status]]

(* The tracker sleeps and reads again. *)
NextRound(w) ==
    LET round == call[w].polls + 1 IN
    call' = [call EXCEPT ![w] = [@ EXCEPT !.pc = "poll", !.polls = round]]

(* The call returns a result, or raises. *)
Return(w, out, oid, status) ==
    call' = [call EXCEPT ![w] = [@ EXCEPT !.pc = "idle", !.out = out, !.oid = oid,
                                          !.seen = status, !.polls = 0]]

(* Planner and authoriser: they read the market, the account and their     *)
(* arguments only.  The planner raises MarketDataError, or the plan is     *)
(* denied, or it is authorised.                                            *)
Execute(w, k, dry, track) ==
    /\ At(w, "idle") /\ calls < MaxCalls
    /\ dry => ~track                  \* execute does not look at track then
    /\ calls' = calls + 1
    /\ \/ \E out \in {"RAISED", "NOT_EXECUTED"} :
             /\ call' = [call EXCEPT ![w] = [IdleCall EXCEPT !.key = k, !.dry = dry,
                                                             !.out = out]]
             /\ UNCHANGED requested
       \/ /\ call' = [call EXCEPT ![w] = [IdleCall EXCEPT !.key = k, !.dry = dry,
                                                          !.track = track, !.pc = "local"]]
          /\ requested' = IF dry THEN requested ELSE requested \cup {k}
    /\ UNCHANGED <<store, orders, inflight, recon, passes, crashes>>

(* A row that has a provider id ends the call.  Faulty: any row does.      *)
FaultySubmitted(k) == store[k] # NoRow

Submitted(k) == store[k] # NoRow /\ store[k].pid # NoId

(* check_duplicate_local.  The DUPLICATE result reads the order once more  *)
(* and is UNKNOWN when that fails.                                         *)
CheckLocal(w) ==
    LET k == call[w].key IN
    /\ At(w, "local")
    /\ \/ Return(w, "RAISED", NoId, "NULL")
       \/ Submitted(k) /\ Return(w, "DUPLICATE", store[k].pid, "NULL")
       \/ ~Submitted(k) /\ Goto(w, "provider")
    /\ UNCHANGED <<store, orders, inflight, recon, requested, bounds>>

(* Whether execute stops before the submission.  Faulty: it never does.    *)
FaultyStopsAtDryRun(w) == FALSE

StopsAtDryRun(w) == call[w].dry

(* check_duplicate_provider: any error but "not found" leaves execute.     *)
CheckProvider(w) ==
    LET found == OrdersWith(ClientOrderId(call[w].key)) IN
    /\ At(w, "provider")
    /\ \/ Return(w, "RAISED", NoId, "NULL")
       \/ \E o \in found : Hold(w, "adopt", o, orders[o].status)
       \/ /\ found = {} /\ StopsAtDryRun(w)
          /\ Return(w, "AUTHORIZED", NoId, "NULL")
       \/ /\ found = {} /\ ~StopsAtDryRun(w)
          /\ Goto(w, "record")
    /\ UNCHANGED <<store, orders, inflight, recon, requested, bounds>>

(* adopt_existing_order: an upsert under the adopted primary key. *)
Adopt(w) ==
    LET c == call[w] IN
    /\ At(w, "adopt")
    /\ \/ /\ Return(w, "RAISED", NoId, "NULL")
          /\ UNCHANGED store
       \/ /\ ~UpsertRaises(c.key, "adopted")
          /\ Upsert(c.key, "adopted", c.oid, c.seen)
          /\ Return(w, "DUPLICATE", c.oid, c.seen)
    /\ UNCHANGED <<orders, inflight, recon, requested, bounds>>

(* _submit_and_track writes the row of the submission ahead of it. *)
Record(w) ==
    /\ At(w, "record")
    /\ \/ /\ Return(w, "RAISED", NoId, "NULL")
          /\ UNCHANGED store
       \/ /\ ~UpsertRaises(call[w].key, "plan")
          /\ Upsert(call[w].key, "plan", NoId, "NULL")
          /\ Goto(w, "submit")
    /\ UNCHANGED <<orders, inflight, recon, requested, bounds>>

(* submit_limit_order: accepted and answered; or it raises, and then the   *)
(* broker refused it, never got it, or gets it later.                      *)
Submit(w) ==
    LET r == [cid |-> ClientOrderId(call[w].key), key |-> call[w].key] IN
    /\ At(w, "submit")
    /\ \/ \E o \in OrderIds, s \in ProviderStatus :
             /\ Accept(r, o, s)
             /\ Hold(w, "confirm", o, s)
             /\ UNCHANGED inflight
       \/ /\ Goto(w, "fail")
          /\ inflight' \in {inflight, inflight \cup {r}}
          /\ UNCHANGED orders
    /\ UNCHANGED <<store, recon, requested, bounds>>

(* The provider's answer is stored; an active order is tracked on request. *)
(* An error here is taken for a failed submission.                         *)
Confirm(w) ==
    LET c == call[w] IN
    /\ At(w, "confirm")
    /\ \/ Goto(w, "fail") /\ UNCHANGED store
       \/ /\ UpdateProviderInfo(c.key, {"plan"}, c.oid, c.seen)
          /\ IF c.track /\ IsActive(c.seen)
             THEN Goto(w, "poll")
             ELSE Return(w, Normalized(c.seen), c.oid, c.seen)
    /\ UNCHANGED <<orders, inflight, recon, requested, bounds>>

(* The except clause of _submit_and_track. *)
Fail(w) ==
    /\ At(w, "fail")
    /\ \/ Return(w, "RAISED", NoId, "NULL") /\ UNCHANGED store
       \/ /\ UpdateStatus(call[w].key, {"plan"}, "FAILED")
          /\ Return(w, "FAILED", NoId, "NULL")
    /\ UNCHANGED <<orders, inflight, recon, requested, bounds>>

(* track_order, one round: the order is read (an error counts as a round   *)
(* without news), a status that changed is to be written, a final one ends *)
(* the tracking.                                                           *)
PollRead(w) ==
    LET c == call[w]
        now == orders[c.oid].status IN
    /\ At(w, "poll") /\ c.polls < MaxPolls
    /\ \/ NextRound(w)
       \/ now # c.seen /\ Hold(w, "write", c.oid, now)
       \/ /\ now = c.seen /\ IsTerminal(now)
          /\ Return(w, Normalized(now), c.oid, now)
    /\ UNCHANGED <<store, orders, inflight, recon, requested, bounds>>

(* The write of a changed status.  When it raises, the loop goes on with   *)
(* the new status as the last one seen: nothing writes it any more.        *)
PollWrite(w) ==
    LET c == call[w] IN
    /\ At(w, "write")
    /\ \/ NextRound(w) /\ UNCHANGED store
       \/ /\ UpdateStatus(c.key, {"plan"}, c.seen)
          /\ IF IsTerminal(c.seen)
             THEN Return(w, Normalized(c.seen), c.oid, c.seen)
             ELSE NextRound(w)
    /\ UNCHANGED <<orders, inflight, recon, requested, bounds>>

(* The tracking time is over, at the latest after MaxPolls rounds.         *)
(* Faulty: only an order that ended lets the loop end.                     *)
FaultyPollTimeout(w) ==
    /\ At(w, "poll") /\ IsTerminal(call[w].seen)
    /\ Return(w, Normalized(call[w].seen), call[w].oid, call[w].seen)
    /\ UNCHANGED <<store, orders, inflight, recon, requested, bounds>>

PollTimeout(w) ==
    /\ At(w, "poll") /\ call[w].polls > 0
    /\ Return(w, Normalized(call[w].seen), call[w].oid, call[w].seen)
    /\ UNCHANGED <<store, orders, inflight, recon, requested, bounds>>

WorkerStep(w) ==
    \/ CheckLocal(w) \/ CheckProvider(w) \/ Adopt(w) \/ Record(w) \/ Submit(w)
    \/ Confirm(w) \/ Fail(w) \/ PollRead(w) \/ PollWrite(w) \/ PollTimeout(w)

-----------------------------------------------------------------------------
(* ExecutionReconciler.  The rows of a list are taken in any order. *)

ReconcilePending ==
    /\ recon.pc = "idle" /\ passes < MaxPasses
    /\ passes' = passes + 1
    /\ recon' = [recon EXCEPT !.pc = "active", !.todo = {"pending"} \X PendingRows]
    /\ UNCHANGED <<store, orders, inflight, call, requested, calls, crashes>>

ReconcileActive ==
    /\ recon.pc = "active"
    /\ recon' = [recon EXCEPT !.pc = "lookup", !.todo = @ \cup ({"active"} \X ActiveRows),
                              !.ids = [k \in Keys |-> IF k \in ActiveRows
                                                      THEN store[k].pid ELSE NoId]]
    /\ UNCHANGED <<store, orders, inflight, call, requested, bounds>>

(* reconcile_specific *)
ReconcileSpecific(k) ==
    /\ recon.pc = "idle" /\ passes < MaxPasses
    /\ store[k] # NoRow
    /\ passes' = passes + 1
    /\ recon' = [recon EXCEPT !.pc = "lookup", !.todo = {<<"active", k>>}, !.ids[k] = store[k].pid]
    /\ UNCHANGED <<store, orders, inflight, call, requested, calls, crashes>>

(* The entries left after one.  Faulty: it is not taken off the list.      *)
FaultyRemaining(list, k) == recon.todo

Remaining(list, k) == recon.todo \ {<<list, k>>}

(* By the provider id the list has, then by client order id; each error is *)
(* swallowed and looks like "not found".  The pending rows come first.     *)
ReconcileLookup(list, k) ==
    /\ recon.pc = "lookup" /\ <<list, k>> \in recon.todo
    /\ list = "active" => \A j \in Keys : <<"pending", j>> \notin recon.todo
    /\ \/ \E o \in OrderIds :
             /\ orders[o] # NoOrder
             /\ (list = "active" /\ o = recon.ids[k]) \/ orders[o].cid = ClientOrderId(k)
             /\ recon' = [recon EXCEPT !.pc = "write", !.todo = Remaining(list, k), !.key = k,
                                       !.oid = o, !.seen = orders[o].status]
       \/ recon' = [recon EXCEPT !.pc = "write", !.todo = Remaining(list, k), !.key = k,
                                 !.oid = NoId, !.seen = "NULL"]
    /\ UNCHANGED <<store, orders, inflight, call, requested, bounds>>

ReconcileWrite ==
    /\ recon.pc = "write"
    /\ IF recon.oid # NoId
       THEN UpdateProviderInfo(recon.key, {"plan", "adopted"}, recon.oid, recon.seen)
       ELSE UpdateStatus(recon.key, {"plan", "adopted"}, "UNKNOWN_PROVIDER")
    /\ recon' = [recon EXCEPT !.pc = "lookup", !.key = AnyKey, !.oid = NoId,
                              !.seen = "NULL"]
    /\ UNCHANGED <<orders, inflight, call, requested, bounds>>

(* A store error ends the pass; the rows not yet taken stay as they are. *)
ReconcileRaises ==
    /\ recon.pc \in {"active", "write"}
    /\ recon' = IdleRecon
    /\ UNCHANGED <<store, orders, inflight, call, requested, bounds>>

ReconcileDone ==
    /\ recon.pc = "lookup" /\ recon.todo = {}
    /\ recon' = IdleRecon
    /\ UNCHANGED <<store, orders, inflight, call, requested, bounds>>

ReconcileStep ==
    \/ ReconcileActive \/ ReconcileWrite \/ ReconcileRaises \/ ReconcileDone
    \/ \E k \in Keys : ReconcileLookup("pending", k) \/ ReconcileLookup("active", k)

-----------------------------------------------------------------------------
(* The process dies: calls and passes end, a ":memory:" store is lost. *)
Crash ==
    /\ crashes < MaxCrashes
    /\ crashes' = crashes + 1
    /\ call' = [w \in Workers |-> IdleCall]
    /\ recon' = IdleRecon
    /\ store' = IF Durable THEN store ELSE [k \in Keys |-> NoRow]
    /\ UNCHANGED <<orders, inflight, requested, calls, passes>>

Next ==
    \/ \E w \in Workers : \/ \E k \in Keys, dry, track \in BOOLEAN : Execute(w, k, dry, track)
                          \/ WorkerStep(w)
    \/ \E o \in OrderIds : BrokerProgress(o)
    \/ \E r \in inflight : Deliver(r)
    \/ WindowPasses
    \/ ReconcilePending
    \/ \E k \in Keys : ReconcileSpecific(k)
    \/ ReconcileStep
    \/ Crash

Spec == Init /\ [][Next]_vars

(* A thread that runs is scheduled and each of its calls ends, so workers  *)
(* and a pass that has begun make progress.  Nothing makes the broker move *)
(* an order, a new call begin or a pass start.                             *)
Fairness == /\ \A w \in Workers : WF_vars(WorkerStep(w))
            /\ WF_vars(ReconcileStep)
FairSpec == Spec /\ Fairness

-----------------------------------------------------------------------------
(* Properties *)

(* One execution identity never has two orders, whatever calls overlap,    *)
(* time out, are retried or die (the "10x execute -> 1 submit" of M6).     *)
AtMostOneOrder ==
    \A o1, o2 \in OrderIds :
        /\ orders[o1] # NoOrder /\ orders[o2] # NoOrder
        /\ orders[o1].key = orders[o2].key
        => o1 = o2

(* Crash recovery has something to start from: as long as a row is inside  *)
(* the pending window, a pass that starts now reconciles it, and every     *)
(* submission the broker has or may still get was written down before.     *)
OrdersAreReconcilable ==
    /\ \A o \in OrderIds : orders[o] # NoOrder => store[orders[o].key] # NoRow
    /\ \A r \in inflight : store[r.key] # NoRow
    /\ \A k \in Keys : /\ store[k] # NoRow
                       /\ store[k].fresh \/ store[k].pid # NoId
                       => k \in PendingRows \cup ActiveRows

(* A provider id in the store or in a caller's hands is the id of the      *)
(* order that was submitted for that very key.                             *)
IdsAreOurs ==
    /\ \A k \in Keys : store[k] # NoRow /\ store[k].pid # NoId =>
          /\ orders[store[k].pid] # NoOrder
          /\ orders[store[k].pid].key = k
    /\ \A w \in Workers : call[w].oid # NoId =>
          /\ orders[call[w].oid] # NoOrder
          /\ orders[call[w].oid].key = call[w].key

(* A result that reports a final status reports the broker's, and a        *)
(* DUPLICATE result names an order, however late it is looked at.          *)
ResultsAreTrue ==
    \A w \in Workers : At(w, "idle") =>
        /\ call[w].out = "DUPLICATE" => call[w].oid # NoId
        /\ call[w].out \in {"FILLED", "CANCELED"} =>
              /\ call[w].oid # NoId
              /\ Normalized(orders[call[w].oid].status) = call[w].out

(* Once a provider id is stored, the only step that takes it away is the   *)
(* upsert of a call that passed both duplicate checks before it was        *)
(* stored; a crash or a reconciliation never does (with a durable store).  *)
IdsAreKept ==
    [][\A k \in Keys :
          /\ store[k] # NoRow /\ store[k].pid # NoId
          /\ store'[k] = NoRow \/ store'[k].pid # store[k].pid
          => \E w \in Workers : At(w, "record") /\ call[w].key = k]_vars

(* The package keeps the promise of OrderLedger, for the orders there are. *)
LedgerState(os, k) ==
    LET mine == {o \in OrderIds : os[o] # NoOrder /\ os[o].key = k} IN
    IF mine = {} THEN "none"
    ELSE IF \E o \in mine : IsActive(os[o].status) THEN "open" ELSE "closed"
placed == [k \in Keys |-> LedgerState(orders, k)]
Ledger == INSTANCE OrderLedger
ImplementsLedger == Ledger!Spec

(* Every call of execute returns or raises, although the order it tracks   *)
(* may stay open for ever; a reconciliation pass ends.                     *)
CallsReturn == \A w \in Workers : ~At(w, "idle") ~> At(w, "idle")
PassesEnd == recon.pc # "idle" ~> recon.pc = "idle"

(* EXECUTION_SAFETY.md, "Ambiguous Timeout Handling": an order that the    *)
(* duplicate check finds at the provider is adopted, so the row that       *)
(* adopt_existing_order inserts does not conflict with one there is.       *)
FoundIsAdopted ==
    \A w \in Workers : At(w, "adopt") => ~UpsertRaises(call[w].key, "adopted")
=============================================================================
