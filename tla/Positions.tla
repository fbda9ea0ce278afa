----------------------------- MODULE Positions -----------------------------
(***************************************************************************)
(* M7, the positions package (src/backend/app/positions): the monitor's    *)
(* pass over the local positions, their reconciliation with what the       *)
(* broker holds per symbol, exit plans, and exits run through M6's         *)
(* authoriser, execution store and gateway.                                *)
(*                                                                         *)
(* One step is one call of a store or of the broker.  The positions come   *)
(* from outside: scripts and tests upsert them, no service does.  They are *)
(* stock positions; a caller that dies is one that never moves again.      *)
(*                                                                         *)
(* Operators named Faulty... are not part of the specification: each is an *)
(* operator of it with a plausible bug, for testing the properties.        *)
(***************************************************************************)
EXTENDS Integers

CONSTANTS
    PositionIds,
    Symbols,
    SymbolOf,     \* the symbol of each position
    SideOf,       \* its side: "LONG" or "SHORT"
    Prefix,       \* the three characters of each position's id that reach its keys
    Workers,      \* callers of ExitPlanner and ExitManagementService
    OrderIds,     \* ids the broker may give to exit orders
    NoRow,        \* the table has no such row
    NoOrder,      \* an id the broker has not given yet
    NoId,         \* SQL NULL in provider_order_id
    NoPlan,       \* a caller that has built no exit plan
    MaxQty,       \* bound: the quantity of a position
    MaxHeld,      \* bound: what the broker holds of a symbol
    MaxPlans      \* bound: exit plans built in a behaviour

Sides == {"LONG", "SHORT"}

ASSUME MapAssumption ==
    /\ SymbolOf \in [PositionIds -> Symbols]
    /\ SideOf \in [PositionIds -> Sides]

ASSUME BoundAssumption ==
    /\ MaxQty \in Nat \ {0} /\ MaxHeld \in Nat /\ MaxPlans \in Nat

(* A row of the positions table.  No code writes another status, or        *)
(* changes the quantity, once a row is there.                              *)
Position == [qty : 1..MaxQty,
             status : {"OPEN", "RECONCILIATION_REQUIRED"}]

(* The idempotency key of an exit: "exit-" and three characters are the    *)
(* eight that IdempotencyKey keeps of instrument_plan_id.                  *)
ExitKey == [prefix : {Prefix[p] : p \in PositionIds}, symbol : Symbols,
            side : Sides, qty : 0..MaxQty]

(* An exit plan: priced says that its limit price is not zero, for then    *)
(* neither is its expected notional (the quoted bid or ask may be zero).   *)
Plan == [id : 1..MaxPlans, pos : PositionIds, qty : 0..MaxQty, priced : BOOLEAN]

(* An exit's row of the executions table: its primary key is "exit-" and   *)
(* the plan's id, or, as 0, the one adopt_existing_order makes.            *)
ExitRow == [plan : 0..MaxPlans, oid : OrderIds \cup {NoId}]

Order == [key : ExitKey, pos : PositionIds, qty : 1..MaxQty,
          filled : 0..MaxQty, open : BOOLEAN]

ASSUME SentinelAssumption ==
    /\ NoRow \notin Position /\ NoRow \notin ExitRow
    /\ NoOrder \notin Order
    /\ NoId \notin OrderIds
    /\ NoPlan \notin Plan

VARIABLES
    store,       \* the positions table
    held,        \* what the broker holds of each symbol, negative when short
    rows,        \* the executions table's rows of exits, by idempotency key
    orders,      \* the broker's exit orders
    monitor,     \* the state of a pass of monitor_once
    decisions,   \* the quantity of the EXIT decision callers have, 0: none
    call,        \* the state of each caller of execute_exit
    touched,     \* history: symbols traded by someone else
    requested,   \* history: keys a real exit was authorised for
    plans        \* counter for the bound

history == <<touched, requested>>
vars == <<store, held, rows, orders, monitor, decisions, call, history, plans>>

Stage == {"idle", "planned", "local", "provider", "adopt", "record", "submit",
          "confirm", "fail"}

Call == [pc : Stage, plan : Plan \cup {NoPlan}, dry : BOOLEAN,
         oid : OrderIds \cup {NoId}]      \* the order a call works on

Monitor == [pc : {"idle", "list", "reconcile", "apply"},
            todo : SUBSET PositionIds,       \* still to be reconciled or flagged
            bad : SUBSET PositionIds]        \* found different from the broker's

TypeOK ==
    /\ store \in [PositionIds -> Position \cup {NoRow}]
    /\ held \in [Symbols -> (-MaxHeld)..MaxHeld]
    /\ rows \in [ExitKey -> ExitRow \cup {NoRow}]
    /\ orders \in [OrderIds -> Order \cup {NoOrder}]
    /\ monitor \in Monitor
    /\ decisions \in [PositionIds -> 0..MaxQty]
    /\ call \in [Workers -> Call]
    /\ touched \subseteq Symbols
    /\ requested \subseteq ExitKey
    /\ plans \in 0..MaxPlans

IdleCall == [pc |-> "idle", plan |-> NoPlan, dry |-> TRUE, oid |-> NoId]

IdleMonitor == [pc |-> "idle", todo |-> {}, bad |-> {}]

Init ==
    /\ store = [p \in PositionIds |-> NoRow]
    /\ held \in [Symbols -> (-MaxHeld)..MaxHeld]
    /\ rows = [k \in ExitKey |-> NoRow]
    /\ orders = [o \in OrderIds |-> NoOrder]
    /\ monitor = IdleMonitor
    /\ decisions = [p \in PositionIds |-> 0]
    /\ call = [w \in Workers |-> IdleCall]
    /\ touched = {} /\ requested = {}
    /\ plans = 0

Size(n) == IF n < 0 THEN -n ELSE n

-----------------------------------------------------------------------------
(* The outside: who opens positions, the broker, other traders. *)

(* PositionStore.upsert of a new position. *)
OpenPosition(p, qty) ==
    /\ store[p] = NoRow
    /\ store' = [store EXCEPT ![p] = [qty |-> qty, status |-> "OPEN"]]
    /\ UNCHANGED <<held, rows, orders, monitor, decisions, call, history, plans>>

(* Somebody else trades the symbol, or it is closed by hand (bound: once). *)
Touch(s, n) ==
    /\ s \notin touched /\ n # held[s]
    /\ held' = [held EXCEPT ![s] = n]
    /\ touched' = touched \cup {s}
    /\ UNCHANGED <<store, rows, orders, monitor, decisions, call, requested, plans>>

(* One unit of an exit order fills: a long position is sold, a short one   *)
(* bought back.                                                            *)
Filled(o) ==
    LET s == orders[o].key.symbol IN
    held' = [held EXCEPT ![s] = IF orders[o].key.side = "LONG" THEN @ - 1 ELSE @ + 1]

Fill(o) ==
    /\ orders[o] # NoOrder /\ orders[o].open
    /\ LET f == orders[o].filled + 1 IN
       orders' = [orders EXCEPT ![o] = [@ EXCEPT !.filled = f, !.open = f < orders[o].qty]]
    /\ Filled(o)
    /\ held'[orders[o].key.symbol] \in (-MaxHeld)..MaxHeld
    /\ UNCHANGED <<store, rows, monitor, decisions, call, history, plans>>

(* The order is cancelled or expires with what it filled so far. *)
EndOrder(o) ==
    /\ orders[o] # NoOrder /\ orders[o].open
    /\ orders' = [orders EXCEPT ![o] = [@ EXCEPT !.open = FALSE]]
    /\ UNCHANGED <<store, held, rows, monitor, decisions, call, history, plans>>

-----------------------------------------------------------------------------
(* PositionReconciler and PositionMonitorService.monitor_once *)

(* get_open_positions.  PARTIALLY_EXITED and EXIT_PENDING never occur. *)
OpenPositions == {p \in PositionIds : store[p] # NoRow /\ store[p].status = "OPEN"}

(* _reconcile_position: the position against all that is held of its       *)
(* symbol (h, zero when the broker lists none).  Faulty: <= for #.         *)
FaultyMismatch(p, h) == h = 0 \/ Size(h) <= store[p].qty

Mismatch(p, h) ==
    \/ h = 0
    \/ SideOf[p] # IF h > 0 THEN "LONG" ELSE "SHORT"
    \/ store[p].qty # Size(h)

(* The rows evaluated: loaded again after the flags were set.  Faulty:     *)
(* every row.                                                              *)
FaultyReloaded == {p \in PositionIds : store[p] # NoRow}

Reloaded == OpenPositions

MonitorBegin ==
    /\ monitor.pc = "idle" /\ OpenPositions # {}
    /\ monitor' = [IdleMonitor EXCEPT !.pc = "list"]
    /\ UNCHANGED <<store, held, rows, orders, decisions, call, history, plans>>

(* reconcile_all reads the open positions for itself. *)
MonitorList ==
    /\ monitor.pc = "list"
    /\ monitor' = [monitor EXCEPT !.pc = "reconcile", !.todo = OpenPositions]
    /\ UNCHANGED <<store, held, rows, orders, decisions, call, history, plans>>

(* One record: the provider's positions are fetched anew for each. *)
MonitorReconcile(p) ==
    /\ monitor.pc = "reconcile" /\ p \in monitor.todo
    /\ LET found == IF Mismatch(p, held[SymbolOf[p]]) THEN {p} ELSE {}
           left == monitor.todo \ {p}
           bad == monitor.bad \cup found IN
       monitor' = [monitor EXCEPT !.bad = bad,
                                  !.todo = IF left = {} THEN bad ELSE left,
                                  !.pc = IF left = {} THEN "apply" ELSE "reconcile"]
    /\ UNCHANGED <<store, held, rows, orders, decisions, call, history, plans>>

(* _apply_reconciliation, one result: the status, never the quantity. *)
MonitorApply(p) ==
    /\ monitor.pc = "apply" /\ p \in monitor.todo
    /\ store' = [store EXCEPT ![p] = [@ EXCEPT !.status = "RECONCILIATION_REQUIRED"]]
    /\ monitor' = [monitor EXCEPT !.todo = @ \ {p}]
    /\ UNCHANGED <<held, rows, orders, decisions, call, history, plans>>

(* ExitRulesEngine.evaluate: EXIT or HOLD (it never decides REDUCE).  The  *)
(* rules on the kill switch, prices and time fire or not: signal.          *)
MustExit(p, signal) == store[p].status = "RECONCILIATION_REQUIRED" \/ signal

(* Positions are loaded again and evaluated; the decisions are returned.   *)
MonitorEvaluate(signals) ==
    /\ monitor.pc = "apply" /\ monitor.todo = {}
    /\ decisions' = [p \in PositionIds |->
                       IF p \in Reloaded /\ MustExit(p, p \in signals)
                       THEN store[p].qty
                       ELSE decisions[p]]
    /\ monitor' = IdleMonitor
    /\ UNCHANGED <<store, held, rows, orders, call, history, plans>>

(* No call of the store or the broker is guarded: an error ends the pass,  *)
(* whatever it has flagged so far.                                         *)
MonitorRaises ==
    /\ monitor.pc # "idle"
    /\ monitor' = IdleMonitor
    /\ UNCHANGED <<store, held, rows, orders, decisions, call, history, plans>>

-----------------------------------------------------------------------------
(* ExitPlanner.build_exit_plan *)

(* The quantity of a plan: what the decision says, clamped to what the     *)
(* broker holds, on either side.  Faulty: not clamped, or the broker's     *)
(* quantity instead of the smaller one, or a short holding taken for less  *)
(* than nothing.                                                           *)
FaultyUnclamped(target, h) == target
FaultyUnbounded(target, h) == Size(h)
FaultySigned(target, h) == IF h < target THEN h ELSE target

ExitQuantity(target, h) == IF Size(h) < target THEN Size(h) ELSE target

(* A caller turns the EXIT decision it has for p into a plan. *)
BuildExitPlan(w, p, priced) ==
    /\ call[w].pc \in {"idle", "planned"}
    /\ decisions[p] > 0 /\ plans < MaxPlans
    /\ plans' = plans + 1
    /\ LET plan == [id |-> plans + 1, pos |-> p,
                    qty |-> ExitQuantity(decisions[p], held[SymbolOf[p]]),
                    priced |-> priced] IN
       call' = [call EXCEPT ![w] = [IdleCall EXCEPT !.pc = "planned", !.plan = plan]]
    /\ UNCHANGED <<store, held, rows, orders, monitor, decisions, history>>

-----------------------------------------------------------------------------
(* ExitManagementService.execute_exit *)

KeyOf(plan) == [prefix |-> Prefix[plan.pos], symbol |-> SymbolOf[plan.pos],
                side |-> SideOf[plan.pos], qty |-> plan.qty]

Goto(w, stage) == call' = [call EXCEPT ![w].pc = stage]

(* The call goes on with the order o. *)
Hold(w, stage, o) == call' = [call EXCEPT ![w] = [@ EXCEPT !.pc = stage, !.oid = o]]

(* The call ends, with a result or an exception; nothing in src reads the  *)
(* result.  Its caller still has the plan and may try again.               *)
Return(w) ==
    call' = [call EXCEPT ![w] = [@ EXCEPT !.pc = "planned", !.dry = TRUE, !.oid = NoId]]

(* A service created without a store has a new one in memory: no exit is   *)
(* remembered but by the broker.                                           *)
NewService ==
    /\ \A w \in Workers : call[w].pc \in {"idle", "planned"}
    /\ rows' = [k \in ExitKey |-> NoRow]
    /\ UNCHANGED <<store, held, orders, monitor, decisions, call, history, plans>>

(* M6's authoriser on a plan whose risk budget is zero.  The settings      *)
(* enable paper execution; a denied call changes nothing.                  *)
Authorized(plan, kill) == plan.qty > 0 /\ ~plan.priced /\ ~kill

ExecuteExit(w, dry, kill) ==
    /\ call[w].pc = "planned" /\ Authorized(call[w].plan, kill)
    /\ call' = [call EXCEPT ![w] = [@ EXCEPT !.pc = "local", !.dry = dry]]
    /\ requested' = IF dry THEN requested ELSE requested \cup {KeyOf(call[w].plan)}
    /\ UNCHANGED <<store, held, rows, orders, monitor, decisions, touched, plans>>

CheckLocal(w) ==
    LET row == rows[KeyOf(call[w].plan)] IN
    /\ call[w].pc = "local"
    /\ \/ Return(w)                        \* an error, or a duplicate
       \/ /\ row # NoRow => row.oid = NoId
          /\ Goto(w, "provider")
    /\ UNCHANGED <<store, held, rows, orders, monitor, decisions, history, plans>>

OrdersWith(k) == {o \in OrderIds : orders[o] # NoOrder /\ orders[o].key = k}

(* Faulty: the dry run is not looked at. *)
FaultyStopsAtDryRun(w) == FALSE

StopsAtDryRun(w) == call[w].dry

CheckProvider(w) ==
    LET found == OrdersWith(KeyOf(call[w].plan)) IN
    /\ call[w].pc = "provider"
    /\ \/ Return(w)
       \/ \E o \in found : Hold(w, "adopt", o)
       \/ /\ found = {} /\ StopsAtDryRun(w)
          /\ Return(w)
       \/ /\ found = {} /\ ~StopsAtDryRun(w)
          /\ Goto(w, "record")
    /\ UNCHANGED <<store, held, rows, orders, monitor, decisions, history, plans>>

(* ExecutionStore.upsert, which raises when another primary key has the    *)
(* idempotency key: every plan brings a primary key of its own.            *)
UpsertRaises(k, plan) == rows[k] # NoRow /\ rows[k].plan # plan

Upsert(k, plan, oid) == rows' = [rows EXCEPT ![k] = [plan |-> plan, oid |-> oid]]

Adopt(w) ==
    LET k == KeyOf(call[w].plan) IN
    /\ call[w].pc = "adopt"
    /\ \/ Return(w) /\ UNCHANGED rows
       \/ /\ ~UpsertRaises(k, 0)
          /\ Upsert(k, 0, call[w].oid)
          /\ Return(w)
    /\ UNCHANGED <<store, held, orders, monitor, decisions, history, plans>>

Record(w) ==
    LET plan == call[w].plan IN
    /\ call[w].pc = "record"
    /\ \/ Return(w) /\ UNCHANGED rows
       \/ /\ ~UpsertRaises(KeyOf(plan), plan.id)
          /\ Upsert(KeyOf(plan), plan.id, NoId)
          /\ Goto(w, "submit")
    /\ UNCHANGED <<store, held, orders, monitor, decisions, history, plans>>

(* The broker takes one order per client order id; it may reject it.       *)
Accept(plan, o) ==
    /\ OrdersWith(KeyOf(plan)) = {}
    /\ orders[o] = NoOrder
    /\ \E open \in BOOLEAN :
          orders' = [orders EXCEPT ![o] = [key |-> KeyOf(plan), pos |-> plan.pos,
                                           qty |-> plan.qty, filled |-> 0, open |-> open]]

(* submit_limit_order answers, or raises although the order may be there.  *)
Submit(w) ==
    LET plan == call[w].plan IN
    /\ call[w].pc = "submit"
    /\ \/ \E o \in OrderIds : Accept(plan, o) /\ Hold(w, "confirm", o)
       \/ /\ Goto(w, "fail")
          /\ UNCHANGED orders \/ \E o \in OrderIds : Accept(plan, o)
    /\ UNCHANGED <<store, held, rows, monitor, decisions, history, plans>>

(* update_provider_info, by primary key.  When the call tracks its order   *)
(* and that is active, it is polled and then the result, which is frozen,  *)
(* is assigned to: that raises, and the except clause reports a failure.   *)
Confirm(w) ==
    LET c == call[w]
        k == KeyOf(c.plan) IN
    /\ c.pc = "confirm"
    /\ \/ Goto(w, "fail") /\ UNCHANGED rows
       \/ /\ rows' = IF rows[k] # NoRow /\ rows[k].plan = c.plan.id
                     THEN [rows EXCEPT ![k] = [plan |-> c.plan.id, oid |-> c.oid]]
                     ELSE rows
          /\ Return(w) \/ (orders[c.oid].open /\ Goto(w, "fail"))
    /\ UNCHANGED <<store, held, orders, monitor, decisions, history, plans>>

(* The except clause: update_status of the row, which nothing reads.       *)
Fail(w) ==
    /\ call[w].pc = "fail"
    /\ Return(w)
    /\ UNCHANGED <<store, held, rows, orders, monitor, decisions, history, plans>>

ExitStep(w) ==
    \/ CheckLocal(w) \/ CheckProvider(w) \/ Adopt(w) \/ Record(w)
    \/ Submit(w) \/ Confirm(w) \/ Fail(w)

MonitorStep ==
    \/ MonitorBegin
    \/ MonitorList
    \/ \E p \in PositionIds : MonitorReconcile(p) \/ MonitorApply(p)
    \/ \E signals \in SUBSET PositionIds : MonitorEvaluate(signals)
    \/ MonitorRaises

Next ==
    \/ \E p \in PositionIds, qty \in 1..MaxQty : OpenPosition(p, qty)
    \/ \E s \in Symbols, n \in (-MaxHeld)..MaxHeld : Touch(s, n)
    \/ \E o \in OrderIds : Fill(o) \/ EndOrder(o)
    \/ MonitorStep
    \/ NewService
    \/ \E w \in Workers :
          \/ \E p \in PositionIds, priced \in BOOLEAN : BuildExitPlan(w, p, priced)
          \/ \E dry, kill \in BOOLEAN : ExecuteExit(w, dry, kill)
          \/ ExitStep(w)

Spec == Init /\ [][Next]_vars

-----------------------------------------------------------------------------
(* Properties *)

ExitsOf(s) == {o \in OrderIds : orders[o] # NoOrder /\ orders[o].key.symbol = s}

(* An exit order closes its own position and no more of it than there is:  *)
(* what else is held of the symbol belongs to other positions.             *)
ExitsFitThePosition ==
    \A o \in OrderIds : orders[o] # NoOrder =>
        LET p == orders[o].pos IN
        /\ store[p] # NoRow
        /\ orders[o].key.side = SideOf[p] /\ orders[o].key.symbol = SymbolOf[p]
        /\ orders[o].qty <= store[p].qty
        /\ orders[o].filled <= orders[o].qty

(* build_exit_plan clamps "to prevent reverse position": as long as nobody *)
(* else trades the symbol, its only exit order never takes the holding     *)
(* through zero, however late it fills.                                    *)
OneExitNeverReverses ==
    [][\A s \in Symbols :
          /\ s \notin touched'
          /\ \A o1, o2 \in ExitsOf(s) : o1 = o2
          => /\ held[s] >= 0 => held'[s] >= 0
             /\ held[s] <= 0 => held'[s] <= 0]_vars

(* A position is flagged for a reason: unless somebody else traded the     *)
(* symbol, or an exit, the broker does not hold just this position of it.  *)
Signed(p) == IF SideOf[p] = "LONG" THEN store[p].qty ELSE -store[p].qty

FlagsHaveCause ==
    \A p \in PositionIds :
        /\ store[p] # NoRow /\ store[p].status = "RECONCILIATION_REQUIRED"
        /\ SymbolOf[p] \notin touched
        /\ ExitsOf(SymbolOf[p]) = {}
        => held[SymbolOf[p]] # Signed(p)

(* A pass decides nothing about a position it found to differ: its         *)
(* quantity is not to be trusted.                                          *)
MismatchedIsNotDecided ==
    [][\A p \in monitor.bad : decisions'[p] \in {decisions[p], 0}]_vars

(* Exits keep the promise of OrderLedger: one order at most per exit       *)
(* identity, and only for an authorised call that was no dry run.          *)
LedgerState(os, k) ==
    LET mine == {o \in OrderIds : os[o] # NoOrder /\ os[o].key = k} IN
    IF mine = {} THEN "none"
    ELSE IF \E o \in mine : os[o].open THEN "open" ELSE "closed"
placed == [k \in ExitKey |-> LedgerState(orders, k)]
Ledger == INSTANCE OrderLedger WITH Keys <- ExitKey
ImplementsLedger == Ledger!Spec

(* scripts/check_positions.py, scenario E: the exit of a position that     *)
(* breached its stop is authorised.  Nothing but the kill switch stands    *)
(* against a plan that closes something.                                   *)
ExitsAreAuthorized ==
    \A w \in Workers :
        call[w].pc = "planned" /\ call[w].plan.qty > 0 => Authorized(call[w].plan, FALSE)
=============================================================================
