-------------------------- MODULE PositionsProofs --------------------------
(***************************************************************************)
(* Proofs about Positions, for any positions, symbols, callers, order ids  *)
(* and bounds.                                                             *)
(***************************************************************************)
EXTENDS Positions, TLAPS

-----------------------------------------------------------------------------
(* What an action does to the part of the state it works on. *)

LEMMA GotoEffect ==
    ASSUME call \in [Workers -> Call], NEW w \in Workers, NEW stage \in Stage, Goto(w, stage)
    PROVE  /\ call' \in [Workers -> Call]
           /\ \A v \in Workers \ {w} : call'[v] = call[v]
           /\ call'[w].pc = stage /\ call'[w].plan = call[w].plan
           /\ call'[w].dry = call[w].dry /\ call'[w].oid = call[w].oid
BY DEF Goto, Call

LEMMA ReturnEffect ==
    ASSUME call \in [Workers -> Call], NEW w \in Workers, Return(w)
    PROVE  /\ call' \in [Workers -> Call]
           /\ \A v \in Workers \ {w} : call'[v] = call[v]
           /\ call'[w].pc = "planned" /\ call'[w].plan = call[w].plan
           /\ call'[w].dry
BY DEF Return, Call, Stage

LEMMA HoldEffect ==
    ASSUME call \in [Workers -> Call], NEW w \in Workers, NEW stage \in Stage,
           NEW o \in OrderIds, Hold(w, stage, o)
    PROVE  /\ call' \in [Workers -> Call]
           /\ \A v \in Workers \ {w} : call'[v] = call[v]
           /\ call'[w].pc = stage /\ call'[w].plan = call[w].plan
           /\ call'[w].dry = call[w].dry /\ call'[w].oid = o
BY DEF Hold, Call

LEMMA KeyTyped == \A plan \in Plan : KeyOf(plan) \in ExitKey
BY MapAssumption DEF Plan, KeyOf, ExitKey

(* A position's row stays, and so does its quantity. *)
StoreKept ==
    /\ store' \in [PositionIds -> Position \cup {NoRow}]
    /\ \A p \in PositionIds : store[p] # NoRow =>
          store'[p] # NoRow /\ store'[p].qty = store[p].qty

LEMMA OpenEffect ==
    ASSUME TypeOK, NEW p \in PositionIds, NEW qty \in 1..MaxQty, OpenPosition(p, qty)
    PROVE  /\ StoreKept
           /\ store[p] = NoRow /\ store'[p].status = "OPEN"
           /\ \A q \in PositionIds \ {p} : store'[q] = store[q]
<1>1. [qty |-> qty, status |-> "OPEN"] \in Position
  BY DEF Position
<1> QED
  BY <1>1 DEF OpenPosition, StoreKept, TypeOK

LEMMA FlagEffect ==
    ASSUME TypeOK, NEW p \in PositionIds, store[p] # NoRow, MonitorApply(p)
    PROVE  /\ StoreKept
           /\ store'[p].status = "RECONCILIATION_REQUIRED"
           /\ \A q \in PositionIds \ {p} : store'[q] = store[q]
<1> DEFINE row == [store[p] EXCEPT !.status = "RECONCILIATION_REQUIRED"]
<1>1. store[p] \in Position
  BY DEF TypeOK
<1>2. row \in Position /\ row.qty = store[p].qty /\ row.status = "RECONCILIATION_REQUIRED"
  BY <1>1 DEF Position
<1>3. row # NoRow
  BY <1>2, SentinelAssumption
<1>4. store' = [store EXCEPT ![p] = row]
  BY DEF MonitorApply
<1> HIDE DEF row
<1> QED
  BY <1>2, <1>3, <1>4 DEF StoreKept, TypeOK

LEMMA StoreStays == ASSUME TypeOK, UNCHANGED store PROVE StoreKept
BY DEF TypeOK, StoreKept

(* An exit order stays what it is; only its fills and its end are new. *)
OrdersKept ==
    /\ orders' \in [OrderIds -> Order \cup {NoOrder}]
    /\ \A o \in OrderIds : orders[o] # NoOrder =>
          /\ orders'[o] # NoOrder
          /\ orders'[o].key = orders[o].key /\ orders'[o].pos = orders[o].pos
          /\ orders'[o].qty = orders[o].qty

LEMMA AcceptEffect ==
    ASSUME TypeOK, NEW plan \in Plan, plan.qty > 0, NEW o \in OrderIds, Accept(plan, o)
    PROVE  /\ OrdersKept
           /\ orders[o] = NoOrder /\ orders'[o] # NoOrder
           /\ orders'[o].key = KeyOf(plan) /\ orders'[o].pos = plan.pos
           /\ orders'[o].qty = plan.qty /\ orders'[o].filled = 0
           /\ \A r \in OrderIds \ {o} : orders'[r] = orders[r]
           /\ \A r \in OrderIds : orders[r] # NoOrder => orders[r].key # KeyOf(plan)
<1> DEFINE new(open) == [key |-> KeyOf(plan), pos |-> plan.pos, qty |-> plan.qty,
                         filled |-> 0, open |-> open]
<1>1. PICK open \in BOOLEAN : orders' = [orders EXCEPT ![o] = new(open)]
  BY DEF Accept
<1>2. new(open) \in Order
  BY KeyTyped, BoundAssumption DEF Order, Plan
<1>3. /\ new(open).key = KeyOf(plan) /\ new(open).pos = plan.pos
      /\ new(open).qty = plan.qty /\ new(open).filled = 0
  OBVIOUS
<1>4. new(open) # NoOrder
  BY <1>2, SentinelAssumption
<1>5. orders[o] = NoOrder /\ OrdersWith(KeyOf(plan)) = {}
  BY DEF Accept
<1> HIDE DEF new
<1> QED
  BY <1>1, <1>2, <1>3, <1>4, <1>5 DEF OrdersKept, OrdersWith, TypeOK

LEMMA FillEffect ==
    ASSUME TypeOK, NEW o \in OrderIds, Fill(o), orders[o].filled < orders[o].qty
    PROVE  /\ OrdersKept
           /\ orders[o] # NoOrder /\ orders[o].open
           /\ orders'[o].filled = orders[o].filled + 1
           /\ orders'[o].open <=> orders'[o].filled < orders'[o].qty
           /\ \A r \in OrderIds \ {o} : orders'[r] = orders[r]
<1> DEFINE f == orders[o].filled + 1
           new == [orders[o] EXCEPT !.filled = f, !.open = f < orders[o].qty]
<1>1. orders[o] \in Order /\ orders[o] # NoOrder /\ orders[o].open
  BY DEF Fill, TypeOK
<1>2. f \in 0..MaxQty
  BY <1>1, BoundAssumption DEF Order
<1>3. (f < orders[o].qty) \in BOOLEAN
  OBVIOUS
<1>4. /\ new \in Order /\ new.key = orders[o].key /\ new.pos = orders[o].pos
      /\ new.qty = orders[o].qty /\ new.filled = f /\ new.open = (f < orders[o].qty)
  BY <1>1, <1>2, <1>3 DEF Order
<1>5. new # NoOrder
  BY <1>4, SentinelAssumption
<1>6. orders' = [orders EXCEPT ![o] = new]
  BY DEF Fill
<1> HIDE DEF new
<1> QED
  BY <1>1, <1>4, <1>5, <1>6 DEF OrdersKept, TypeOK

LEMMA EndEffect ==
    ASSUME TypeOK, NEW o \in OrderIds, EndOrder(o)
    PROVE  /\ OrdersKept
           /\ orders[o] # NoOrder /\ orders[o].open
           /\ orders'[o].filled = orders[o].filled /\ ~orders'[o].open
           /\ \A r \in OrderIds \ {o} : orders'[r] = orders[r]
<1> DEFINE new == [orders[o] EXCEPT !.open = FALSE]
<1>1. orders[o] \in Order /\ orders[o] # NoOrder /\ orders[o].open
  BY DEF EndOrder, TypeOK
<1>2. /\ new \in Order /\ new.key = orders[o].key /\ new.pos = orders[o].pos
      /\ new.qty = orders[o].qty /\ new.filled = orders[o].filled /\ ~new.open
  BY <1>1 DEF Order
<1>3. new # NoOrder
  BY <1>2, SentinelAssumption
<1>4. orders' = [orders EXCEPT ![o] = new]
  BY DEF EndOrder
<1> HIDE DEF new
<1> QED
  BY <1>1, <1>2, <1>3, <1>4 DEF OrdersKept, TypeOK

LEMMA OrdersStay == ASSUME TypeOK, UNCHANGED orders PROVE OrdersKept
BY DEF TypeOK, OrdersKept

-----------------------------------------------------------------------------
(* The inductive invariant behind the types.  TypeOK is not inductive by   *)
(* itself: an order has the quantity of its plan, a plan that of a         *)
(* decision, a decision that of a row, and all of them stay within it.     *)

InCall == Stage \ {"idle", "planned"}

CallInv(w) ==
    /\ call[w].pc # "idle" =>
          /\ call[w].plan \in Plan
          /\ store[call[w].plan.pos] # NoRow
          /\ call[w].plan.qty <= store[call[w].plan.pos].qty
    /\ call[w].pc \in InCall => call[w].plan.qty > 0
    /\ call[w].pc \in InCall /\ ~call[w].dry => KeyOf(call[w].plan) \in requested
    /\ call[w].pc \in {"record", "submit"} => ~call[w].dry
    /\ call[w].pc \in {"adopt", "confirm"} => call[w].oid \in OrderIds
CallsInv == \A w \in Workers : CallInv(w)

OrderInv(o) ==
    orders[o] # NoOrder =>
        /\ store[orders[o].pos] # NoRow
        /\ orders[o].key.side = SideOf[orders[o].pos]
        /\ orders[o].key.symbol = SymbolOf[orders[o].pos]
        /\ orders[o].qty <= store[orders[o].pos].qty
        /\ orders[o].filled <= orders[o].qty
        /\ orders[o].open => orders[o].filled < orders[o].qty
OrdersInv == \A o \in OrderIds : OrderInv(o)

OneOrder ==
    \A o1, o2 \in OrderIds :
        orders[o1] # NoOrder /\ orders[o2] # NoOrder /\ orders[o1].key = orders[o2].key
        => o1 = o2

MonitorInv ==
    /\ \A p \in monitor.todo \cup monitor.bad : store[p] # NoRow
    /\ monitor.pc = "list" => monitor.bad = {}
    /\ monitor.pc = "apply" =>
          /\ monitor.todo \subseteq monitor.bad
          /\ \A p \in monitor.bad \ monitor.todo :
                store[p].status = "RECONCILIATION_REQUIRED"

DecisionsInv ==
    \A p \in PositionIds :
        decisions[p] > 0 => store[p] # NoRow /\ decisions[p] <= store[p].qty

TypeInv == TypeOK /\ CallsInv /\ OrdersInv /\ OneOrder /\ MonitorInv /\ DecisionsInv

LEMMA TypeInit == Init => TypeInv
<1> SUFFICES ASSUME Init PROVE TypeInv
  OBVIOUS
<1>1. 0 \in 0..MaxQty /\ 0 \in 0..MaxPlans
  BY BoundAssumption
<1>2. IdleCall \in Call /\ IdleMonitor \in Monitor
  BY DEF IdleCall, Call, Stage, IdleMonitor, Monitor
<1>3. TypeOK
  BY <1>1, <1>2 DEF Init, TypeOK
<1>4. CallsInv
  BY DEF Init, CallsInv, CallInv, IdleCall, InCall
<1>5. OrdersInv /\ OneOrder
  BY DEF Init, OrdersInv, OrderInv, OneOrder
<1>6. MonitorInv /\ DecisionsInv
  BY DEF Init, MonitorInv, IdleMonitor, DecisionsInv
<1> QED
  BY <1>3, <1>4, <1>5, <1>6 DEF TypeInv

(* What a step leaves alone keeps its part of the invariant. *)

LEMMA CallsKept ==
    ASSUME TypeOK, CallsInv, StoreKept, requested \subseteq requested', UNCHANGED call
    PROVE  CallsInv'
BY DEF TypeOK, CallsInv, CallInv, StoreKept, Plan, Call

LEMMA CallsMove ==
    ASSUME TypeOK, CallsInv, StoreKept, requested \subseteq requested', NEW w \in Workers,
           \A v \in Workers \ {w} : call'[v] = call[v], CallInv(w)'
    PROVE  CallsInv'
<1>1. ASSUME NEW v \in Workers \ {w} PROVE CallInv(v)'
  BY <1>1 DEF TypeOK, CallsInv, CallInv, StoreKept, Plan, Call
<1> QED
  BY <1>1 DEF CallsInv

LEMMA OrdersInvKept ==
    ASSUME TypeOK, OrdersInv, OneOrder, StoreKept, UNCHANGED orders
    PROVE  OrdersInv' /\ OneOrder'
BY DEF TypeOK, OrdersInv, OrderInv, OneOrder, StoreKept, Order

LEMMA MonitorKept ==
    ASSUME TypeOK, MonitorInv, UNCHANGED <<store, monitor>>
    PROVE  MonitorInv'
BY DEF MonitorInv

LEMMA DecisionsKept ==
    ASSUME TypeOK, DecisionsInv, StoreKept, UNCHANGED decisions
    PROVE  DecisionsInv'
BY DEF TypeOK, DecisionsInv, StoreKept

(* A step of a call that changes no position, order or pass. *)
LEMMA CallStep ==
    ASSUME TypeInv, NEW w \in Workers, call' \in [Workers -> Call],
           \A v \in Workers \ {w} : call'[v] = call[v], CallInv(w)',
           rows' \in [ExitKey -> ExitRow \cup {NoRow}],
           requested \subseteq requested', requested' \subseteq ExitKey,
           UNCHANGED <<store, held, orders, monitor, decisions, touched, plans>>
    PROVE  TypeInv'
<1>1. TypeOK /\ TypeOK'
  BY DEF TypeInv, TypeOK
<1>2. CallsInv'
  BY <1>1, StoreStays, CallsMove DEF TypeInv
<1>3. OrdersInv' /\ OneOrder'
  BY <1>1, StoreStays, OrdersInvKept DEF TypeInv
<1>4. MonitorInv' /\ DecisionsInv'
  BY <1>1, StoreStays, MonitorKept, DecisionsKept DEF TypeInv
<1> QED
  BY <1>1, <1>2, <1>3, <1>4 DEF TypeInv

LEMMA UpsertTyped ==
    ASSUME rows \in [ExitKey -> ExitRow \cup {NoRow}], NEW k \in ExitKey,
           NEW plan \in 0..MaxPlans, NEW oid \in OrderIds \cup {NoId},
           rows' = [rows EXCEPT ![k] = [plan |-> plan, oid |-> oid]]
    PROVE  rows' \in [ExitKey -> ExitRow \cup {NoRow}]
BY DEF ExitRow

LEMMA TypeStep ==
    ASSUME TypeInv, [Next]_vars
    PROVE  TypeInv'
<1>a. TypeOK /\ CallsInv /\ OrdersInv /\ OneOrder /\ MonitorInv /\ DecisionsInv
  BY DEF TypeInv
<1>b. call \in [Workers -> Call] /\ rows \in [ExitKey -> ExitRow \cup {NoRow}]
      /\ requested \subseteq ExitKey
  BY <1>a DEF TypeOK
<1>1. CASE UNCHANGED vars
  <2>1. TypeOK'
    BY <1>a, <1>1 DEF vars, history, TypeOK
  <2>2. UNCHANGED <<store, requested, call, orders, monitor, decisions>>
    BY <1>1 DEF vars, history
  <2> QED
    BY <1>a, <2>1, <2>2, StoreStays, CallsKept, OrdersInvKept, MonitorKept, DecisionsKept
       DEF TypeInv
<1>2. ASSUME NEW p \in PositionIds, NEW qty \in 1..MaxQty, OpenPosition(p, qty)
      PROVE  TypeInv'
  <2>1. /\ StoreKept /\ store[p] = NoRow
        /\ \A q \in PositionIds \ {p} : store'[q] = store[q]
    BY <1>a, <1>2, OpenEffect
  <2>2. UNCHANGED <<held, rows, orders, monitor, decisions, call, touched, requested, plans>>
    BY <1>2 DEF OpenPosition, history
  <2>3. TypeOK'
    BY <1>a, <2>1, <2>2 DEF TypeOK, StoreKept
  <2>4. CallsInv' /\ OrdersInv' /\ OneOrder' /\ DecisionsInv'
    BY <1>a, <2>1, <2>2, CallsKept, OrdersInvKept, DecisionsKept
  <2>5. MonitorInv'
    <3>1. monitor.todo \cup monitor.bad \subseteq PositionIds \ {p}
      BY <1>a, <2>1 DEF MonitorInv, TypeOK, Monitor
    <3> QED
      BY <1>a, <2>1, <2>2, <3>1 DEF MonitorInv
  <2> QED
    BY <2>3, <2>4, <2>5 DEF TypeInv
<1>3. ASSUME NEW s \in Symbols, NEW n \in (-MaxHeld)..MaxHeld, Touch(s, n)
      PROVE  TypeInv'
  <2>1. UNCHANGED <<store, rows, orders, monitor, decisions, call, requested, plans>>
    BY <1>3 DEF Touch
  <2>2. TypeOK'
    BY <1>a, <1>3, <2>1 DEF Touch, TypeOK
  <2> QED
    BY <1>a, <2>1, <2>2, StoreStays, CallsKept, OrdersInvKept, MonitorKept, DecisionsKept
       DEF TypeInv
<1>4. ASSUME NEW o \in OrderIds, Fill(o) \/ EndOrder(o)
      PROVE  TypeInv'
  <2>1. UNCHANGED <<store, rows, monitor, decisions, call, touched, requested, plans>>
    BY <1>4 DEF Fill, EndOrder, history
  <2>2. /\ OrdersKept /\ orders[o] # NoOrder
        /\ orders'[o].filled <= orders'[o].qty
        /\ orders'[o].open => orders'[o].filled < orders'[o].qty
        /\ \A r \in OrderIds \ {o} : orders'[r] = orders[r]
    <3>1. CASE Fill(o)
      <4>1. orders[o] \in Order /\ orders[o].filled < orders[o].qty
        BY <1>a, <3>1 DEF Fill, OrdersInv, OrderInv, TypeOK
      <4>2. orders'[o].filled = orders[o].filled + 1 /\ orders'[o].qty = orders[o].qty
        BY <1>a, <3>1, <4>1, FillEffect DEF OrdersKept
      <4> QED
        BY <1>a, <3>1, <4>1, <4>2, FillEffect DEF Order
    <3>2. CASE EndOrder(o)
      <4>1. /\ OrdersKept /\ orders[o] # NoOrder
            /\ orders'[o].filled = orders[o].filled /\ ~orders'[o].open
            /\ \A r \in OrderIds \ {o} : orders'[r] = orders[r]
        BY <1>a, <3>2, EndEffect
      <4> QED
        BY <1>a, <4>1 DEF OrdersInv, OrderInv, OrdersKept
    <3> QED
      BY <1>4, <3>1, <3>2
  <2>3. held' \in [Symbols -> (-MaxHeld)..MaxHeld]
    <3>1. CASE Fill(o)
      <4>1. orders[o].key.symbol \in Symbols
        BY <1>a, <2>2 DEF TypeOK, Order, ExitKey
      <4>2. held'[orders[o].key.symbol] \in (-MaxHeld)..MaxHeld
        BY <3>1 DEF Fill
      <4>3. \E n : held' = [held EXCEPT ![orders[o].key.symbol] = n]
        BY <3>1 DEF Fill, Filled
      <4> QED
        BY <1>a, <4>1, <4>2, <4>3 DEF TypeOK
    <3>2. CASE EndOrder(o)
      BY <1>a, <3>2 DEF EndOrder, TypeOK
    <3> QED
      BY <1>4, <3>1, <3>2
  <2>4. TypeOK'
    BY <1>a, <2>1, <2>2, <2>3 DEF TypeOK, OrdersKept
  <2>5. OrdersInv' /\ OneOrder'
    <3>1. OneOrder'
      BY <1>a, <2>2 DEF OneOrder, OrdersKept
    <3>2. OrderInv(o)'
      BY <1>a, <2>1, <2>2 DEF OrdersInv, OrderInv, OrdersKept
    <3>3. \A r \in OrderIds \ {o} : OrderInv(r)'
      BY <1>a, <2>1, <2>2 DEF OrdersInv, OrderInv
    <3> QED
      BY <3>1, <3>2, <3>3 DEF OrdersInv
  <2> QED
    BY <1>a, <2>1, <2>4, <2>5, StoreStays, CallsKept, MonitorKept, DecisionsKept DEF TypeInv
<1>5. CASE MonitorStep
  <2>1. UNCHANGED <<held, rows, orders, call, touched, requested, plans>>
    BY <1>5 DEF MonitorStep, MonitorBegin, MonitorList, MonitorReconcile, MonitorApply,
                MonitorEvaluate, MonitorRaises, history
  <2>2. ASSUME UNCHANGED <<store, decisions>>, monitor' \in Monitor, MonitorInv'
        PROVE  TypeInv'
    <3>1. TypeOK'
      BY <1>a, <2>1, <2>2 DEF TypeOK
    <3> QED
      BY <1>a, <2>1, <2>2, <3>1, StoreStays, CallsKept, OrdersInvKept, DecisionsKept
         DEF TypeInv
  <2>3. CASE MonitorBegin
    <3>1. monitor' = [pc |-> "list", todo |-> {}, bad |-> {}]
      BY <2>3 DEF MonitorBegin, IdleMonitor
    <3>2. monitor' \in Monitor /\ MonitorInv'
      BY <3>1 DEF Monitor, MonitorInv
    <3> QED
      BY <2>2, <2>3, <3>2 DEF MonitorBegin
  <2>4. CASE MonitorList
    <3>1. /\ monitor' \in Monitor /\ monitor'.pc = "reconcile"
          /\ monitor'.todo = OpenPositions /\ monitor'.bad = {}
      BY <1>a, <2>4 DEF MonitorList, OpenPositions, TypeOK, Monitor, MonitorInv
    <3>2. MonitorInv'
      BY <2>4, <3>1 DEF MonitorList, MonitorInv, OpenPositions
    <3> QED
      BY <2>2, <2>4, <3>1, <3>2 DEF MonitorList
  <2>5. ASSUME NEW p \in PositionIds, MonitorReconcile(p)
        PROVE  TypeInv'
    <3> DEFINE left == monitor.todo \ {p}
               bad == monitor.bad \cup (IF Mismatch(p, held[SymbolOf[p]]) THEN {p} ELSE {})
    <3>1. /\ left \subseteq PositionIds /\ bad \subseteq PositionIds
          /\ \A q \in left \cup bad : store[q] # NoRow
      BY <1>a, <2>5 DEF MonitorReconcile, MonitorInv, TypeOK, Monitor
    <3>2. /\ monitor' \in Monitor /\ monitor'.bad = bad
          /\ \/ left = {} /\ monitor'.pc = "apply" /\ monitor'.todo = bad
             \/ left # {} /\ monitor'.pc = "reconcile" /\ monitor'.todo = left
      <4>1. monitor' = [monitor EXCEPT !.bad = bad,
                                       !.todo = IF left = {} THEN bad ELSE left,
                                       !.pc = IF left = {} THEN "apply" ELSE "reconcile"]
        BY <2>5 DEF MonitorReconcile
      <4> HIDE DEF left, bad
      <4> QED
        BY <1>a, <3>1, <4>1 DEF TypeOK, Monitor
    <3> HIDE DEF left, bad
    <3>3. UNCHANGED <<store, decisions>>
      BY <2>5 DEF MonitorReconcile
    <3>4. MonitorInv'
      BY <3>1, <3>2, <3>3 DEF MonitorInv
    <3> QED
      BY <2>2, <3>2, <3>3, <3>4
  <2>6. ASSUME NEW p \in PositionIds, MonitorApply(p)
        PROVE  TypeInv'
    <3>1. store[p] # NoRow
      BY <1>a, <2>6 DEF MonitorApply, MonitorInv
    <3>2. /\ StoreKept
          /\ store'[p].status = "RECONCILIATION_REQUIRED"
          /\ \A q \in PositionIds \ {p} : store'[q] = store[q]
      BY <1>a, <2>6, <3>1, FlagEffect
    <3>3. /\ monitor' \in Monitor /\ monitor'.pc = "apply" /\ monitor'.bad = monitor.bad
          /\ monitor'.todo = monitor.todo \ {p} /\ monitor.pc = "apply"
      BY <1>a, <2>6 DEF MonitorApply, TypeOK, Monitor
    <3>4. UNCHANGED decisions
      BY <2>6 DEF MonitorApply
    <3>5. TypeOK'
      BY <1>a, <2>1, <3>2, <3>3, <3>4 DEF TypeOK, StoreKept
    <3>6. MonitorInv'
      <4>1. \A q \in monitor'.todo \cup monitor'.bad : store'[q] # NoRow
        BY <1>a, <3>2, <3>3 DEF MonitorInv, StoreKept, TypeOK, Monitor
      <4>2. \A q \in monitor'.bad \ monitor'.todo :
               store'[q].status = "RECONCILIATION_REQUIRED"
        BY <1>a, <3>2, <3>3 DEF MonitorInv, TypeOK, Monitor
      <4> QED
        BY <1>a, <3>3, <4>1, <4>2 DEF MonitorInv
    <3> QED
      BY <1>a, <2>1, <3>2, <3>4, <3>5, <3>6, CallsKept, OrdersInvKept, DecisionsKept
         DEF TypeInv
  <2>7. ASSUME NEW signals \in SUBSET PositionIds, MonitorEvaluate(signals)
        PROVE  TypeInv'
    <3>1. /\ monitor' = [pc |-> "idle", todo |-> {}, bad |-> {}] /\ UNCHANGED store
      BY <2>7 DEF MonitorEvaluate, IdleMonitor
    <3>2. \A p \in PositionIds : \/ decisions'[p] = decisions[p]
                                 \/ store[p] # NoRow /\ decisions'[p] = store[p].qty
      BY <1>a, <2>7 DEF MonitorEvaluate, Reloaded, OpenPositions, TypeOK
    <3>3. decisions' = [p \in PositionIds |-> decisions'[p]]
      BY <2>7 DEF MonitorEvaluate
    <3>4. \A p \in PositionIds : decisions'[p] \in 0..MaxQty
      BY <1>a, <3>2 DEF TypeOK, Position
    <3>5. monitor' \in Monitor /\ MonitorInv'
      BY <3>1 DEF Monitor, MonitorInv
    <3>6. TypeOK'
      BY <1>a, <2>1, <3>1, <3>3, <3>4, <3>5 DEF TypeOK
    <3>7. DecisionsInv'
      BY <1>a, <3>1, <3>2 DEF DecisionsInv, TypeOK, Position
    <3> QED
      BY <1>a, <2>1, <3>1, <3>5, <3>6, <3>7, StoreStays, CallsKept, OrdersInvKept DEF TypeInv
  <2>8. CASE MonitorRaises
    <3>1. monitor' = [pc |-> "idle", todo |-> {}, bad |-> {}]
      BY <2>8 DEF MonitorRaises, IdleMonitor
    <3>2. monitor' \in Monitor /\ MonitorInv'
      BY <3>1 DEF Monitor, MonitorInv
    <3> QED
      BY <2>2, <2>8, <3>2 DEF MonitorRaises
  <2> QED
    BY <1>5, <2>3, <2>4, <2>5, <2>6, <2>7, <2>8 DEF MonitorStep
<1>6. CASE NewService
  <2>1. UNCHANGED <<store, held, orders, monitor, decisions, call, touched, requested, plans>>
    BY <1>6 DEF NewService, history
  <2>2. TypeOK'
    BY <1>a, <1>6, <2>1 DEF NewService, TypeOK
  <2> QED
    BY <1>a, <2>1, <2>2, StoreStays, CallsKept, OrdersInvKept, MonitorKept, DecisionsKept
       DEF TypeInv
<1>7. ASSUME NEW w \in Workers, NEW p \in PositionIds, NEW priced \in BOOLEAN,
             BuildExitPlan(w, p, priced)
      PROVE  TypeInv'
  <2> DEFINE plan == [id |-> plans + 1, pos |-> p,
                      qty |-> ExitQuantity(decisions[p], held[SymbolOf[p]]),
                      priced |-> priced]
  <2>1. UNCHANGED <<store, held, rows, orders, monitor, decisions, touched, requested>>
    BY <1>7 DEF BuildExitPlan, history
  <2>2. plans' \in 0..MaxPlans /\ plans + 1 \in 1..MaxPlans
    BY <1>a, <1>7, BoundAssumption DEF BuildExitPlan, TypeOK
  <2>3. store[p] # NoRow /\ decisions[p] \in 0..MaxQty /\ decisions[p] <= store[p].qty
    BY <1>a, <1>7 DEF BuildExitPlan, DecisionsInv, TypeOK
  <2>4. held[SymbolOf[p]] \in Int
    BY <1>a, MapAssumption, BoundAssumption DEF TypeOK
  <2>5. /\ ExitQuantity(decisions[p], held[SymbolOf[p]]) \in 0..MaxQty
        /\ ExitQuantity(decisions[p], held[SymbolOf[p]]) <= decisions[p]
    BY <2>3, <2>4, BoundAssumption DEF ExitQuantity, Size
  <2>6. plan \in Plan /\ plan.pos = p /\ plan.qty <= store[p].qty
    <3>1. store[p] \in Position
      BY <1>a, <2>3 DEF TypeOK
    <3> QED
      BY <2>2, <2>3, <2>5, <3>1, BoundAssumption DEF Plan, Position
  <2>7. call' = [call EXCEPT ![w] = [IdleCall EXCEPT !.pc = "planned", !.plan = plan]]
    BY <1>7 DEF BuildExitPlan
  <2> HIDE DEF plan
  <2>8. /\ call' \in [Workers -> Call] /\ call'[w].pc = "planned" /\ call'[w].plan = plan
        /\ \A v \in Workers \ {w} : call'[v] = call[v]
    BY <1>b, <2>6, <2>7 DEF IdleCall, Call, Stage
  <2>9. CallInv(w)'
    BY <2>1, <2>3, <2>6, <2>8 DEF CallInv, InCall
  <2>10. TypeOK'
    BY <1>a, <2>1, <2>2, <2>8 DEF TypeOK
  <2> QED
    BY <1>a, <2>1, <2>8, <2>9, <2>10, StoreStays, CallsMove, OrdersInvKept, MonitorKept,
       DecisionsKept DEF TypeInv
<1>8. ASSUME NEW w \in Workers, NEW dry \in BOOLEAN, NEW kill \in BOOLEAN,
             ExecuteExit(w, dry, kill)
      PROVE  TypeInv'
  <2>1. call[w].plan \in Plan /\ call[w].plan.qty > 0 /\ CallInv(w)
    BY <1>a, <1>8 DEF ExecuteExit, CallsInv, CallInv, Authorized
  <2>2. KeyOf(call[w].plan) \in ExitKey
    BY <2>1, KeyTyped
  <2>3. /\ call' \in [Workers -> Call] /\ call'[w].pc = "local"
        /\ call'[w].plan = call[w].plan /\ call'[w].dry = dry
        /\ \A v \in Workers \ {w} : call'[v] = call[v]
    BY <1>b, <1>8 DEF ExecuteExit, Call, Stage
  <2>4. /\ requested \subseteq requested' /\ requested' \subseteq ExitKey
        /\ dry \/ KeyOf(call[w].plan) \in requested'
    BY <1>b, <1>8, <2>2 DEF ExecuteExit
  <2>5. UNCHANGED <<store, held, rows, orders, monitor, decisions, touched, plans>>
    BY <1>8 DEF ExecuteExit
  <2>6. CallInv(w)'
    BY <1>8, <2>1, <2>3, <2>4, <2>5 DEF CallInv, ExecuteExit, KeyOf
  <2> QED
    BY <1>b, <2>3, <2>4, <2>5, <2>6, CallStep
<1>9. ASSUME NEW w \in Workers, ExitStep(w)
      PROVE  TypeInv'
  <2>a. CallInv(w)
    BY <1>a DEF CallsInv
  <2>b. ASSUME Return(w), call[w].pc # "idle", UNCHANGED store
        PROVE  /\ call' \in [Workers -> Call] /\ CallInv(w)'
               /\ \A v \in Workers \ {w} : call'[v] = call[v]
    <3>1. /\ call' \in [Workers -> Call]
          /\ \A v \in Workers \ {w} : call'[v] = call[v]
          /\ call'[w].pc = "planned" /\ call'[w].plan = call[w].plan
      BY <1>b, <2>b, ReturnEffect
    <3> QED
      BY <2>a, <2>b, <3>1 DEF CallInv, InCall
  <2>c. ASSUME NEW stage \in InCall \ {"adopt", "confirm"}, Goto(w, stage),
               call[w].pc \in InCall, stage \in {"record", "submit"} => ~call[w].dry,
               UNCHANGED <<store, requested>>
        PROVE  /\ call' \in [Workers -> Call] /\ CallInv(w)'
               /\ \A v \in Workers \ {w} : call'[v] = call[v]
    <3>1. /\ call' \in [Workers -> Call]
          /\ \A v \in Workers \ {w} : call'[v] = call[v]
          /\ call'[w].pc = stage /\ call'[w].plan = call[w].plan
          /\ call'[w].dry = call[w].dry
      BY <1>b, <2>c, GotoEffect DEF InCall
    <3>2. call[w].pc # "idle"
      BY <2>c DEF InCall
    <3> QED
      BY <2>a, <2>c, <3>1, <3>2 DEF CallInv, KeyOf
  <2>d. ASSUME NEW stage \in {"adopt", "confirm"}, NEW o \in OrderIds, Hold(w, stage, o),
               call[w].pc \in InCall, UNCHANGED <<store, requested>>
        PROVE  /\ call' \in [Workers -> Call] /\ CallInv(w)'
               /\ \A v \in Workers \ {w} : call'[v] = call[v]
    <3>0. stage \in Stage /\ stage \in InCall
      BY DEF Stage, InCall
    <3>1. /\ call' \in [Workers -> Call]
          /\ \A v \in Workers \ {w} : call'[v] = call[v]
          /\ call'[w].pc = stage /\ call'[w].plan = call[w].plan
          /\ call'[w].dry = call[w].dry /\ call'[w].oid = o
      BY <1>b, <2>d, <3>0, HoldEffect
    <3>2. call[w].pc # "idle"
      BY <2>d DEF InCall
    <3> QED
      BY <2>a, <2>d, <3>1, <3>2 DEF CallInv, KeyOf
  <2>e. ASSUME call' \in [Workers -> Call], CallInv(w)',
               \A v \in Workers \ {w} : call'[v] = call[v],
               rows' \in [ExitKey -> ExitRow \cup {NoRow}],
               UNCHANGED <<store, held, orders, monitor, decisions, history, plans>>
        PROVE  TypeInv'
    BY <1>b, <2>e, CallStep DEF history
  <2>f. call[w].pc \in InCall => KeyOf(call[w].plan) \in ExitKey
    BY <2>a, KeyTyped DEF CallInv, InCall
  <2>1. CASE CheckLocal(w)
    <3>0. /\ call[w].pc = "local" /\ call[w].pc \in InCall /\ "provider" \in InCall
          /\ UNCHANGED <<store, held, rows, orders, monitor, decisions, history, plans>>
      BY <2>1 DEF CheckLocal, InCall, Stage
    <3>1. CASE Return(w)
      BY <1>b, <2>b, <2>e, <3>0, <3>1
    <3>2. CASE Goto(w, "provider")
      BY <1>b, <2>c, <2>e, <3>0, <3>2 DEF history
    <3> QED
      BY <2>1, <3>1, <3>2 DEF CheckLocal
  <2>2. CASE CheckProvider(w)
    <3>0. /\ call[w].pc = "provider" /\ call[w].pc \in InCall /\ "record" \in InCall
          /\ UNCHANGED <<store, held, rows, orders, monitor, decisions, history, plans>>
      BY <2>2 DEF CheckProvider, InCall, Stage
    <3>1. CASE Return(w)
      BY <1>b, <2>b, <2>e, <3>0, <3>1
    <3>2. ASSUME NEW o \in OrderIds, Hold(w, "adopt", o)
          PROVE  TypeInv'
      BY <1>b, <2>d, <2>e, <3>0, <3>2 DEF history
    <3>3. CASE ~StopsAtDryRun(w) /\ Goto(w, "record")
      BY <1>b, <2>c, <2>e, <3>0, <3>3 DEF history, StopsAtDryRun
    <3> QED
      BY <2>2, <3>1, <3>2, <3>3 DEF CheckProvider, OrdersWith
  <2>3. CASE Adopt(w)
    <3>0. /\ call[w].pc = "adopt" /\ call[w].pc \in InCall /\ Return(w)
          /\ UNCHANGED <<store, held, orders, monitor, decisions, history, plans>>
      BY <2>3 DEF Adopt, InCall, Stage
    <3>1. rows' \in [ExitKey -> ExitRow \cup {NoRow}]
      <4>1. call[w].oid \in OrderIds \cup {NoId} /\ 0 \in 0..MaxPlans
        BY <1>b, BoundAssumption DEF Call
      <4> QED
        BY <1>b, <2>3, <2>f, <3>0, <4>1, UpsertTyped DEF Adopt, Upsert
    <3> QED
      BY <2>b, <2>e, <3>0, <3>1
  <2>4. CASE Record(w)
    <3>0. /\ call[w].pc = "record" /\ call[w].pc \in InCall /\ "submit" \in InCall
          /\ UNCHANGED <<store, held, orders, monitor, decisions, history, plans>>
      BY <2>4 DEF Record, InCall, Stage
    <3>1. CASE Return(w) /\ UNCHANGED rows
      BY <1>b, <2>b, <2>e, <3>0, <3>1
    <3>2. CASE Upsert(KeyOf(call[w].plan), call[w].plan.id, NoId) /\ Goto(w, "submit")
      <4>1. call[w].plan.id \in 0..MaxPlans /\ ~call[w].dry
        BY <2>a, <3>0, BoundAssumption DEF CallInv, Plan
      <4>2. rows' \in [ExitKey -> ExitRow \cup {NoRow}]
        BY <1>b, <2>f, <3>0, <3>2, <4>1, UpsertTyped DEF Upsert
      <4> QED
        BY <2>c, <2>e, <3>0, <3>2, <4>1, <4>2 DEF history
    <3> QED
      BY <2>4, <3>1, <3>2 DEF Record
  <2>5. CASE Submit(w)
    <3> DEFINE plan == call[w].plan
    <3>0. /\ call[w].pc = "submit" /\ call[w].pc \in InCall /\ "fail" \in InCall
          /\ UNCHANGED <<store, held, rows, monitor, decisions, history, plans>>
      BY <2>5 DEF Submit, InCall, Stage
    <3>1. /\ plan \in Plan /\ plan.qty > 0 /\ store[plan.pos] # NoRow
          /\ plan.qty <= store[plan.pos].qty
      BY <2>a, <3>0 DEF CallInv
    <3>2. /\ call' \in [Workers -> Call] /\ CallInv(w)'
          /\ \A v \in Workers \ {w} : call'[v] = call[v]
      <4>1. CASE Goto(w, "fail")
        BY <2>c, <3>0, <4>1 DEF history
      <4>2. ASSUME NEW o \in OrderIds, Hold(w, "confirm", o)
            PROVE  /\ call' \in [Workers -> Call] /\ CallInv(w)'
                   /\ \A v \in Workers \ {w} : call'[v] = call[v]
        BY <2>d, <3>0, <4>2 DEF history
      <4> QED
        BY <2>5, <4>1, <4>2 DEF Submit
    <3>3. ASSUME NEW o \in OrderIds, Accept(plan, o)
          PROVE  OrdersKept /\ OrdersInv' /\ OneOrder'
      <4>1. /\ OrdersKept
            /\ orders[o] = NoOrder /\ orders'[o] # NoOrder
            /\ orders'[o].key = KeyOf(plan) /\ orders'[o].pos = plan.pos
            /\ orders'[o].qty = plan.qty /\ orders'[o].filled = 0
            /\ \A r \in OrderIds \ {o} : orders'[r] = orders[r]
            /\ \A r \in OrderIds : orders[r] # NoOrder => orders[r].key # KeyOf(plan)
        BY <1>a, <3>1, <3>3, AcceptEffect
      <4>2. plan.qty \in 0..MaxQty
        BY <3>1 DEF Plan
      <4>3. OrderInv(o)'
        BY <3>0, <3>1, <4>1, <4>2 DEF OrderInv, KeyOf
      <4>4. \A r \in OrderIds \ {o} : OrderInv(r)'
        BY <1>a, <3>0, <4>1 DEF OrdersInv, OrderInv
      <4>5. OneOrder'
        BY <1>a, <4>1 DEF OneOrder
      <4> QED
        BY <4>1, <4>3, <4>4, <4>5 DEF OrdersInv
    <3>4. OrdersKept /\ OrdersInv' /\ OneOrder'
      BY <1>a, <2>5, <3>0, <3>3, StoreStays, OrdersStay, OrdersInvKept DEF Submit
    <3>5. TypeOK'
      BY <1>a, <3>0, <3>2, <3>4 DEF TypeOK, OrdersKept, history
    <3> QED
      BY <1>a, <3>0, <3>2, <3>4, <3>5, StoreStays, CallsMove, MonitorKept, DecisionsKept
         DEF TypeInv, history
  <2>6. CASE Confirm(w)
    <3>0. /\ call[w].pc = "confirm" /\ call[w].pc \in InCall /\ "fail" \in InCall
          /\ UNCHANGED <<store, held, orders, monitor, decisions, history, plans>>
      BY <2>6 DEF Confirm, InCall, Stage
    <3>1. rows' \in [ExitKey -> ExitRow \cup {NoRow}]
      <4>1. call[w].plan.id \in 0..MaxPlans /\ call[w].oid \in OrderIds \cup {NoId}
        BY <1>b, <2>a, <3>0, BoundAssumption DEF CallInv, Plan, Call
      <4>2. \/ rows' = rows
            \/ rows' = [rows EXCEPT ![KeyOf(call[w].plan)] =
                          [plan |-> call[w].plan.id, oid |-> call[w].oid]]
        BY <2>6 DEF Confirm
      <4> QED
        BY <1>b, <2>f, <3>0, <4>1, <4>2, UpsertTyped
    <3>2. Return(w) \/ Goto(w, "fail")
      BY <2>6 DEF Confirm
    <3>3. CASE Return(w)
      BY <2>b, <2>e, <3>0, <3>1, <3>3
    <3>4. CASE Goto(w, "fail")
      BY <2>c, <2>e, <3>0, <3>1, <3>4 DEF history
    <3> QED
      BY <3>2, <3>3, <3>4
  <2>7. CASE Fail(w)
    BY <1>b, <2>b, <2>e, <2>7 DEF Fail
  <2> QED
    BY <1>9, <2>1, <2>2, <2>3, <2>4, <2>5, <2>6, <2>7 DEF ExitStep
<1> QED
  BY <1>1, <1>2, <1>3, <1>4, <1>5, <1>6, <1>7, <1>8, <1>9 DEF Next

LEMMA TypeInvariance == Spec => []TypeInv
<1>1. TypeInv /\ [Next]_vars => TypeInv'
  BY TypeStep
<1> QED
  BY TypeInit, <1>1, PTL DEF Spec

(* The type invariant. *)
THEOREM TypeCorrect == Spec => []TypeOK
<1>1. TypeInv => TypeOK
  BY DEF TypeInv
<1> QED
  BY TypeInvariance, <1>1, PTL

(* An exit order is for its position's symbol and side and never for more  *)
(* than the position, whatever else the broker holds of the symbol.        *)
THEOREM ExitsFit == Spec => []ExitsFitThePosition
<1>1. TypeInv => ExitsFitThePosition
  BY DEF TypeInv, OrdersInv, OrderInv, ExitsFitThePosition
<1> QED
  BY TypeInvariance, <1>1, PTL

-----------------------------------------------------------------------------
(* A pass and the rows it flagged *)

(* A pass never takes a decision on a position it found to differ from the *)
(* broker's: by the time it evaluates, the row is flagged and not reloaded.*)
THEOREM NotDecided == Spec => MismatchedIsNotDecided
<1>1. ASSUME TypeInv, [Next]_vars
      PROVE  [\A p \in monitor.bad : decisions'[p] \in {decisions[p], 0}]_vars
  <2>1. CASE UNCHANGED decisions
    BY <2>1
  <2>2. ASSUME NEW signals \in SUBSET PositionIds, MonitorEvaluate(signals)
        PROVE  \A p \in monitor.bad : decisions'[p] = decisions[p]
    <3>1. monitor.bad \subseteq PositionIds
      BY <1>1 DEF TypeInv, TypeOK, Monitor
    <3>2. \A p \in monitor.bad : p \notin Reloaded
      BY <1>1, <2>2 DEF MonitorEvaluate, TypeInv, MonitorInv, Reloaded, OpenPositions
    <3> QED
      BY <2>2, <3>1, <3>2 DEF MonitorEvaluate
  <2> QED
    BY <1>1, <2>1, <2>2
       DEF Next, vars, MonitorStep, ExitStep, OpenPosition, Touch, Fill, EndOrder, MonitorBegin,
           MonitorList, MonitorReconcile, MonitorApply, MonitorRaises, NewService,
           BuildExitPlan, ExecuteExit, CheckLocal, CheckProvider, Adopt, Record, Submit,
           Confirm, Fail
<1> QED
  BY TypeInvariance, <1>1, PTL DEF Spec, MismatchedIsNotDecided

-----------------------------------------------------------------------------
(* A flag is for ever.  Only open positions are reconciled, flagged and    *)
(* evaluated, and a flagged one is not among them: its row never changes,  *)
(* also not when the broker's holding fits it again, and no later pass     *)
(* decides anything about it (monitor.py:103, get_open_positions).         *)

Flagged(p) == store[p] # NoRow /\ store[p].status = "RECONCILIATION_REQUIRED"

FlagsAreForever ==
    [][\A p \in PositionIds : Flagged(p) => store'[p] = store[p] /\ decisions'[p] = decisions[p]]_vars

LEMMA FlaggedIsStuck ==
    ASSUME TypeInv, [Next]_vars, NEW p \in PositionIds, Flagged(p)
    PROVE  store'[p] = store[p] /\ decisions'[p] = decisions[p]
<1>a. TypeOK /\ store \in [PositionIds -> Position \cup {NoRow}] /\ store[p] \in Position
  BY DEF TypeInv, TypeOK, Flagged
<1>1. ASSUME NEW q \in PositionIds, NEW qty \in 1..MaxQty, OpenPosition(q, qty)
      PROVE  store'[p] = store[p] /\ UNCHANGED decisions
  <2>1. store[q] = NoRow /\ \A r \in PositionIds \ {q} : store'[r] = store[r]
    BY <1>a, <1>1, OpenEffect
  <2> QED
    BY <1>1, <2>1 DEF OpenPosition, Flagged
<1>2. ASSUME NEW q \in PositionIds, MonitorApply(q)
      PROVE  store'[p] = store[p] /\ UNCHANGED decisions
  <2>1. store' = [store EXCEPT ![q] = [store[q] EXCEPT !.status = "RECONCILIATION_REQUIRED"]]
        /\ UNCHANGED decisions
    BY <1>2 DEF MonitorApply
  <2>2. CASE q # p
    BY <1>a, <2>1, <2>2
  <2>3. CASE q = p
    <3>1. [store[p] EXCEPT !.status = "RECONCILIATION_REQUIRED"] = store[p]
      BY <1>a DEF Position, Flagged
    <3> QED
      BY <1>a, <2>1, <2>3, <3>1
  <2> QED
    BY <2>2, <2>3
<1>3. ASSUME NEW signals \in SUBSET PositionIds, MonitorEvaluate(signals)
      PROVE  decisions'[p] = decisions[p] /\ UNCHANGED store
  <2>1. p \notin Reloaded
    BY DEF Reloaded, OpenPositions, Flagged
  <2> QED
    BY <1>3, <2>1 DEF MonitorEvaluate
<1>4. CASE UNCHANGED <<store, decisions>>
  BY <1>4
<1> QED
  BY <1>1, <1>2, <1>3, <1>4
     DEF Next, vars, MonitorStep, ExitStep, Touch, Fill, EndOrder, MonitorBegin,
         MonitorList, MonitorReconcile, MonitorRaises, NewService,
         BuildExitPlan, ExecuteExit, CheckLocal, CheckProvider, Adopt, Record, Submit,
         Confirm, Fail

(* Nothing clears a flag: the row of a flagged position and the decision   *)
(* its callers have of it stay as they are.                                *)
THEOREM FlagsStay == Spec => FlagsAreForever
<1>1. TypeInv /\ [Next]_vars =>
        [\A p \in PositionIds :
            Flagged(p) => store'[p] = store[p] /\ decisions'[p] = decisions[p]]_vars
  BY FlaggedIsStuck
<1> QED
  BY TypeInvariance, <1>1, PTL DEF Spec, FlagsAreForever

-----------------------------------------------------------------------------
(* What the broker holds.  As long as nobody else trades a symbol, its     *)
(* holding moves with the fills of exits only: before the first exit it is *)
(* what every plan was clamped to and every mismatch was found against.    *)

Quiet(s) == s \notin touched /\ ExitsOf(s) = {}

PlansClamped ==
    \A w \in Workers :
        call[w].pc # "idle" /\ Quiet(SymbolOf[call[w].plan.pos])
        => call[w].plan.qty <= Size(held[SymbolOf[call[w].plan.pos]])

ExitsClamped ==
    \A o \in OrderIds :
        /\ orders[o] # NoOrder /\ orders[o].key.symbol \notin touched
        /\ \A r \in ExitsOf(orders[o].key.symbol) : r = o
        => LET left == orders[o].qty - orders[o].filled
               h == held[orders[o].key.symbol] IN
           IF orders[o].key.side = "LONG" THEN h < 0 \/ left <= h ELSE h > 0 \/ left <= -h

Differs(p) == Quiet(SymbolOf[p]) => held[SymbolOf[p]] # Signed(p)

FlagsInv ==
    /\ \A p \in monitor.bad : Differs(p)
    /\ \A p \in PositionIds :
          store[p] # NoRow /\ store[p].status = "RECONCILIATION_REQUIRED" => Differs(p)

HoldingInv == PlansClamped /\ ExitsClamped /\ FlagsInv

LEMMA HoldingInit == Init => HoldingInv
BY DEF Init, HoldingInv, PlansClamped, ExitsClamped, FlagsInv, IdleCall, IdleMonitor

LEMMA MismatchDiffers ==
    ASSUME TypeOK, NEW p \in PositionIds, store[p] # NoRow,
           Mismatch(p, held[SymbolOf[p]])
    PROVE  held[SymbolOf[p]] # Signed(p)
<1>1. store[p].qty \in 1..MaxQty
  BY DEF TypeOK, Position
<1>2. held[SymbolOf[p]] \in Int
  BY MapAssumption, BoundAssumption DEF TypeOK
<1>3. SideOf[p] \in {"LONG", "SHORT"}
  BY MapAssumption DEF Sides
<1> QED
  BY <1>1, <1>2, <1>3, BoundAssumption DEF Mismatch, Signed, Size

(* A symbol that is quiet after a step was so before it, and its holding   *)
(* is the same.                                                            *)
LEMMA QuietBefore ==
    ASSUME TypeInv, [Next]_vars, NEW s \in Symbols, Quiet(s)'
    PROVE  Quiet(s) /\ held'[s] = held[s]
<1>1. ASSUME OrdersKept, touched \subseteq touched' PROVE Quiet(s)
  BY <1>1 DEF Quiet, ExitsOf, OrdersKept
<1>2. TypeOK
  BY DEF TypeInv
<1>3. CASE UNCHANGED <<held, orders, touched>>
  BY <1>3 DEF Quiet, ExitsOf
<1>4. ASSUME NEW t \in Symbols, NEW n \in (-MaxHeld)..MaxHeld, Touch(t, n)
      PROVE  Quiet(s) /\ held'[s] = held[s]
  <2>1. touched' = touched \cup {t} /\ UNCHANGED orders /\ held' = [held EXCEPT ![t] = n]
    BY <1>4 DEF Touch
  <2>2. s # t
    BY <2>1 DEF Quiet
  <2> QED
    BY <1>2, <2>1, <2>2 DEF Quiet, ExitsOf, TypeOK
<1>5. ASSUME NEW o \in OrderIds, Fill(o)
      PROVE  Quiet(s) /\ held'[s] = held[s]
  <2>1. orders[o] \in Order /\ orders[o].filled < orders[o].qty
    BY <1>5 DEF Fill, TypeInv, OrdersInv, OrderInv, TypeOK
  <2>2. OrdersKept /\ orders[o] # NoOrder
    BY <1>2, <1>5, <2>1, FillEffect
  <2>3. UNCHANGED touched
    BY <1>5 DEF Fill, history
  <2>4. s # orders[o].key.symbol
    BY <2>2 DEF Quiet, ExitsOf, OrdersKept
  <2>5. \E n : held' = [held EXCEPT ![orders[o].key.symbol] = n]
    BY <1>5 DEF Fill, Filled
  <2> QED
    BY <1>1, <1>2, <2>2, <2>3, <2>4, <2>5 DEF TypeOK
<1>6. ASSUME NEW o \in OrderIds, EndOrder(o)
      PROVE  Quiet(s) /\ held'[s] = held[s]
  BY <1>1, <1>2, <1>6, EndEffect DEF EndOrder, history
<1>7. ASSUME NEW w \in Workers, Submit(w)
      PROVE  Quiet(s) /\ held'[s] = held[s]
  <2>1. call[w].plan \in Plan /\ call[w].plan.qty > 0
    BY <1>7 DEF Submit, TypeInv, CallsInv, CallInv, InCall, Stage
  <2>2. UNCHANGED <<held, touched>>
    BY <1>7 DEF Submit, history
  <2>3. OrdersKept
    BY <1>2, <1>7, <2>1, AcceptEffect, OrdersStay DEF Submit
  <2> QED
    BY <1>1, <2>2, <2>3
<1> QED
  BY <1>3, <1>4, <1>5, <1>6, <1>7
     DEF Next, vars, history, MonitorStep, ExitStep, OpenPosition, MonitorBegin, MonitorList,
         MonitorReconcile, MonitorApply, MonitorEvaluate, MonitorRaises, NewService,
         BuildExitPlan, ExecuteExit, CheckLocal, CheckProvider, Adopt, Record, Confirm, Fail

LEMMA PlansStep ==
    ASSUME TypeInv, TypeInv', HoldingInv, [Next]_vars
    PROVE  PlansClamped'
<1> SUFFICES ASSUME NEW w \in Workers, (call[w].pc # "idle")',
                    Quiet(SymbolOf[call[w].plan.pos])'
             PROVE  (call[w].plan.qty <= Size(held[SymbolOf[call[w].plan.pos]]))'
  BY DEF PlansClamped
<1> DEFINE s == SymbolOf[call'[w].plan.pos]
<1>1. call'[w].plan \in Plan /\ s \in Symbols
  BY MapAssumption DEF TypeInv, CallsInv, CallInv, Plan
<1>2. Quiet(s) /\ held'[s] = held[s]
  BY <1>1, QuietBefore
<1>3. ASSUME call'[w].plan = call[w].plan, call[w].pc # "idle"
      PROVE  (call[w].plan.qty <= Size(held[SymbolOf[call[w].plan.pos]]))'
  BY <1>2, <1>3 DEF HoldingInv, PlansClamped, Size
<1>4. call \in [Workers -> Call]
  BY DEF TypeInv, TypeOK
<1>5. CASE UNCHANGED call
  BY <1>3, <1>5
<1>6. ASSUME NEW v \in Workers, NEW p \in PositionIds, NEW priced \in BOOLEAN,
             BuildExitPlan(v, p, priced)
      PROVE  (call[w].plan.qty <= Size(held[SymbolOf[call[w].plan.pos]]))'
  <2> DEFINE plan == [id |-> plans + 1, pos |-> p,
                      qty |-> ExitQuantity(decisions[p], held[SymbolOf[p]]),
                      priced |-> priced]
  <2>1. call' = [call EXCEPT ![v] = [IdleCall EXCEPT !.pc = "planned", !.plan = plan]]
    BY <1>6 DEF BuildExitPlan
  <2>2. held[SymbolOf[p]] \in Int /\ decisions[p] \in Int
    BY MapAssumption, BoundAssumption DEF TypeInv, TypeOK
  <2>3. plan.qty <= Size(held[SymbolOf[p]]) /\ plan.pos = p
    BY <2>2 DEF ExitQuantity, Size
  <2> HIDE DEF plan
  <2>4. CASE w = v
    <3>1. call'[w].plan = plan
      BY <1>4, <2>1, <2>4 DEF IdleCall
    <3> QED
      BY <1>2, <2>3, <3>1 DEF Size
  <2>5. CASE w # v
    BY <1>3, <1>4, <2>1, <2>5
  <2> QED
    BY <2>4, <2>5
<1>7. ASSUME NEW v \in Workers, call[v].pc # "idle", call'[v].plan = call[v].plan,
             \A u \in Workers \ {v} : call'[u] = call[u]
      PROVE  (call[w].plan.qty <= Size(held[SymbolOf[call[w].plan.pos]]))'
  BY <1>3, <1>7
<1>8. ASSUME NEW v \in Workers, NEW dry \in BOOLEAN, NEW kill \in BOOLEAN,
             ExecuteExit(v, dry, kill)
      PROVE  (call[w].plan.qty <= Size(held[SymbolOf[call[w].plan.pos]]))'
  <2>1. /\ call[v].pc # "idle" /\ call'[v].plan = call[v].plan
        /\ \A u \in Workers \ {v} : call'[u] = call[u]
    BY <1>4, <1>8 DEF ExecuteExit, Call
  <2> QED
    BY <1>7, <2>1
<1>9. ASSUME NEW v \in Workers, ExitStep(v)
      PROVE  (call[w].plan.qty <= Size(held[SymbolOf[call[w].plan.pos]]))'
  <2>1. call[v].pc # "idle"
    BY <1>9 DEF ExitStep, CheckLocal, CheckProvider, Adopt, Record, Submit, Confirm, Fail
  <2>2. \/ Return(v)
        \/ \E stage \in Stage : Goto(v, stage)
        \/ \E stage \in Stage, o \in OrderIds : Hold(v, stage, o)
    BY <1>9 DEF ExitStep, CheckLocal, CheckProvider, OrdersWith, Adopt, Record, Submit,
                Confirm, Fail, Stage
  <2>3. /\ call'[v].plan = call[v].plan
        /\ \A u \in Workers \ {v} : call'[u] = call[u]
    BY <1>4, <2>2, ReturnEffect, GotoEffect, HoldEffect
  <2> QED
    BY <1>7, <2>1, <2>3
<1> QED
  BY <1>5, <1>6, <1>8, <1>9
     DEF Next, vars, history, MonitorStep, OpenPosition, Touch, Fill, EndOrder, MonitorBegin,
         MonitorList, MonitorReconcile, MonitorApply, MonitorEvaluate, MonitorRaises, NewService

LEMMA FlagsStep ==
    ASSUME TypeInv, TypeInv', HoldingInv, [Next]_vars
    PROVE  FlagsInv'
<1>a. TypeOK /\ MonitorInv /\ FlagsInv
  BY DEF TypeInv, HoldingInv
<1>1. ASSUME NEW p \in PositionIds, store[p] # NoRow, store'[p].qty = store[p].qty, Differs(p)
      PROVE  Differs(p)'
  <2>1. SymbolOf[p] \in Symbols
    BY MapAssumption
  <2> QED
    BY <1>1, <2>1, QuietBefore DEF Differs, Signed
<1>2. ASSUME StoreKept, UNCHANGED monitor,
             \A p \in PositionIds :
                store'[p] # NoRow /\ store'[p].status = "RECONCILIATION_REQUIRED" =>
                   /\ store[p] # NoRow
                   /\ store[p].status = "RECONCILIATION_REQUIRED"
      PROVE  FlagsInv'
  <2>1. \A p \in monitor.bad : p \in PositionIds /\ store[p] # NoRow
    BY <1>a DEF MonitorInv, TypeOK, Monitor
  <2>2. \A p \in PositionIds : store[p] # NoRow => store'[p].qty = store[p].qty
    BY <1>2 DEF StoreKept
  <2>3. \A p \in monitor'.bad : Differs(p)'
    BY <1>a, <1>1, <1>2, <2>1, <2>2 DEF FlagsInv
  <2>4. ASSUME NEW p \in PositionIds, store'[p] # NoRow,
               store'[p].status = "RECONCILIATION_REQUIRED"
        PROVE  Differs(p)'
    BY <1>a, <1>1, <1>2, <2>2, <2>4 DEF FlagsInv
  <2> QED
    BY <2>3, <2>4 DEF FlagsInv
<1>3. CASE UNCHANGED <<store, monitor>>
  BY <1>a, <1>2, <1>3, StoreStays
<1>4. ASSUME NEW p \in PositionIds, NEW qty \in 1..MaxQty, OpenPosition(p, qty)
      PROVE  FlagsInv'
  BY <1>a, <1>2, <1>4, OpenEffect DEF OpenPosition
<1>5. ASSUME UNCHANGED store, \A p \in monitor'.bad \ monitor.bad : p \in PositionIds /\ Differs(p)',
             monitor'.bad \subseteq monitor.bad \cup (monitor'.bad \ monitor.bad)
      PROVE  FlagsInv'
  <2>1. \A p \in monitor.bad : p \in PositionIds /\ store[p] # NoRow
    BY <1>a DEF MonitorInv, TypeOK, Monitor
  <2>2. \A p \in monitor.bad : Differs(p)'
    BY <1>a, <1>1, <1>5, <2>1 DEF FlagsInv
  <2>3. ASSUME NEW p \in PositionIds, store'[p] # NoRow,
               store'[p].status = "RECONCILIATION_REQUIRED"
        PROVE  Differs(p)'
    BY <1>a, <1>1, <1>5, <2>3 DEF FlagsInv
  <2> QED
    BY <1>5, <2>2, <2>3 DEF FlagsInv
<1>6. ASSUME UNCHANGED store, monitor'.bad = {} PROVE FlagsInv'
  BY <1>5, <1>6
<1>7. CASE MonitorBegin \/ MonitorRaises \/ \E signals \in SUBSET PositionIds : MonitorEvaluate(signals)
  BY <1>6, <1>7 DEF MonitorBegin, MonitorRaises, MonitorEvaluate, IdleMonitor
<1>8. CASE MonitorList
  <2>1. monitor'.bad = {}
    BY <1>a, <1>8 DEF MonitorList, MonitorInv, TypeOK, Monitor
  <2> QED
    BY <1>6, <1>8, <2>1 DEF MonitorList
<1>9. ASSUME NEW p \in PositionIds, MonitorReconcile(p)
      PROVE  FlagsInv'
  <2>1. UNCHANGED <<store, held>> /\ store[p] # NoRow
    BY <1>a, <1>9 DEF MonitorReconcile, MonitorInv
  <2>2. monitor'.bad = monitor.bad \cup (IF Mismatch(p, held[SymbolOf[p]]) THEN {p} ELSE {})
    BY <1>a, <1>9 DEF MonitorReconcile, TypeOK, Monitor
  <2>3. Mismatch(p, held[SymbolOf[p]]) => Differs(p)'
    BY <1>a, <2>1, MismatchDiffers DEF Differs, Signed
  <2> QED
    BY <1>5, <2>1, <2>2, <2>3
<1>10. ASSUME NEW p \in PositionIds, MonitorApply(p)
       PROVE  FlagsInv'
  <2>1. store[p] # NoRow /\ p \in monitor.bad
    BY <1>a, <1>10 DEF MonitorApply, MonitorInv
  <2>2. /\ StoreKept
        /\ \A q \in PositionIds \ {p} : store'[q] = store[q]
    BY <1>a, <1>10, <2>1, FlagEffect
  <2>3. monitor'.bad = monitor.bad
    BY <1>a, <1>10 DEF MonitorApply, TypeOK, Monitor
  <2>4. \A q \in monitor.bad : q \in PositionIds /\ store[q] # NoRow
    BY <1>a DEF MonitorInv, TypeOK, Monitor
  <2>5. \A q \in PositionIds : store[q] # NoRow => store'[q].qty = store[q].qty
    BY <2>2 DEF StoreKept
  <2>6. \A q \in monitor.bad : Differs(q)'
    BY <1>a, <1>1, <2>4, <2>5 DEF FlagsInv
  <2>7. ASSUME NEW q \in PositionIds, store'[q] # NoRow,
               store'[q].status = "RECONCILIATION_REQUIRED"
        PROVE  Differs(q)'
    <3>1. CASE q = p
      BY <2>1, <2>6, <3>1
    <3>2. CASE q # p
      BY <1>a, <1>1, <2>2, <2>7, <3>2 DEF FlagsInv
    <3> QED
      BY <3>1, <3>2
  <2> QED
    BY <2>3, <2>6, <2>7 DEF FlagsInv
<1> QED
  BY <1>3, <1>4, <1>7, <1>8, <1>9, <1>10
     DEF Next, vars, MonitorStep, ExitStep, Touch, Fill, EndOrder, NewService,
         BuildExitPlan, ExecuteExit, CheckLocal, CheckProvider, Adopt, Record, Submit,
         Confirm, Fail

(* The only exit of a symbol that nobody else trades is clamped: before it *)
(* was placed its plan was, and since then it took the holding along.      *)
LEMMA ExitsStep ==
    ASSUME TypeInv, TypeInv', HoldingInv, [Next]_vars
    PROVE  ExitsClamped'
<1>a. TypeOK /\ OrdersInv /\ ExitsClamped /\ PlansClamped
  BY DEF TypeInv, HoldingInv
<1> DEFINE Clamped(o) ==
        LET left == orders[o].qty - orders[o].filled
            h == held[orders[o].key.symbol] IN
        IF orders[o].key.side = "LONG" THEN h < 0 \/ left <= h ELSE h > 0 \/ left <= -h
<1> SUFFICES ASSUME NEW o \in OrderIds, orders'[o] # NoOrder,
                    orders'[o].key.symbol \notin touched',
                    \A r \in ExitsOf(orders[o].key.symbol)' : r = o
             PROVE  Clamped(o)'
  BY DEF ExitsClamped
<1> DEFINE s == orders'[o].key.symbol
<1>b. s \in Symbols
  BY DEF TypeInv, TypeOK, Order, ExitKey
<1>1. ASSUME OrdersKept, orders[o] # NoOrder, touched \subseteq touched' PROVE Clamped(o)
  <2>1. orders[o].key.symbol = s
    BY <1>1 DEF OrdersKept
  <2>2. \A r \in ExitsOf(s) : r = o
    BY <1>1, <2>1 DEF ExitsOf, OrdersKept
  <2> QED
    BY <1>a, <1>1, <2>1, <2>2 DEF ExitsClamped
<1>2. CASE UNCHANGED <<held, orders, touched>>
  BY <1>a, <1>1, <1>2, OrdersStay
<1>3. ASSUME NEW t \in Symbols, NEW n \in (-MaxHeld)..MaxHeld, Touch(t, n)
      PROVE  Clamped(o)'
  <2>1. touched' = touched \cup {t} /\ UNCHANGED orders /\ held' = [held EXCEPT ![t] = n]
    BY <1>3 DEF Touch
  <2>2. Clamped(o)
    BY <1>a, <1>1, <2>1, OrdersStay
  <2>3. held'[s] = held[s]
    BY <1>a, <1>b, <2>1 DEF TypeOK
  <2> QED
    BY <2>1, <2>2, <2>3
<1>4. ASSUME NEW r \in OrderIds, Fill(r)
      PROVE  Clamped(o)'
  <2>1. orders[r] \in Order /\ orders[r].filled < orders[r].qty
    BY <1>a, <1>4 DEF Fill, OrdersInv, OrderInv, TypeOK
  <2>2. /\ OrdersKept /\ orders[r] # NoOrder
        /\ orders'[r].filled = orders[r].filled + 1
        /\ \A q \in OrderIds \ {r} : orders'[q] = orders[q]
    BY <1>a, <1>4, <2>1, FillEffect
  <2>3. UNCHANGED touched
    BY <1>4 DEF Fill, history
  <2>4. orders[o] # NoOrder
    BY <2>2
  <2>5. Clamped(o)
    BY <1>1, <2>2, <2>3, <2>4
  <2>6. held' = [held EXCEPT ![orders[r].key.symbol] =
                    IF orders[r].key.side = "LONG" THEN held[orders[r].key.symbol] - 1
                    ELSE held[orders[r].key.symbol] + 1]
    BY <1>4 DEF Fill, Filled
  <2>7. orders[r].key.symbol \in Symbols /\ held[orders[r].key.symbol] \in Int
    BY <1>a, <2>1, BoundAssumption DEF TypeOK, Order, ExitKey
  <2>8. CASE r = o
    <3>1. /\ orders'[o].key = orders[o].key /\ orders'[o].qty = orders[o].qty
          /\ orders'[o].filled = orders[o].filled + 1
          /\ orders[o].qty \in Int /\ orders[o].filled \in Int
      BY <2>1, <2>2, <2>8, BoundAssumption DEF OrdersKept, Order
    <3>2. held'[s] = IF orders[o].key.side = "LONG" THEN held[s] - 1 ELSE held[s] + 1
      BY <1>a, <2>6, <2>7, <2>8, <3>1 DEF TypeOK
    <3> QED
      BY <2>5, <2>7, <2>8, <3>1, <3>2
  <2>9. CASE r # o
    <3>1. orders'[o] = orders[o]
      BY <2>2, <2>9
    <3>2. s # orders[r].key.symbol
      BY <2>2, <2>9 DEF ExitsOf, OrdersKept
    <3>3. held'[s] = held[s]
      BY <1>a, <1>b, <2>6, <2>7, <3>2 DEF TypeOK
    <3> QED
      BY <2>5, <3>1, <3>3
  <2> QED
    BY <2>8, <2>9
<1>5. ASSUME NEW r \in OrderIds, EndOrder(r)
      PROVE  Clamped(o)'
  <2>1. /\ OrdersKept /\ orders[r] # NoOrder /\ orders'[r].filled = orders[r].filled
        /\ \A q \in OrderIds \ {r} : orders'[q] = orders[q]
    BY <1>a, <1>5, EndEffect
  <2>2. UNCHANGED <<held, touched>>
    BY <1>5 DEF EndOrder, history
  <2>3. orders[o] # NoOrder
    BY <2>1
  <2>4. Clamped(o)
    BY <1>1, <2>1, <2>2, <2>3
  <2>5. /\ orders'[o].key = orders[o].key /\ orders'[o].qty = orders[o].qty
        /\ orders'[o].filled = orders[o].filled
    BY <2>1, <2>3 DEF OrdersKept
  <2> QED
    BY <2>2, <2>4, <2>5
<1>6. ASSUME NEW w \in Workers, Submit(w)
      PROVE  Clamped(o)'
  <2>1. /\ call[w].pc # "idle" /\ call[w].plan \in Plan /\ call[w].plan.qty > 0
        /\ UNCHANGED <<held, touched>>
    BY <1>6 DEF Submit, TypeInv, CallsInv, CallInv, InCall, Stage, history
  <2>2. ASSUME NEW r \in OrderIds, Accept(call[w].plan, r)
        PROVE  Clamped(o)'
    <3>1. /\ OrdersKept
          /\ orders[r] = NoOrder /\ orders'[r] # NoOrder
          /\ orders'[r].key = KeyOf(call[w].plan)
          /\ orders'[r].qty = call[w].plan.qty /\ orders'[r].filled = 0
          /\ \A q \in OrderIds \ {r} : orders'[q] = orders[q]
      BY <1>a, <2>1, <2>2, AcceptEffect
    <3>2. CASE r # o
      BY <1>1, <2>1, <3>1, <3>2
    <3>3. CASE r = o
      <4>1. s = SymbolOf[call[w].plan.pos]
        BY <3>1, <3>3 DEF KeyOf
      <4>2. ExitsOf(s) = {}
        BY <3>1, <3>3 DEF ExitsOf, OrdersKept
      <4>3. call[w].plan.qty <= Size(held[s])
        BY <1>a, <2>1, <4>1, <4>2 DEF PlansClamped, Quiet
      <4>4. held[s] \in Int /\ call[w].plan.qty \in Int
        BY <1>a, <1>b, <2>1, BoundAssumption DEF TypeOK, Plan
      <4> QED
        BY <2>1, <3>1, <3>3, <4>3, <4>4 DEF Size
    <3> QED
      BY <3>2, <3>3
  <2> QED
    BY <1>2, <1>6, <2>1, <2>2 DEF Submit
<1> QED
  BY <1>2, <1>3, <1>4, <1>5, <1>6
     DEF Next, vars, history, MonitorStep, ExitStep, OpenPosition, MonitorBegin, MonitorList,
         MonitorReconcile, MonitorApply, MonitorEvaluate, MonitorRaises, NewService,
         BuildExitPlan, ExecuteExit, CheckLocal, CheckProvider, Adopt, Record, Confirm, Fail

LEMMA HoldingInvariance == Spec => [](TypeInv /\ HoldingInv)
<1>1. TypeInv /\ HoldingInv /\ [Next]_vars => TypeInv' /\ HoldingInv'
  <2> SUFFICES ASSUME TypeInv, HoldingInv, [Next]_vars PROVE TypeInv' /\ HoldingInv'
    OBVIOUS
  <2>1. TypeInv'
    BY TypeStep
  <2> QED
    BY <2>1, PlansStep, ExitsStep, FlagsStep DEF HoldingInv
<1> QED
  BY TypeInit, HoldingInit, <1>1, PTL DEF Spec

(* A row is flagged only when it differed from what the broker held.       *)
THEOREM FlagsCaused == Spec => []FlagsHaveCause
<1>1. HoldingInv => FlagsHaveCause
  BY DEF HoldingInv, FlagsInv, Differs, Quiet, FlagsHaveCause
<1> QED
  BY HoldingInvariance, <1>1, PTL

(* The clamp of build_exit_plan keeps its promise although the order goes  *)
(* out later and stays open: alone in a symbol nobody else trades, an exit *)
(* never takes the holding through zero.                                   *)
THEOREM NeverReverses == Spec => OneExitNeverReverses
<1> DEFINE A == \A s \in Symbols :
                    /\ s \notin touched'
                    /\ \A o1, o2 \in ExitsOf(s) : o1 = o2
                    => /\ held[s] >= 0 => held'[s] >= 0
                       /\ held[s] <= 0 => held'[s] <= 0
<1>1. TypeInv /\ HoldingInv /\ [Next]_vars => [A]_vars
  <2> SUFFICES ASSUME TypeInv, HoldingInv, [Next]_vars, NEW s \in Symbols,
                      s \notin touched', \A o1, o2 \in ExitsOf(s) : o1 = o2
               PROVE  \/ UNCHANGED vars
                      \/ /\ held[s] >= 0 => held'[s] >= 0
                         /\ held[s] <= 0 => held'[s] <= 0
    OBVIOUS
  <2>a. held[s] \in Int /\ held \in [Symbols -> (-MaxHeld)..MaxHeld]
    BY BoundAssumption DEF TypeInv, TypeOK
  <2>1. CASE held'[s] = held[s]
    BY <2>a, <2>1
  <2>2. ASSUME NEW t \in Symbols, NEW n \in (-MaxHeld)..MaxHeld, Touch(t, n)
        PROVE  held'[s] = held[s]
    BY <2>a, <2>2 DEF Touch
  <2>3. ASSUME NEW o \in OrderIds, Fill(o)
        PROVE  /\ held[s] >= 0 => held'[s] >= 0
               /\ held[s] <= 0 => held'[s] <= 0
    <3>1. /\ orders[o] # NoOrder /\ orders[o] \in Order /\ orders[o].key.symbol \in Symbols
          /\ orders[o].qty \in Int /\ orders[o].filled \in Int
          /\ orders[o].filled < orders[o].qty
      BY <2>3, BoundAssumption
         DEF Fill, TypeInv, OrdersInv, OrderInv, TypeOK, Order, ExitKey
    <3>2. held' = [held EXCEPT ![orders[o].key.symbol] =
                      IF orders[o].key.side = "LONG" THEN held[orders[o].key.symbol] - 1
                      ELSE held[orders[o].key.symbol] + 1]
          /\ UNCHANGED touched
      BY <2>3 DEF Fill, Filled, history
    <3>3. CASE orders[o].key.symbol # s
      BY <2>a, <3>1, <3>2, <3>3
    <3>4. CASE orders[o].key.symbol = s
      <4>1. \A r \in ExitsOf(s) : r = o
        BY <3>1, <3>4 DEF ExitsOf
      <4>2. IF orders[o].key.side = "LONG"
            THEN held[s] < 0 \/ orders[o].qty - orders[o].filled <= held[s]
            ELSE held[s] > 0 \/ orders[o].qty - orders[o].filled <= -held[s]
        BY <3>1, <3>2, <3>4, <4>1 DEF HoldingInv, ExitsClamped
      <4>3. held'[s] = IF orders[o].key.side = "LONG" THEN held[s] - 1 ELSE held[s] + 1
        BY <2>a, <3>2, <3>4
      <4> QED
        BY <2>a, <3>1, <4>2, <4>3
    <3> QED
      BY <3>3, <3>4
  <2>4. CASE UNCHANGED held
    BY <2>1, <2>4
  <2> QED
    BY <2>1, <2>2, <2>3, <2>4
       DEF Next, vars, MonitorStep, ExitStep, OpenPosition, EndOrder, MonitorBegin, MonitorList,
           MonitorReconcile, MonitorApply, MonitorEvaluate, MonitorRaises, NewService,
           BuildExitPlan, ExecuteExit, CheckLocal, CheckProvider, Adopt, Record, Submit,
           Confirm, Fail
<1> QED
  BY HoldingInvariance, <1>1, PTL DEF Spec, OneExitNeverReverses

-----------------------------------------------------------------------------
(* Positions implements OrderLedger *)

LEMMA StateNone ==
    ASSUME NEW os, NEW k, \A o \in OrderIds : os[o] # NoOrder => os[o].key # k
    PROVE  LedgerState(os, k) = "none"
BY DEF LedgerState

LEMMA StateOne ==
    ASSUME NEW os, NEW k, NEW o \in OrderIds, os[o] # NoOrder, os[o].key = k,
           \A r \in OrderIds : os[r] # NoOrder /\ os[r].key = k => r = o
    PROVE  LedgerState(os, k) = IF os[o].open THEN "open" ELSE "closed"
<1>1. {r \in OrderIds : os[r] # NoOrder /\ os[r].key = k} = {o}
  OBVIOUS
<1> QED
  BY <1>1 DEF LedgerState

(* Only the order that changed can change the state of its identity. *)
LEMMA StateSame ==
    ASSUME NEW os, NEW pt, NEW k, NEW o \in OrderIds,
           \A r \in OrderIds \ {o} : os[r] = pt[r],
           os[o] # NoOrder => os[o].key # k, pt[o] # NoOrder => pt[o].key # k
    PROVE  LedgerState(os, k) = LedgerState(pt, k)
<1> DEFINE mine(f) == {r \in OrderIds : f[r] # NoOrder /\ f[r].key = k}
<1>1. mine(os) = mine(pt)
  OBVIOUS
<1>2. \A r \in mine(os) : os[r] = pt[r]
  OBVIOUS
<1>3. (\E r \in mine(os) : os[r].open) <=> (\E r \in mine(pt) : pt[r].open)
  BY <1>1, <1>2
<1>4. mine(os) = {} <=> mine(pt) = {}
  BY <1>1
<1> QED
  BY <1>3, <1>4, Zenon DEF LedgerState

(* The one order of an identity, before and after a step that changes only *)
(* that order.                                                             *)
LEMMA StateMoves ==
    ASSUME NEW o \in OrderIds, orders'[o] # NoOrder, NEW k \in ExitKey, orders'[o].key = k,
           orders[o] # NoOrder => orders[o].key = k,
           \A r \in OrderIds \ {o} : orders'[r] = orders[r],
           \A r \in OrderIds \ {o} : orders[r] # NoOrder => orders[r].key # k
    PROVE  /\ placed[k] = IF orders[o] = NoOrder THEN "none"
                          ELSE IF orders[o].open THEN "open" ELSE "closed"
           /\ placed' = [placed EXCEPT ![k] = IF orders'[o].open THEN "open" ELSE "closed"]
<1> DEFINE os == orders'
<1>1. os[o] # NoOrder /\ os[o].key = k /\ \A r \in OrderIds \ {o} : os[r] = orders[r]
  OBVIOUS
<1>2. placed' = [j \in ExitKey |-> LedgerState(os, j)]
  BY DEF placed
<1>3. os[o].open <=> orders'[o].open
  OBVIOUS
<1> HIDE DEF os
<1>4. LedgerState(os, k) = IF os[o].open THEN "open" ELSE "closed"
  BY <1>1, StateOne
<1>5. \A j \in ExitKey \ {k} : LedgerState(os, j) = LedgerState(orders, j)
  BY <1>1, StateSame
<1>6. LedgerState(orders, k) = IF orders[o] = NoOrder THEN "none"
                               ELSE IF orders[o].open THEN "open" ELSE "closed"
  <2>1. CASE orders[o] = NoOrder
    BY <2>1, StateNone
  <2>2. CASE orders[o] # NoOrder
    BY <2>2, StateOne
  <2> QED
    BY <2>1, <2>2
<1>7. placed' = [placed EXCEPT ![k] = IF os[o].open THEN "open" ELSE "closed"]
  BY <1>2, <1>4, <1>5, Zenon DEF placed
<1> QED
  BY <1>3, <1>6, <1>7 DEF placed

LEMMA LedgerStep ==
    ASSUME TypeInv, [Next]_vars
    PROVE  [Ledger!Next]_Ledger!ledgerVars
<1>a. TypeOK /\ OneOrder
  BY DEF TypeInv
<1> SUFFICES UNCHANGED <<requested, placed>> \/ Ledger!Next
  BY DEF Ledger!ledgerVars
<1>1. CASE UNCHANGED <<orders, requested>>
  BY <1>1 DEF placed
<1>2. ASSUME NEW w \in Workers, NEW dry \in BOOLEAN, NEW kill \in BOOLEAN,
             ExecuteExit(w, dry, kill)
      PROVE  UNCHANGED <<requested, placed>> \/ Ledger!Next
  <2>1. KeyOf(call[w].plan) \in ExitKey
    BY <1>2, KeyTyped DEF ExecuteExit, TypeInv, CallsInv, CallInv
  <2>2. requested' = requested \/ requested' = requested \cup {KeyOf(call[w].plan)}
    BY <1>2 DEF ExecuteExit
  <2>3. UNCHANGED placed
    BY <1>2 DEF ExecuteExit, placed
  <2> QED
    BY <2>1, <2>2, <2>3 DEF Ledger!Next, Ledger!Request
<1>3. ASSUME NEW o \in OrderIds, Fill(o) \/ EndOrder(o)
      PROVE  UNCHANGED <<requested, placed>> \/ Ledger!Next
  <2> DEFINE k == orders[o].key
  <2>1. orders[o] \in Order /\ orders[o].filled < orders[o].qty
    BY <1>a, <1>3 DEF Fill, EndOrder, TypeInv, OrdersInv, OrderInv, TypeOK
  <2>2. /\ OrdersKept /\ orders[o] # NoOrder /\ orders[o].open
        /\ \A r \in OrderIds \ {o} : orders'[r] = orders[r]
    BY <1>a, <1>3, <2>1, FillEffect, EndEffect
  <2>3. k \in ExitKey /\ orders'[o] # NoOrder /\ orders'[o].key = k
    BY <2>1, <2>2 DEF Order, OrdersKept
  <2>4. \A r \in OrderIds \ {o} : orders[r] # NoOrder => orders[r].key # k
    BY <1>a, <2>2 DEF OneOrder
  <2>5. UNCHANGED requested
    BY <1>3 DEF Fill, EndOrder, history
  <2> HIDE DEF k
  <2>6. /\ placed[k] = "open"
        /\ placed' = [placed EXCEPT ![k] = IF orders'[o].open THEN "open" ELSE "closed"]
    <3>1. orders[o].key = k
      BY DEF k
    <3> QED
      BY <2>2, <2>3, <2>4, <3>1, StateMoves
  <2>7. CASE orders'[o].open
    BY <2>5, <2>6, <2>7 DEF placed
  <2>8. CASE ~orders'[o].open
    BY <2>3, <2>5, <2>6, <2>8 DEF Ledger!Next, Ledger!Close
  <2> QED
    BY <2>7, <2>8
<1>4. ASSUME NEW w \in Workers, Submit(w)
      PROVE  UNCHANGED <<requested, placed>> \/ Ledger!Next
  <2> DEFINE k == KeyOf(call[w].plan)
  <2>1. /\ call[w].plan \in Plan /\ call[w].plan.qty > 0 /\ k \in requested
        /\ UNCHANGED requested
    BY <1>4 DEF Submit, TypeInv, CallsInv, CallInv, InCall, Stage, history
  <2>2. k \in ExitKey
    BY <2>1, KeyTyped
  <2>3. ASSUME NEW o \in OrderIds, Accept(call[w].plan, o)
        PROVE  Ledger!Next
    <3>1. /\ orders[o] = NoOrder /\ orders'[o] # NoOrder /\ orders'[o].key = k
          /\ \A r \in OrderIds \ {o} : orders'[r] = orders[r]
          /\ \A r \in OrderIds : orders[r] # NoOrder => orders[r].key # k
      BY <1>a, <2>1, <2>3, AcceptEffect
    <3> HIDE DEF k
    <3>2. /\ placed[k] = "none"
          /\ placed' = [placed EXCEPT ![k] = IF orders'[o].open THEN "open" ELSE "closed"]
      BY <2>2, <3>1, StateMoves
    <3>3. Ledger!Place(k)
      BY <2>1, <3>2 DEF Ledger!Place
    <3> QED
      BY <2>2, <3>3 DEF Ledger!Next
  <2> QED
    BY <1>1, <1>4, <2>1, <2>3 DEF Submit
<1> QED
  BY <1>1, <1>2, <1>3, <1>4
     DEF Next, vars, history, MonitorStep, ExitStep, OpenPosition, Touch, MonitorBegin,
         MonitorList, MonitorReconcile, MonitorApply, MonitorEvaluate, MonitorRaises,
         NewService, BuildExitPlan, CheckLocal, CheckProvider, Adopt, Record, Confirm, Fail

LEMMA LedgerInit == Init => Ledger!Init
<1> SUFFICES ASSUME Init PROVE Ledger!Init
  OBVIOUS
<1>1. \A k \in ExitKey : LedgerState(orders, k) = "none"
  BY StateNone DEF Init
<1> QED
  BY <1>1 DEF Init, Ledger!Init, placed

(* Exits keep the promise of OrderLedger, however many callers, retries,   *)
(* plans and lost execution stores there are.                              *)
THEOREM Refinement == Spec => ImplementsLedger
<1>1. TypeInv /\ [Next]_vars => [Ledger!Next]_Ledger!ledgerVars
  BY LedgerStep
<1> QED
  BY LedgerInit, TypeInvariance, <1>1, PTL DEF Spec, ImplementsLedger, Ledger!Spec
=============================================================================
