-------------------------- MODULE ExecutionProofs --------------------------
(***************************************************************************)
(* Proofs about Execution, for any number of keys, workers, order ids,     *)
(* polls, calls, reconciliation passes and crashes.                        *)
(***************************************************************************)
EXTENDS Execution, Integers, FiniteSetTheorems, TLAPS

-----------------------------------------------------------------------------
(* What the forms in which a call moves do to the record of the call. *)

LEMMA GotoEffect ==
    ASSUME call \in [Workers -> Call], NEW w \in Workers, NEW stage \in Stage, Goto(w, stage)
    PROVE  /\ call' \in [Workers -> Call]
           /\ \A v \in Workers \ {w} : call'[v] = call[v]
           /\ call'[w].pc = stage /\ call'[w].key = call[w].key
           /\ call'[w].oid = call[w].oid /\ call'[w].seen = call[w].seen
           /\ call'[w].dry = call[w].dry /\ call'[w].polls = call[w].polls
           /\ call'[w].out = call[w].out
BY DEF Goto, Call

LEMMA HoldEffect ==
    ASSUME call \in [Workers -> Call], NEW w \in Workers, NEW stage \in Stage,
           NEW o \in OrderIds, NEW status \in ProviderStatus, Hold(w, stage, o, status)
    PROVE  /\ call' \in [Workers -> Call]
           /\ \A v \in Workers \ {w} : call'[v] = call[v]
           /\ call'[w].pc = stage /\ call'[w].key = call[w].key
           /\ call'[w].oid = o /\ call'[w].seen = status
           /\ call'[w].dry = call[w].dry /\ call'[w].polls = call[w].polls
           /\ call'[w].out = call[w].out
BY DEF Hold, Call, RowStatus

LEMMA NextRoundEffect ==
    ASSUME call \in [Workers -> Call], NEW w \in Workers, call[w].polls < MaxPolls,
           NextRound(w)
    PROVE  /\ call' \in [Workers -> Call]
           /\ \A v \in Workers \ {w} : call'[v] = call[v]
           /\ call'[w].pc = "poll" /\ call'[w].key = call[w].key
           /\ call'[w].oid = call[w].oid /\ call'[w].seen = call[w].seen
           /\ call'[w].dry = call[w].dry /\ call'[w].out = call[w].out
<1> DEFINE round == call[w].polls + 1
           c == [call[w] EXCEPT !.pc = "poll", !.polls = round]
<1>1. round \in 0..MaxPolls
  BY BoundAssumption DEF Call
<1>2. call' = [call EXCEPT ![w] = c]
  BY DEF NextRound
<1> HIDE DEF round
<1>3. /\ c \in Call /\ c.pc = "poll" /\ c.key = call[w].key /\ c.oid = call[w].oid
      /\ c.seen = call[w].seen /\ c.dry = call[w].dry /\ c.out = call[w].out
  BY <1>1 DEF Call, Stage
<1> HIDE DEF c
<1> QED
  BY <1>2, <1>3

LEMMA ReturnEffect ==
    ASSUME call \in [Workers -> Call], NEW w \in Workers,
           NEW out \in Outcome, NEW oid \in OrderIds \cup {NoId}, NEW status \in RowStatus,
           Return(w, out, oid, status)
    PROVE  /\ call' \in [Workers -> Call]
           /\ \A v \in Workers \ {w} : call'[v] = call[v]
           /\ call'[w].pc = "idle" /\ call'[w].key = call[w].key
           /\ call'[w].oid = oid /\ call'[w].seen = status
           /\ call'[w].dry = call[w].dry /\ call'[w].out = out
<1>1. 0 \in 0..MaxPolls
  BY BoundAssumption
<1>2. call[w] \in Call /\ "idle" \in Stage
  BY DEF Stage
<1> DEFINE next == [call[w] EXCEPT !.pc = "idle", !.out = out, !.oid = oid,
                                   !.seen = status, !.polls = 0]
<1>3. /\ next \in Call /\ next.pc = "idle" /\ next.key = call[w].key /\ next.oid = oid
      /\ next.seen = status /\ next.dry = call[w].dry /\ next.out = out
  BY <1>1, <1>2 DEF Call
<1>4. call' = [call EXCEPT ![w] = next]
  BY DEF Return
<1> HIDE DEF next
<1> QED
  BY <1>3, <1>4

LEMMA IdleTyped == IdleCall \in Call /\ IdleRecon \in Recon
<1>1. 0 \in 0..MaxPolls
  BY BoundAssumption
<1>2. AnyKey \in Keys
  BY BoundAssumption DEF AnyKey
<1> QED
  BY <1>1, <1>2 DEF IdleCall, Call, IdleRecon, Recon, Stage, Outcome, RowStatus

LEMMA ExecuteEffect ==
    ASSUME call \in [Workers -> Call], NEW w \in Workers, NEW k \in Keys,
           NEW dry \in BOOLEAN, NEW track \in BOOLEAN, Execute(w, k, dry, track)
    PROVE  /\ call' \in [Workers -> Call]
           /\ \A v \in Workers \ {w} : call'[v] = call[v]
           /\ call'[w].key = k /\ call'[w].oid = NoId /\ call'[w].dry = dry
           /\ \/ call'[w].pc = "idle" /\ call'[w].out \in {"RAISED", "NOT_EXECUTED"}
              \/ call'[w].pc = "local" /\ requested' = IF dry THEN requested
                                                       ELSE requested \cup {k}
<1>1. 0 \in 0..MaxPolls
  BY BoundAssumption
<1>2. ASSUME NEW out \in {"RAISED", "NOT_EXECUTED"},
             call' = [call EXCEPT ![w] = [IdleCall EXCEPT !.key = k, !.dry = dry,
                                                          !.out = out]]
      PROVE  /\ call' \in [Workers -> Call]
             /\ \A v \in Workers \ {w} : call'[v] = call[v]
             /\ call'[w].key = k /\ call'[w].oid = NoId /\ call'[w].dry = dry
             /\ call'[w].pc = "idle" /\ call'[w].out = out
  BY <1>1, <1>2 DEF IdleCall, Call, Stage, Outcome, RowStatus
<1>3. ASSUME call' = [call EXCEPT ![w] = [IdleCall EXCEPT !.key = k, !.dry = dry,
                                            !.track = track, !.pc = "local"]]
      PROVE  /\ call' \in [Workers -> Call]
             /\ \A v \in Workers \ {w} : call'[v] = call[v]
             /\ call'[w].key = k /\ call'[w].oid = NoId /\ call'[w].dry = dry
             /\ call'[w].pc = "local"
  BY <1>1, <1>3 DEF IdleCall, Call, Stage, Outcome, RowStatus
<1> QED
  BY <1>2, <1>3 DEF Execute

(* The broker keeps what it has: an order stays known under its key and    *)
(* client order id, and a final status is final.                           *)
OrdersKept ==
    /\ orders' \in [OrderIds -> Order \cup {NoOrder}]
    /\ \A o \in OrderIds : orders[o] # NoOrder =>
          /\ orders'[o] # NoOrder
          /\ orders'[o].key = orders[o].key /\ orders'[o].cid = orders[o].cid
          /\ orders[o].status \in ClosedStatus => orders'[o].status = orders[o].status

LEMMA AcceptEffect ==
    ASSUME TypeOK, NEW r \in [cid : Keys, key : Keys], NEW o \in OrderIds,
           NEW s \in ProviderStatus, Accept(r, o, s)
    PROVE  /\ OrdersKept
           /\ orders[o] = NoOrder /\ orders'[o] # NoOrder
           /\ orders'[o].key = r.key /\ orders'[o].cid = r.cid
           /\ orders'[o].status = s
           /\ \A p \in OrderIds \ {o} : orders'[p] = orders[p]
           /\ \A p \in OrderIds : orders[p] # NoOrder => orders[p].cid # r.cid
<1>1. [cid |-> r.cid, key |-> r.key, status |-> s] \in Order
  BY DEF Order
<1>2. [cid |-> r.cid, key |-> r.key, status |-> s] # NoOrder
  BY <1>1, SentinelAssumption
<1> QED
  BY <1>1, <1>2 DEF Accept, OrdersKept, OrdersWith, TypeOK

LEMMA ProgressEffect ==
    ASSUME TypeOK, NEW o \in OrderIds, BrokerProgress(o)
    PROVE  OrdersKept
<1>1. PICK s \in ProviderStatus : orders' = [orders EXCEPT ![o].status = s]
  BY DEF BrokerProgress
<1>2. orders[o] \in Order /\ orders[o].status \in OpenStatus
  BY DEF BrokerProgress, TypeOK, IsActive
<1>3. [orders[o] EXCEPT !.status = s] \in Order
  BY <1>2 DEF Order
<1>4. [orders[o] EXCEPT !.status = s] # NoOrder
  BY <1>3, SentinelAssumption
<1>5. orders[o].status \notin ClosedStatus
  BY <1>2 DEF OpenStatus, ClosedStatus
<1>6. /\ [orders[o] EXCEPT !.status = s].key = orders[o].key
      /\ [orders[o] EXCEPT !.status = s].cid = orders[o].cid
  BY <1>2 DEF Order
<1> QED
  BY <1>1, <1>3, <1>4, <1>5, <1>6 DEF OrdersKept, TypeOK

LEMMA OrdersStay == ASSUME TypeOK, UNCHANGED orders PROVE OrdersKept
BY DEF OrdersKept, TypeOK

(* What the store's statements do to the row of a key, and to no other.    *)
StoreTyped == store \in [Keys -> Row \cup {NoRow}]
OtherRowsStay(k) == \A j \in Keys \ {k} : store'[j] = store[j]

LEMMA UpsertEffect ==
    ASSUME StoreTyped, NEW k \in Keys, NEW form \in {"plan", "adopted"},
           NEW pid \in OrderIds \cup {NoId}, NEW status \in RowStatus,
           Upsert(k, form, pid, status)
    PROVE  /\ StoreTyped' /\ OtherRowsStay(k)
           /\ store'[k] # NoRow
           /\ store'[k].pid = pid /\ store'[k].status = status
<1>1. [form |-> form, pid |-> pid, status |-> status, fresh |-> TRUE] \in Row
  BY DEF Row
<1>2. [form |-> form, pid |-> pid, status |-> status, fresh |-> TRUE] # NoRow
  BY <1>1, SentinelAssumption
<1> QED
  BY <1>1, <1>2 DEF StoreTyped, OtherRowsStay, Upsert

LEMMA UpdateProviderInfoEffect ==
    ASSUME StoreTyped, NEW k \in Keys, NEW forms, NEW o \in OrderIds,
           NEW status \in RowStatus, UpdateProviderInfo(k, forms, o, status)
    PROVE  /\ StoreTyped' /\ OtherRowsStay(k)
           /\ store[k] = NoRow <=> store'[k] = NoRow
           /\ \/ store'[k] = store[k]
              \/ store'[k].pid = o /\ store'[k].status = status
<1> DEFINE row == [form |-> store[k].form, pid |-> o, status |-> status, fresh |-> TRUE]
<1>1. CASE store[k] # NoRow /\ store[k].form \in forms
  <2>1. row \in Row
    BY <1>1 DEF StoreTyped, Row
  <2>2. row # NoRow
    BY <2>1, SentinelAssumption
  <2>3. store' = [store EXCEPT ![k] = row]
    BY <1>1 DEF UpdateProviderInfo, StoreTyped
  <2>4. row.pid = o /\ row.status = status
    OBVIOUS
  <2> QED
    BY <1>1, <2>1, <2>2, <2>3, <2>4 DEF StoreTyped, OtherRowsStay
<1>2. CASE ~(store[k] # NoRow /\ store[k].form \in forms)
  BY <1>2 DEF UpdateProviderInfo, StoreTyped, OtherRowsStay
<1> QED
  BY <1>1, <1>2

LEMMA UpdateStatusEffect ==
    ASSUME StoreTyped, NEW k \in Keys, NEW forms, NEW status \in RowStatus,
           UpdateStatus(k, forms, status)
    PROVE  /\ StoreTyped' /\ OtherRowsStay(k)
           /\ store[k] = NoRow <=> store'[k] = NoRow
           /\ \/ store'[k] = store[k]
              \/ store'[k].pid = store[k].pid /\ store'[k].status = status
<1> DEFINE row == [form |-> store[k].form, pid |-> store[k].pid, status |-> status,
                   fresh |-> TRUE]
<1>1. CASE store[k] # NoRow /\ store[k].form \in forms
  <2>1. row \in Row
    BY <1>1 DEF StoreTyped, Row
  <2>2. row # NoRow
    BY <2>1, SentinelAssumption
  <2>3. store' = [store EXCEPT ![k] = row]
    BY <1>1 DEF UpdateStatus, StoreTyped
  <2>4. row.pid = store[k].pid /\ row.status = status
    OBVIOUS
  <2> QED
    BY <1>1, <2>1, <2>2, <2>3, <2>4 DEF StoreTyped, OtherRowsStay
<1>2. CASE ~(store[k] # NoRow /\ store[k].form \in forms)
  BY <1>2 DEF UpdateStatus, StoreTyped, OtherRowsStay
<1> QED
  BY <1>1, <1>2

LEMMA WindowEffect ==
    ASSUME StoreTyped, WindowPasses
    PROVE  /\ StoreTyped'
           /\ \A k \in Keys : store[k] = NoRow <=> store'[k] = NoRow
           /\ \A k \in Keys : store[k] # NoRow => store'[k].pid = store[k].pid
           /\ \A k \in Keys : store[k] # NoRow => store'[k].status = store[k].status
<1> DEFINE row(k) == [form |-> store[k].form, pid |-> store[k].pid,
                      status |-> store[k].status, fresh |-> FALSE]
<1>1. store' = [k \in Keys |-> IF store[k] = NoRow THEN NoRow ELSE row(k)]
  BY DEF WindowPasses
<1>2. ASSUME NEW k \in Keys, store[k] # NoRow
      PROVE  row(k) \in Row /\ row(k) # NoRow
  <2>1. row(k) \in Row
    BY <1>2 DEF StoreTyped, Row
  <2> QED
    BY <2>1, SentinelAssumption
<1>3. \A k \in Keys : row(k).pid = store[k].pid /\ row(k).status = store[k].status
  OBVIOUS
<1> HIDE DEF row
<1> QED
  BY <1>1, <1>2, <1>3 DEF StoreTyped

(* What a reconciliation pass does to its state. *)
IdFromRow(j) == store[j] # NoRow /\ recon'.ids[j] = store[j].pid

LEMMA ReconBegins ==
    ASSUME TypeOK, ReconcilePending \/ ReconcileActive \/ \E k \in Keys : ReconcileSpecific(k)
    PROVE  /\ recon' \in Recon /\ recon'.pc # "write"
           /\ \A j \in Keys : recon'.ids[j] \in {NoId, recon.ids[j]} \/ IdFromRow(j)
<1> USE DEF TypeOK, Recon
<1>1. CASE ReconcilePending
  <2>1. {"pending"} \X PendingRows \subseteq Entries
    BY DEF PendingRows, Entries
  <2> QED
    BY <1>1, <2>1 DEF ReconcilePending
<1>2. CASE ReconcileActive
  <2> DEFINE ids == [k \in Keys |-> IF k \in ActiveRows THEN store[k].pid ELSE NoId]
  <2>1. {"active"} \X ActiveRows \subseteq Entries
    BY DEF ActiveRows, Entries
  <2>2. \A k \in ActiveRows : store[k] # NoRow /\ store[k].pid \in OrderIds \cup {NoId}
    BY DEF ActiveRows, Row
  <2>3. ids \in [Keys -> OrderIds \cup {NoId}]
    BY <2>2
  <2>4. \A j \in Keys : ids[j] = NoId \/ (store[j] # NoRow /\ ids[j] = store[j].pid)
    BY <2>2
  <2>5. recon' = [recon EXCEPT !.pc = "lookup", !.todo = recon.todo \cup ({"active"} \X ActiveRows),
                               !.ids = ids]
    BY <1>2 DEF ReconcileActive
  <2> HIDE DEF ids
  <2> QED
    BY <2>1, <2>3, <2>4, <2>5 DEF IdFromRow
<1>3. ASSUME NEW k \in Keys, ReconcileSpecific(k)
      PROVE  /\ recon' \in Recon /\ recon'.pc # "write"
             /\ \A j \in Keys : recon'.ids[j] \in {NoId, recon.ids[j]} \/ IdFromRow(j)
  <2> DEFINE ids == [recon.ids EXCEPT ![k] = store[k].pid]
  <2>1. store[k] # NoRow /\ store[k].pid \in OrderIds \cup {NoId}
    BY <1>3 DEF ReconcileSpecific, Row
  <2>2. ids \in [Keys -> OrderIds \cup {NoId}] /\ ids[k] = store[k].pid
    BY <2>1
  <2>3. \A j \in Keys \ {k} : ids[j] = recon.ids[j]
    OBVIOUS
  <2>4. recon' = [recon EXCEPT !.pc = "lookup", !.todo = {<<"active", k>>}, !.ids = ids]
    BY <1>3 DEF ReconcileSpecific
  <2>5. {<<"active", k>>} \subseteq Entries
    BY DEF Entries
  <2> HIDE DEF ids
  <2> QED
    BY <2>1, <2>2, <2>3, <2>4, <2>5 DEF IdFromRow
<1> QED
  BY <1>1, <1>2, <1>3

LEMMA LookupEffect ==
    ASSUME TypeOK, NEW list \in {"pending", "active"}, NEW k \in Keys, ReconcileLookup(list, k)
    PROVE  /\ recon' \in Recon
           /\ recon'.pc = "write" /\ recon'.key = k /\ recon'.ids = recon.ids
           /\ \/ /\ recon'.oid \in OrderIds /\ orders[recon'.oid] # NoOrder
                 /\ recon'.seen \in ProviderStatus
                 /\ recon'.oid = recon.ids[k] \/ orders[recon'.oid].cid = ClientOrderId(k)
              \/ recon'.oid = NoId
<1> USE DEF TypeOK, Recon, RowStatus
<1>1. Remaining(list, k) \subseteq Entries
  BY DEF Remaining
<1>2. CASE recon' = [recon EXCEPT !.pc = "write", !.todo = Remaining(list, k), !.key = k,
                                  !.oid = NoId, !.seen = "NULL"]
  BY <1>1, <1>2
<1>3. ASSUME NEW o \in OrderIds, orders[o] # NoOrder,
             o = recon.ids[k] \/ orders[o].cid = ClientOrderId(k),
             recon' = [recon EXCEPT !.pc = "write", !.todo = Remaining(list, k), !.key = k,
                                    !.oid = o, !.seen = orders[o].status]
      PROVE  /\ recon' \in Recon
             /\ recon'.pc = "write" /\ recon'.key = k /\ recon'.ids = recon.ids
             /\ recon'.oid = o /\ recon'.seen \in ProviderStatus
  <2>1. orders[o].status \in ProviderStatus
    BY <1>3 DEF Order
  <2> QED
    BY <1>1, <1>3, <2>1
<1> QED
  BY <1>2, <1>3 DEF ReconcileLookup

LEMMA ReconEnds ==
    ASSUME TypeOK, ReconcileWrite \/ ReconcileRaises \/ ReconcileDone \/ Crash
    PROVE  /\ recon' \in Recon /\ recon'.pc # "write"
           /\ \A j \in Keys : recon'.ids[j] \in {NoId, recon.ids[j]}
<1>1. CASE ReconcileWrite
  BY <1>1, IdleTyped DEF ReconcileWrite, TypeOK, Recon, IdleRecon, RowStatus
<1>2. CASE ReconcileRaises \/ ReconcileDone \/ Crash
  <2>1. recon' = IdleRecon
    BY <1>2 DEF ReconcileRaises, ReconcileDone, Crash
  <2> QED
    BY <2>1, IdleTyped DEF IdleRecon
<1> QED
  BY <1>1, <1>2

-----------------------------------------------------------------------------
(* Type correctness. *)

(* A call that has an order in hand has one the broker knows; the          *)
(* reconciler's came from the broker, too.                                 *)
Holding == {"adopt", "confirm", "poll", "write"}

InHand(w) ==
    /\ call[w].pc \in Holding => /\ call[w].oid # NoId
                                 /\ orders[call[w].oid] # NoOrder
                                 /\ call[w].seen \in ProviderStatus
    /\ call[w].pc = "write" => call[w].polls < MaxPolls

ReconInHand == recon.pc = "write" /\ recon.oid # NoId => recon.seen \in ProviderStatus

TypeInv == TypeOK /\ (\A w \in Workers : InHand(w)) /\ ReconInHand

LEMMA TypeInit == Init => TypeInv
<1> SUFFICES ASSUME Init PROVE TypeInv
  OBVIOUS
<1> USE DEF Init
<1>1. TypeOK
  BY IdleTyped, BoundAssumption DEF TypeOK
<1>2. (\A w \in Workers : InHand(w)) /\ ReconInHand
  BY DEF InHand, ReconInHand, IdleCall, IdleRecon, Holding
<1> QED
  BY <1>1, <1>2 DEF TypeInv

LEMMA NormalizedOutcome == \A s \in RowStatus : Normalized(s) \in Outcome
BY DEF Normalized, Outcome

(* A step of a call that leaves the reconciler and the bounds alone. *)
LEMMA WorkerTyped ==
    ASSUME TypeInv, NEW w \in Workers, OrdersKept, StoreTyped',
           inflight' \subseteq [cid : Keys, key : Keys],
           call' \in [Workers -> Call], \A v \in Workers \ {w} : call'[v] = call[v],
           InHand(w)', UNCHANGED <<recon, requested, bounds>>
    PROVE  TypeInv'
<1>1. TypeOK'
  BY DEF TypeInv, TypeOK, OrdersKept, StoreTyped, bounds
<1>2. ASSUME NEW v \in Workers PROVE InHand(v)'
  BY <1>2 DEF TypeInv, TypeOK, InHand, OrdersKept, Call
<1>3. ReconInHand'
  BY DEF TypeInv, ReconInHand
<1> QED
  BY <1>1, <1>2, <1>3 DEF TypeInv
LEMMA TypeStep ==
    ASSUME TypeInv, [Next]_vars
    PROVE  TypeInv'
<1> USE DEF TypeInv
<1>a. StoreTyped /\ call \in [Workers -> Call] /\ inflight \subseteq [cid : Keys, key : Keys]
  BY DEF StoreTyped, TypeOK
<1>b. UNCHANGED orders => OrdersKept
  BY OrdersStay
<1>c. UNCHANGED store => StoreTyped'
  BY <1>a DEF StoreTyped
<1>1. ASSUME NEW w \in Workers, NEW k \in Keys, NEW dry \in BOOLEAN, NEW track \in BOOLEAN,
             Execute(w, k, dry, track)
      PROVE  TypeInv'
  <2>1. InHand(w)'
    BY <1>1, <1>a, ExecuteEffect DEF InHand, Holding
  <2>2. call' \in [Workers -> Call] /\ \A v \in Workers \ {w} : call'[v] = call[v]
    BY <1>1, <1>a, ExecuteEffect
  <2>3. calls' \in 0..MaxCalls /\ requested' \subseteq Keys
    BY <1>1, BoundAssumption DEF Execute, TypeOK
  <2>4. TypeOK'
    BY <1>1, <2>2, <2>3 DEF Execute, TypeOK
  <2>5. \A v \in Workers : InHand(v)'
    BY <1>1, <2>1, <2>2 DEF InHand, Execute
  <2> QED
    BY <1>1, <2>4, <2>5 DEF Execute, ReconInHand
<1>2. ASSUME NEW w \in Workers, CheckLocal(w)
      PROVE  TypeInv'
  <2>1. /\ "RAISED" \in Outcome /\ "DUPLICATE" \in Outcome /\ "NULL" \in RowStatus
        /\ "provider" \in Stage
    BY DEF Outcome, RowStatus, Stage
  <2>2. CASE Goto(w, "provider")
    BY <1>2, <1>a, <1>b, <1>c, <2>1, <2>2, GotoEffect, WorkerTyped
       DEF CheckLocal, InHand, Holding
  <2>3. CASE Return(w, "RAISED", NoId, "NULL")
    BY <1>2, <1>a, <1>b, <1>c, <2>1, <2>3, ReturnEffect, WorkerTyped
       DEF CheckLocal, InHand, Holding
  <2>4. ASSUME Submitted(call[w].key), Return(w, "DUPLICATE", store[call[w].key].pid, "NULL")
        PROVE  TypeInv'
    <3>1. store[call[w].key].pid \in OrderIds \cup {NoId}
      BY <1>a, <2>4 DEF StoreTyped, Call, Row, Submitted
    <3> QED
      BY <1>2, <1>a, <1>b, <1>c, <2>1, <2>4, <3>1, ReturnEffect, WorkerTyped
         DEF CheckLocal, InHand, Holding
  <2> QED
    BY <1>2, <2>2, <2>3, <2>4 DEF CheckLocal
<1>3. ASSUME NEW w \in Workers, CheckProvider(w)
      PROVE  TypeInv'
  <2>1. /\ "RAISED" \in Outcome /\ "AUTHORIZED" \in Outcome /\ "NULL" \in RowStatus
        /\ "adopt" \in Stage /\ "record" \in Stage
    BY DEF Outcome, RowStatus, Stage
  <2>2. CASE Goto(w, "record")
    BY <1>3, <1>a, <1>b, <1>c, <2>1, <2>2, GotoEffect, WorkerTyped
       DEF CheckProvider, InHand, Holding
  <2>3. CASE Return(w, "RAISED", NoId, "NULL") \/ Return(w, "AUTHORIZED", NoId, "NULL")
    BY <1>3, <1>a, <1>b, <1>c, <2>1, <2>3, ReturnEffect, WorkerTyped
       DEF CheckProvider, InHand, Holding
  <2>4. ASSUME NEW o \in OrdersWith(ClientOrderId(call[w].key)),
               Hold(w, "adopt", o, orders[o].status)
        PROVE  TypeInv'
    <3>1. o \in OrderIds /\ orders[o] # NoOrder /\ orders[o].status \in ProviderStatus
      BY DEF OrdersWith, TypeOK, Order
    <3>2. o # NoId
      BY <3>1, SentinelAssumption
    <3> QED
      BY <1>3, <1>a, <1>b, <1>c, <2>1, <2>4, <3>1, <3>2, HoldEffect, WorkerTyped
         DEF CheckProvider, InHand, Holding
  <2> QED
    BY <1>3, <2>2, <2>3, <2>4 DEF CheckProvider
<1>4. ASSUME NEW w \in Workers, Adopt(w)
      PROVE  TypeInv'
  <2>1. /\ "RAISED" \in Outcome /\ "DUPLICATE" \in Outcome /\ "NULL" \in RowStatus
        /\ call[w] \in Call /\ call[w].seen \in RowStatus
    BY <1>a DEF Outcome, RowStatus, Call
  <2>2. CASE Return(w, "RAISED", NoId, "NULL") /\ UNCHANGED store
    BY <1>4, <1>a, <1>b, <1>c, <2>1, <2>2, ReturnEffect, WorkerTyped
       DEF Adopt, InHand, Holding
  <2>3. CASE /\ Upsert(call[w].key, "adopted", call[w].oid, call[w].seen)
             /\ Return(w, "DUPLICATE", call[w].oid, call[w].seen)
    <3>1. call[w].key \in Keys /\ call[w].oid \in OrderIds \cup {NoId}
      BY <2>1 DEF Call
    <3>2. StoreTyped'
      BY <1>a, <2>1, <2>3, <3>1, UpsertEffect
    <3> QED
      BY <1>4, <1>a, <1>b, <2>1, <2>3, <3>1, <3>2, ReturnEffect, WorkerTyped
         DEF Adopt, InHand, Holding
  <2> QED
    BY <1>4, <2>2, <2>3 DEF Adopt
<1>5. ASSUME NEW w \in Workers, Record(w)
      PROVE  TypeInv'
  <2>1. /\ "RAISED" \in Outcome /\ "NULL" \in RowStatus /\ "submit" \in Stage
        /\ call[w].key \in Keys
    BY <1>a DEF Outcome, RowStatus, Stage, Call
  <2>2. CASE Return(w, "RAISED", NoId, "NULL") /\ UNCHANGED store
    BY <1>5, <1>a, <1>b, <1>c, <2>1, <2>2, ReturnEffect, WorkerTyped
       DEF Record, InHand, Holding
  <2>3. CASE Upsert(call[w].key, "plan", NoId, "NULL") /\ Goto(w, "submit")
    <3>1. StoreTyped'
      BY <1>a, <2>1, <2>3, UpsertEffect
    <3> QED
      BY <1>5, <1>a, <1>b, <2>1, <2>3, <3>1, GotoEffect, WorkerTyped
         DEF Record, InHand, Holding
  <2> QED
    BY <1>5, <2>2, <2>3 DEF Record
<1>6. ASSUME NEW w \in Workers, Submit(w)
      PROVE  TypeInv'
  <2> DEFINE r == [cid |-> ClientOrderId(call[w].key), key |-> call[w].key]
  <2>1. r \in [cid : Keys, key : Keys] /\ "confirm" \in Stage /\ "fail" \in Stage
    BY <1>a DEF Call, ClientOrderId, Stage
  <2> HIDE DEF r
  <2>2. ASSUME NEW o \in OrderIds, NEW s \in ProviderStatus,
               Accept(r, o, s), Hold(w, "confirm", o, s), UNCHANGED inflight
        PROVE  TypeInv'
    <3>1. OrdersKept /\ orders'[o] # NoOrder
      BY <2>1, <2>2, AcceptEffect
    <3>2. o # NoId
      BY SentinelAssumption
    <3> QED
      BY <1>6, <1>a, <1>c, <2>1, <2>2, <3>1, <3>2, HoldEffect, WorkerTyped
         DEF Submit, InHand, Holding
  <2>3. CASE /\ Goto(w, "fail")
             /\ inflight' \in {inflight, inflight \cup {r}}
             /\ UNCHANGED orders
    BY <1>6, <1>a, <1>b, <1>c, <2>1, <2>3, GotoEffect, WorkerTyped
       DEF Submit, InHand, Holding
  <2> QED
    BY <1>6, <2>2, <2>3 DEF Submit, r
<1>7. ASSUME NEW w \in Workers, Confirm(w)
      PROVE  TypeInv'
  <2>1. /\ "fail" \in Stage /\ "poll" \in Stage /\ call[w] \in Call
        /\ call[w].seen \in ProviderStatus /\ call[w].oid \in OrderIds
        /\ call[w].seen \in RowStatus /\ Normalized(call[w].seen) \in Outcome
    BY <1>7, <1>a, NormalizedOutcome DEF Confirm, At, InHand, Holding, Stage, Call, RowStatus
  <2>2. CASE Goto(w, "fail") /\ UNCHANGED store
    BY <1>7, <1>a, <1>b, <1>c, <2>1, <2>2, GotoEffect, WorkerTyped
       DEF Confirm, InHand, Holding
  <2>3. ASSUME UpdateProviderInfo(call[w].key, {"plan"}, call[w].oid, call[w].seen)
        PROVE  StoreTyped'
    <3>1. call[w].key \in Keys
      BY <2>1 DEF Call
    <3> QED
      BY <1>a, <2>1, <2>3, <3>1, UpdateProviderInfoEffect
  <2>4. CASE StoreTyped' /\ Goto(w, "poll")
    BY <1>7, <1>a, <1>b, <2>1, <2>4, GotoEffect, WorkerTyped
       DEF Confirm, InHand, Holding, At
  <2>5. CASE StoreTyped' /\ Return(w, Normalized(call[w].seen), call[w].oid, call[w].seen)
    BY <1>7, <1>a, <1>b, <2>1, <2>5, ReturnEffect, WorkerTyped
       DEF Confirm, InHand, Holding
  <2> QED
    BY <1>7, <2>2, <2>3, <2>4, <2>5 DEF Confirm
<1>8. ASSUME NEW w \in Workers, Fail(w)
      PROVE  TypeInv'
  <2>1. /\ "RAISED" \in Outcome /\ "FAILED" \in Outcome /\ "NULL" \in RowStatus
        /\ "FAILED" \in RowStatus /\ call[w].key \in Keys
    BY <1>a DEF Outcome, RowStatus, Call
  <2>2. StoreTyped'
    BY <1>8, <1>a, <1>c, <2>1, UpdateStatusEffect DEF Fail
  <2> QED
    BY <1>8, <1>a, <1>b, <2>1, <2>2, ReturnEffect, WorkerTyped DEF Fail, InHand, Holding
<1>9. ASSUME NEW w \in Workers, PollRead(w)
      PROVE  TypeInv'
  <2> DEFINE now == orders[call[w].oid].status
  <2>1. /\ call[w].pc = "poll" /\ call[w].oid \in OrderIds /\ call[w].oid # NoId
        /\ orders[call[w].oid] # NoOrder /\ call[w].seen \in ProviderStatus
        /\ call[w].polls < MaxPolls
    BY <1>9, <1>a DEF PollRead, At, InHand, Holding, Call
  <2>2. now \in ProviderStatus /\ now \in RowStatus /\ Normalized(now) \in Outcome
    BY <2>1, NormalizedOutcome DEF TypeOK, Order, RowStatus
  <2>3. "write" \in Stage
    BY DEF Stage
  <2> HIDE DEF now
  <2>4. CASE NextRound(w)
    BY <1>9, <1>a, <1>b, <1>c, <2>1, <2>4, NextRoundEffect, WorkerTyped
       DEF PollRead, InHand, Holding
  <2>5. CASE Hold(w, "write", call[w].oid, now)
    BY <1>9, <1>a, <1>b, <1>c, <2>1, <2>2, <2>3, <2>5, HoldEffect, WorkerTyped
       DEF PollRead, InHand, Holding
  <2>6. CASE Return(w, Normalized(now), call[w].oid, now)
    BY <1>9, <1>a, <1>b, <1>c, <2>1, <2>2, <2>6, ReturnEffect, WorkerTyped
       DEF PollRead, InHand, Holding
  <2> QED
    BY <1>9, <2>4, <2>5, <2>6 DEF PollRead, now
<1>10. ASSUME NEW w \in Workers, PollWrite(w)
       PROVE  TypeInv'
  <2>1. /\ call[w].pc = "write" /\ call[w].oid \in OrderIds /\ call[w].oid # NoId
        /\ call[w].key \in Keys
        /\ orders[call[w].oid] # NoOrder /\ call[w].seen \in ProviderStatus
        /\ call[w].polls < MaxPolls
        /\ call[w].seen \in RowStatus /\ Normalized(call[w].seen) \in Outcome
    BY <1>10, <1>a, NormalizedOutcome DEF PollWrite, At, InHand, Holding, Call, RowStatus
  <2>2. StoreTyped'
    BY <1>10, <1>a, <1>c, <2>1, UpdateStatusEffect DEF PollWrite
  <2>3. CASE NextRound(w)
    BY <1>10, <1>a, <1>b, <2>1, <2>2, <2>3, NextRoundEffect, WorkerTyped
       DEF PollWrite, InHand, Holding
  <2>4. CASE Return(w, Normalized(call[w].seen), call[w].oid, call[w].seen)
    BY <1>10, <1>a, <1>b, <2>1, <2>2, <2>4, ReturnEffect, WorkerTyped
       DEF PollWrite, InHand, Holding
  <2> QED
    BY <1>10, <2>3, <2>4 DEF PollWrite
<1>11. ASSUME NEW w \in Workers, PollTimeout(w)
       PROVE  TypeInv'
  <2>1. /\ call[w].oid \in OrderIds \cup {NoId} /\ call[w].seen \in RowStatus
        /\ Normalized(call[w].seen) \in Outcome
    BY <1>a, NormalizedOutcome DEF Call
  <2> QED
    BY <1>11, <1>a, <1>b, <1>c, <2>1, ReturnEffect, WorkerTyped
       DEF PollTimeout, InHand, Holding
<1>12. ASSUME TypeOK', OrdersKept, UNCHANGED call, ReconInHand'
       PROVE  TypeInv'
  BY <1>12, <1>a DEF InHand, Call, OrdersKept
<1>13. CASE (\E o \in OrderIds : BrokerProgress(o)) \/ (\E r \in inflight : Deliver(r))
  <2>1. ASSUME NEW o \in OrderIds, BrokerProgress(o) PROVE OrdersKept /\ inflight' \subseteq inflight
    BY <2>1, ProgressEffect DEF BrokerProgress
  <2>2. ASSUME NEW r \in inflight, Deliver(r) PROVE OrdersKept /\ inflight' \subseteq inflight
    BY <1>a, <1>b, <2>2, AcceptEffect DEF Deliver
  <2>3. UNCHANGED <<store, call, recon, requested, bounds>>
    BY <1>13 DEF BrokerProgress, Deliver
  <2>4. OrdersKept /\ inflight' \subseteq inflight
    BY <1>13, <2>1, <2>2
  <2> QED
    BY <1>12, <2>3, <2>4 DEF TypeOK, OrdersKept, bounds, ReconInHand
<1>14. CASE WindowPasses
  BY <1>a, <1>b, <1>12, <1>14, WindowEffect
     DEF WindowPasses, TypeOK, StoreTyped, bounds, ReconInHand
<1>15. CASE ReconcilePending \/ ReconcileActive \/ \E k \in Keys : ReconcileSpecific(k)
  <2>1. recon' \in Recon /\ recon'.pc # "write"
    BY <1>15, ReconBegins
  <2>2. passes' \in 0..MaxPasses
    <3>1. passes' = passes \/ (passes < MaxPasses /\ passes' = passes + 1)
      BY <1>15 DEF ReconcilePending, ReconcileActive, ReconcileSpecific, bounds
    <3> QED
      BY <3>1, BoundAssumption DEF TypeOK
  <2>3. UNCHANGED <<store, orders, inflight, call, requested, calls, crashes>>
    BY <1>15 DEF ReconcilePending, ReconcileActive, ReconcileSpecific, bounds
  <2> QED
    BY <1>b, <1>12, <2>1, <2>2, <2>3 DEF TypeOK, ReconInHand
<1>16. ASSUME NEW list \in {"pending", "active"}, NEW k \in Keys, ReconcileLookup(list, k)
       PROVE  TypeInv'
  <2>1. recon' \in Recon /\ ReconInHand'
    BY <1>16, LookupEffect DEF ReconInHand
  <2> QED
    BY <1>b, <1>12, <1>16, <2>1 DEF ReconcileLookup, TypeOK, bounds
<1>17. CASE ReconcileWrite \/ ReconcileRaises \/ ReconcileDone
  <2>1. recon' \in Recon /\ recon'.pc # "write"
    BY <1>17, ReconEnds
  <2>2. ASSUME ReconcileWrite PROVE StoreTyped'
    <3>1. /\ recon.key \in Keys /\ recon.oid \in OrderIds \cup {NoId}
          /\ recon.seen \in RowStatus /\ "UNKNOWN_PROVIDER" \in RowStatus
      BY DEF TypeOK, Recon, RowStatus
    <3> QED
      BY <1>a, <2>2, <3>1, UpdateProviderInfoEffect, UpdateStatusEffect DEF ReconcileWrite
  <2>3. StoreTyped'
    BY <1>17, <1>c, <2>2 DEF ReconcileRaises, ReconcileDone
  <2>4. UNCHANGED <<orders, inflight, call, requested, bounds>>
    BY <1>17 DEF ReconcileWrite, ReconcileRaises, ReconcileDone
  <2>5. TypeOK'
    BY <2>1, <2>3, <2>4 DEF TypeOK, StoreTyped, bounds
  <2>6. ReconInHand'
    BY <2>1 DEF ReconInHand
  <2> QED
    BY <1>b, <1>12, <2>4, <2>5, <2>6
<1>18. CASE Crash
  <2>1. recon' \in Recon /\ recon'.pc # "write"
    BY <1>18, ReconEnds
  <2>2. store' \in [Keys -> Row \cup {NoRow}] /\ crashes' \in 0..MaxCrashes
    BY <1>18, BoundAssumption DEF Crash, TypeOK
  <2>3. TypeOK'
    BY <1>18, <2>1, <2>2, IdleTyped DEF Crash, TypeOK
  <2> QED
    BY <1>18, <2>1, <2>3 DEF Crash, InHand, Holding, IdleCall, ReconInHand
<1>19. CASE UNCHANGED vars
  BY <1>b, <1>12, <1>19 DEF vars, TypeOK, bounds, ReconInHand
<1> QED
  BY <1>1, <1>2, <1>3, <1>4, <1>5, <1>6, <1>7, <1>8, <1>9, <1>10, <1>11, <1>13, <1>14,
     <1>15, <1>16, <1>17, <1>18, <1>19
     DEF Next, WorkerStep, ReconcileStep

(* The type invariant of Execution: every row, order and call is one the   *)
(* code can produce, in every reachable state.                             *)
THEOREM TypeCorrect == Spec => []TypeOK
<1>1. TypeInv /\ [Next]_vars => TypeInv'
  BY TypeStep
<1>2. TypeInv => TypeOK
  BY DEF TypeInv
<1> QED
  BY TypeInit, <1>1, <1>2, PTL DEF Spec

-----------------------------------------------------------------------------
(* The inductive invariant.  An id in anyone's hands is the id of the one  *)
(* order of that key, a final status seen is the order's, and what the     *)
(* broker has or may get was asked for and, in a durable store, recorded.  *)

Owns(o, k) == orders[o] # NoOrder /\ orders[o].key = k
Recorded(k) == Durable => store[k] # NoRow
Submitting == {"submit", "confirm", "fail", "poll", "write"}

CallInv(w) ==
    LET c == call[w] IN
    /\ c.oid # NoId => Owns(c.oid, c.key)
    /\ c.oid # NoId /\ c.seen \in ClosedStatus => orders[c.oid].status = c.seen
    /\ c.pc # "idle" /\ ~c.dry => c.key \in requested
    /\ c.pc \in Submitting \cup {"record"} => ~c.dry
    /\ c.pc \in Submitting => Recorded(c.key)
    /\ c.pc = "idle" /\ c.out = "DUPLICATE" => c.oid # NoId
    /\ c.pc = "idle" /\ c.out \in {"FILLED", "CANCELED"} =>
          c.oid # NoId /\ c.seen \in ClosedStatus /\ Normalized(c.seen) = c.out

RowInv(k) ==
    store[k] # NoRow /\ store[k].pid # NoId =>
        Owns(store[k].pid, k) /\ store[k].status # "NULL"

ReconInv ==
    /\ \A k \in Keys : recon.ids[k] # NoId => Owns(recon.ids[k], k)
    /\ recon.pc = "write" /\ recon.oid # NoId => Owns(recon.oid, recon.key)

BrokerInv ==
    /\ \A o \in OrderIds : orders[o] # NoOrder =>
          /\ orders[o].cid = orders[o].key
          /\ orders[o].key \in requested /\ Recorded(orders[o].key)
    /\ \A r \in inflight : r.cid = r.key /\ r.key \in requested /\ Recorded(r.key)
    /\ \A o1, o2 \in OrderIds :
          orders[o1] # NoOrder /\ orders[o2] # NoOrder /\ orders[o1].key = orders[o2].key
          => o1 = o2

IInv ==
    /\ TypeInv
    /\ \A w \in Workers : CallInv(w)
    /\ \A k \in Keys : RowInv(k)
    /\ ReconInv
    /\ BrokerInv

LEMMA InvInit == Init => IInv
<1> SUFFICES ASSUME Init PROVE IInv
  OBVIOUS
<1>1. \A w \in Workers : CallInv(w)
  BY DEF Init, CallInv, IdleCall, Submitting
<1>2. ReconInv
  BY DEF Init, ReconInv, IdleRecon
<1> QED
  BY TypeInit, <1>1, <1>2 DEF IInv, Init, RowInv, BrokerInv

(* A durable store never loses a row, so what is recorded stays recorded. *)
RowsKept == \A k \in Keys : Recorded(k) => Recorded(k)'

LEMMA BrokerKept ==
    ASSUME IInv, UNCHANGED orders, inflight' \subseteq inflight, RowsKept,
           requested \subseteq requested'
    PROVE  BrokerInv'
<1>1. \A o \in OrderIds : orders[o] # NoOrder => orders[o].key \in Keys
  BY DEF IInv, TypeInv, TypeOK, Order
<1>2. \A r \in inflight : r.key \in Keys
  BY DEF IInv, TypeInv, TypeOK
<1> QED
  BY <1>1, <1>2 DEF IInv, BrokerInv, RowsKept

LEMMA RowKept ==
    ASSUME IInv, OrdersKept, NEW k \in Keys, store'[k] = store[k]
    PROVE  RowInv(k)'
<1>1. store[k] # NoRow => store[k].pid \in OrderIds \cup {NoId}
  BY DEF IInv, TypeInv, TypeOK, Row
<1> QED
  BY <1>1 DEF IInv, RowInv, Owns, OrdersKept

LEMMA CallKept ==
    ASSUME IInv, OrdersKept, RowsKept, requested \subseteq requested',
           NEW w \in Workers, call'[w] = call[w]
    PROVE  CallInv(w)'
<1>1. call[w].key \in Keys /\ call[w].oid \in OrderIds \cup {NoId}
  BY DEF IInv, TypeInv, TypeOK, Call
<1> QED
  BY <1>1 DEF IInv, CallInv, Owns, OrdersKept, RowsKept, Recorded

LEMMA ReconKept ==
    ASSUME IInv, OrdersKept, UNCHANGED recon
    PROVE  ReconInv'
<1>1. /\ \A k \in Keys : recon.ids[k] \in OrderIds \cup {NoId}
      /\ recon.oid \in OrderIds \cup {NoId}
  BY DEF IInv, TypeInv, TypeOK, Recon
<1> QED
  BY <1>1 DEF IInv, ReconInv, Owns, OrdersKept

(* A call that ends without an order leaves nothing to be kept for it. *)
LEMMA ReturnEmptyHanded ==
    ASSUME call \in [Workers -> Call], NEW w \in Workers, NEW out \in {"RAISED", "AUTHORIZED"},
           Return(w, out, NoId, "NULL")
    PROVE  CallInv(w)' /\ \A v \in Workers \ {w} : call'[v] = call[v]
<1>1. out \in Outcome /\ "NULL" \in RowStatus /\ NoId \in OrderIds \cup {NoId}
  BY DEF Outcome, RowStatus
<1>2. /\ call'[w].pc = "idle" /\ call'[w].oid = NoId /\ call'[w].out = out
      /\ \A v \in Workers \ {w} : call'[v] = call[v]
  BY <1>1, ReturnEffect
<1>3. out \notin {"DUPLICATE", "FILLED", "CANCELED"}
  OBVIOUS
<1> QED
  BY <1>2, <1>3 DEF CallInv, Submitting

(* A step of one call, which writes at most the row of its key. *)
LEMMA WorkerInv ==
    ASSUME IInv, TypeInv', OrdersKept, RowsKept, NEW w \in Workers, NEW k \in Keys,
           requested \subseteq requested', UNCHANGED recon,
           \A v \in Workers \ {w} : call'[v] = call[v], CallInv(w)',
           UNCHANGED store \/ (OtherRowsStay(k) /\ RowInv(k)'),
           BrokerInv'
    PROVE  IInv'
<1>1. \A v \in Workers : CallInv(v)'
  BY CallKept
<1>2. ASSUME NEW j \in Keys, store'[j] = store[j] PROVE RowInv(j)'
  BY <1>2, RowKept
<1>3. \A j \in Keys : RowInv(j)'
  BY <1>2 DEF OtherRowsStay
<1> QED
  BY <1>1, <1>3, ReconKept DEF IInv

LEMMA InvStep ==
    ASSUME IInv, [Next]_vars
    PROVE  IInv'
<1>a. /\ TypeInv /\ TypeOK /\ StoreTyped /\ call \in [Workers -> Call]
      /\ \A w \in Workers : CallInv(w)
  BY DEF IInv, TypeInv, TypeOK, StoreTyped
<1>b. TypeInv'
  BY <1>a, TypeStep
<1>c. UNCHANGED orders => OrdersKept
  BY <1>a, OrdersStay
<1>d. UNCHANGED store => RowsKept
  BY DEF RowsKept, Recorded
<1>1. ASSUME NEW w \in Workers, NEW k \in Keys, NEW dry \in BOOLEAN, NEW track \in BOOLEAN,
             Execute(w, k, dry, track)
      PROVE  IInv'
  <2>1. CallInv(w)'
    BY <1>1, <1>a, ExecuteEffect DEF CallInv, Submitting
  <2>2. \A v \in Workers \ {w} : call'[v] = call[v]
    BY <1>1, <1>a, ExecuteEffect
  <2>3. requested \subseteq requested' /\ UNCHANGED <<store, orders, inflight, recon>>
    BY <1>1 DEF Execute
  <2> QED
    BY <1>a, <1>b, <1>c, <1>d, <2>1, <2>2, <2>3, BrokerKept, WorkerInv
(* A call that only reads: nothing but its own record moves. *)
<1>2. ASSUME NEW w \in Workers, CallInv(w)',
             \A v \in Workers \ {w} : call'[v] = call[v],
             UNCHANGED <<store, orders, inflight, recon, requested>>
      PROVE  IInv'
  <2>1. call[w].key \in Keys
    BY <1>a DEF Call
  <2> QED
    BY <1>b, <1>c, <1>d, <1>2, <2>1, BrokerKept, WorkerInv
<1>3. ASSUME NEW w \in Workers, CheckLocal(w)
      PROVE  IInv'
  <2>1. /\ "RAISED" \in Outcome /\ "DUPLICATE" \in Outcome /\ "NULL" \in RowStatus
        /\ "provider" \in Stage /\ call[w].key \in Keys
    BY <1>a DEF Outcome, RowStatus, Stage, Call
  <2>2. call[w].pc = "local" /\ UNCHANGED <<store, orders, inflight, recon, requested>>
    BY <1>3 DEF CheckLocal, At
  <2>3. CASE Goto(w, "provider")
    BY <1>a, <1>2, <2>1, <2>2, <2>3, GotoEffect DEF CallInv, Submitting, Owns
  <2>4. CASE Return(w, "RAISED", NoId, "NULL")
    <3>1. CallInv(w)' /\ \A v \in Workers \ {w} : call'[v] = call[v]
      BY <1>a, <2>4, ReturnEmptyHanded
    <3> QED
      BY <1>2, <2>2, <3>1
  <2>5. ASSUME Submitted(call[w].key), Return(w, "DUPLICATE", store[call[w].key].pid, "NULL")
        PROVE  IInv'
    <3>1. /\ store[call[w].key].pid \in OrderIds \cup {NoId}
          /\ store[call[w].key].pid # NoId
          /\ Owns(store[call[w].key].pid, call[w].key)
      BY <1>a, <2>1, <2>5 DEF StoreTyped, Row, Submitted, IInv, RowInv
    <3>2. "NULL" \notin ClosedStatus
      BY DEF ClosedStatus
    <3>3. /\ \A v \in Workers \ {w} : call'[v] = call[v]
          /\ call'[w].pc = "idle" /\ call'[w].key = call[w].key /\ call'[w].seen = "NULL"
          /\ call'[w].oid = store[call[w].key].pid /\ call'[w].out = "DUPLICATE"
      BY <1>a, <2>1, <2>5, <3>1, ReturnEffect
    <3>4. CallInv(w)'
      BY <2>2, <3>1, <3>2, <3>3 DEF CallInv, Submitting, Owns
    <3> QED
      BY <1>2, <2>2, <3>3, <3>4
  <2> QED
    BY <1>3, <2>3, <2>4, <2>5 DEF CheckLocal
<1>4. ASSUME NEW w \in Workers, CheckProvider(w)
      PROVE  IInv'
  <2>1. /\ "RAISED" \in Outcome /\ "AUTHORIZED" \in Outcome /\ "NULL" \in RowStatus
        /\ "adopt" \in Stage /\ "record" \in Stage /\ call[w].key \in Keys
    BY <1>a DEF Outcome, RowStatus, Stage, Call
  <2>2. CASE ~StopsAtDryRun(w) /\ Goto(w, "record")
    BY <1>a, <1>2, <1>4, <2>1, <2>2, GotoEffect
       DEF CheckProvider, At, CallInv, Submitting, Owns, Recorded, StopsAtDryRun
  <2>3. CASE Return(w, "RAISED", NoId, "NULL") \/ Return(w, "AUTHORIZED", NoId, "NULL")
    <3>1. CallInv(w)' /\ \A v \in Workers \ {w} : call'[v] = call[v]
      BY <1>a, <2>3, ReturnEmptyHanded
    <3>2. UNCHANGED <<store, orders, inflight, recon, requested>>
      BY <1>4 DEF CheckProvider
    <3> QED
      BY <1>2, <3>1, <3>2
  <2>4. ASSUME NEW o \in OrdersWith(ClientOrderId(call[w].key)),
               Hold(w, "adopt", o, orders[o].status)
        PROVE  IInv'
    <3>1. o \in OrderIds /\ orders[o] # NoOrder /\ orders[o].status \in ProviderStatus
      BY <1>a DEF OrdersWith, TypeOK, Order
    <3>2. Owns(o, call[w].key)
      BY <3>1 DEF OrdersWith, ClientOrderId, IInv, BrokerInv, Owns
    <3> QED
      BY <1>a, <1>2, <1>4, <2>1, <2>4, <3>1, <3>2, HoldEffect
         DEF CheckProvider, At, CallInv, Submitting, Owns
  <2> QED
    BY <1>4, <2>2, <2>3, <2>4 DEF CheckProvider
<1>5. ASSUME NEW w \in Workers, Adopt(w)
      PROVE  IInv'
  <2>1. /\ "RAISED" \in Outcome /\ "DUPLICATE" \in Outcome /\ "NULL" \in RowStatus
        /\ call[w].key \in Keys /\ call[w].oid \in OrderIds \cup {NoId}
        /\ call[w].seen \in RowStatus
    BY <1>a DEF Outcome, RowStatus, Call
  <2>2. call[w].pc = "adopt" /\ UNCHANGED <<orders, inflight, recon, requested>>
    BY <1>5 DEF Adopt, At
  <2>3. CASE Return(w, "RAISED", NoId, "NULL") /\ UNCHANGED store
    <3>1. CallInv(w)' /\ \A v \in Workers \ {w} : call'[v] = call[v]
      BY <1>a, <2>3, ReturnEmptyHanded
    <3> QED
      BY <1>2, <2>2, <2>3, <3>1
  <2>4. CASE /\ Upsert(call[w].key, "adopted", call[w].oid, call[w].seen)
             /\ Return(w, "DUPLICATE", call[w].oid, call[w].seen)
    <3>1. call[w].oid # NoId /\ call[w].seen \in ProviderStatus /\ Owns(call[w].oid, call[w].key)
      BY <1>a, <2>2 DEF TypeInv, InHand, Holding, CallInv
    <3>2. /\ OtherRowsStay(call[w].key) /\ store'[call[w].key] # NoRow
          /\ store'[call[w].key].pid = call[w].oid /\ store'[call[w].key].status = call[w].seen
      BY <1>a, <2>1, <2>4, UpsertEffect
    <3>3. \A k \in Keys : k = call[w].key => RowInv(k)'
      BY <2>2, <3>1, <3>2 DEF RowInv, Owns, ProviderStatus, OpenStatus, ClosedStatus
    <3>4. RowsKept
      BY <3>2 DEF RowsKept, Recorded, OtherRowsStay
    <3>5. CallInv(w)' /\ \A v \in Workers \ {w} : call'[v] = call[v]
      BY <1>a, <2>1, <2>2, <2>4, <3>1, ReturnEffect DEF CallInv, Submitting, Owns
    <3> QED
      BY <1>b, <1>c, <2>1, <2>2, <3>2, <3>3, <3>4, <3>5, BrokerKept, WorkerInv
  <2> QED
    BY <1>5, <2>3, <2>4 DEF Adopt
<1>6. ASSUME NEW w \in Workers, Record(w)
      PROVE  IInv'
  <2>1. /\ "RAISED" \in Outcome /\ "NULL" \in RowStatus /\ "submit" \in Stage
        /\ call[w].key \in Keys
    BY <1>a DEF Outcome, RowStatus, Stage, Call
  <2>2. call[w].pc = "record" /\ UNCHANGED <<orders, inflight, recon, requested>>
    BY <1>6 DEF Record, At
  <2>3. CASE Return(w, "RAISED", NoId, "NULL") /\ UNCHANGED store
    <3>1. CallInv(w)' /\ \A v \in Workers \ {w} : call'[v] = call[v]
      BY <1>a, <2>3, ReturnEmptyHanded
    <3> QED
      BY <1>2, <2>2, <2>3, <3>1
  <2>4. CASE Upsert(call[w].key, "plan", NoId, "NULL") /\ Goto(w, "submit")
    <3>1. /\ OtherRowsStay(call[w].key) /\ store'[call[w].key] # NoRow
          /\ store'[call[w].key].pid = NoId
      BY <1>a, <2>1, <2>4, UpsertEffect
    <3>2. \A k \in Keys : k = call[w].key => RowInv(k)'
      BY <3>1 DEF RowInv
    <3>3. RowsKept
      BY <3>1 DEF RowsKept, Recorded, OtherRowsStay
    <3>4. CallInv(w)' /\ \A v \in Workers \ {w} : call'[v] = call[v]
      BY <1>a, <2>1, <2>2, <2>4, <3>1, GotoEffect DEF CallInv, Submitting, Owns, Recorded
    <3> QED
      BY <1>b, <1>c, <2>1, <2>2, <3>1, <3>2, <3>3, <3>4, BrokerKept, WorkerInv
  <2> QED
    BY <1>6, <2>3, <2>4 DEF Record
<1>7. ASSUME NEW w \in Workers, Submit(w)
      PROVE  IInv'
  <2> DEFINE r == [cid |-> ClientOrderId(call[w].key), key |-> call[w].key]
  <2>1. /\ r \in [cid : Keys, key : Keys] /\ r.cid = call[w].key /\ r.key = call[w].key
        /\ "confirm" \in Stage /\ "fail" \in Stage /\ call[w].key \in Keys
    BY <1>a DEF Call, ClientOrderId, Stage
  <2> HIDE DEF r
  <2>2. call[w].pc = "submit" /\ UNCHANGED <<store, recon, requested>>
    BY <1>7 DEF Submit, At
  <2>3. r.key \in requested /\ Recorded(r.key)
    BY <1>a, <2>1, <2>2 DEF CallInv, Submitting
  <2>4. ASSUME NEW o \in OrderIds, NEW s \in ProviderStatus,
               Accept(r, o, s), Hold(w, "confirm", o, s), UNCHANGED inflight
        PROVE  IInv'
    <3>1. /\ OrdersKept /\ orders[o] = NoOrder /\ orders'[o] # NoOrder
          /\ orders'[o].key = r.key /\ orders'[o].cid = r.cid /\ orders'[o].status = s
          /\ \A p \in OrderIds \ {o} : orders'[p] = orders[p]
          /\ \A p \in OrderIds : orders[p] # NoOrder => orders[p].cid # r.cid
      BY <1>a, <2>1, <2>4, AcceptEffect
    <3>2. BrokerInv'
      BY <2>1, <2>2, <2>3, <2>4, <3>1 DEF IInv, BrokerInv, Recorded
    <3>3. CallInv(w)' /\ \A v \in Workers \ {w} : call'[v] = call[v]
      BY <1>a, <2>1, <2>2, <2>3, <2>4, <3>1, HoldEffect DEF CallInv, Submitting, Owns, Recorded
    <3> QED
      BY <1>b, <1>d, <2>1, <2>2, <3>1, <3>2, <3>3, WorkerInv
  <2>5. CASE /\ Goto(w, "fail")
             /\ inflight' \in {inflight, inflight \cup {r}}
             /\ UNCHANGED orders
    <3>1. BrokerInv'
      BY <2>1, <2>2, <2>3, <2>5 DEF IInv, BrokerInv, Recorded
    <3>2. CallInv(w)' /\ \A v \in Workers \ {w} : call'[v] = call[v]
      BY <1>a, <2>1, <2>2, <2>5, GotoEffect DEF CallInv, Submitting, Owns, Recorded
    <3> QED
      BY <1>b, <1>c, <1>d, <2>1, <2>2, <2>5, <3>1, <3>2, WorkerInv
  <2> QED
    BY <1>7, <2>4, <2>5 DEF Submit, r
<1>8. ASSUME NEW w \in Workers, Confirm(w)
      PROVE  IInv'
  <2>1. /\ "fail" \in Stage /\ "poll" \in Stage /\ call[w].key \in Keys
        /\ call[w].pc = "confirm"
        /\ call[w].seen \in ProviderStatus /\ call[w].oid \in OrderIds /\ call[w].oid # NoId
        /\ call[w].seen \in RowStatus /\ Normalized(call[w].seen) \in Outcome
    BY <1>8, <1>a, NormalizedOutcome
       DEF Confirm, At, TypeInv, InHand, Holding, Stage, Call, RowStatus
  <2>2. UNCHANGED <<orders, inflight, recon, requested>>
    BY <1>8 DEF Confirm
  <2>3. Owns(call[w].oid, call[w].key)
    BY <1>a, <2>1 DEF CallInv
  <2>4. CASE Goto(w, "fail") /\ UNCHANGED store
    BY <1>a, <1>2, <2>1, <2>2, <2>4, GotoEffect DEF CallInv, Submitting, Owns, Recorded
  <2>5. CASE /\ UpdateProviderInfo(call[w].key, {"plan"}, call[w].oid, call[w].seen)
             /\ \/ Goto(w, "poll")
                \/ Return(w, Normalized(call[w].seen), call[w].oid, call[w].seen)
    <3>1. /\ OtherRowsStay(call[w].key)
          /\ store[call[w].key] = NoRow <=> store'[call[w].key] = NoRow
          /\ \/ store'[call[w].key] = store[call[w].key]
             \/ /\ store'[call[w].key].pid = call[w].oid
                /\ store'[call[w].key].status = call[w].seen
      BY <1>a, <2>1, <2>5, UpdateProviderInfoEffect
    <3>2. \A k \in Keys : k = call[w].key => RowInv(k)'
      <4>1. RowInv(call[w].key)
        BY <2>1 DEF IInv
      <4> QED
        BY <2>1, <2>2, <2>3, <3>1, <4>1
           DEF RowInv, Owns, ProviderStatus, OpenStatus, ClosedStatus
    <3>3. RowsKept
      BY <3>1 DEF RowsKept, Recorded, OtherRowsStay
    <3>4. CASE Goto(w, "poll")
      <4>1. CallInv(w)' /\ \A v \in Workers \ {w} : call'[v] = call[v]
        BY <1>a, <2>1, <2>2, <3>1, <3>4, GotoEffect DEF CallInv, Submitting, Owns, Recorded
      <4> QED
        BY <1>b, <1>c, <2>1, <2>2, <3>1, <3>2, <3>3, <4>1, BrokerKept, WorkerInv
    <3>5. CASE Return(w, Normalized(call[w].seen), call[w].oid, call[w].seen)
      <4>1. Normalized(call[w].seen) \in {"FILLED", "CANCELED"} => call[w].seen \in ClosedStatus
        BY <2>1 DEF Normalized, ProviderStatus, OpenStatus, ClosedStatus
      <4>2. CallInv(w)' /\ \A v \in Workers \ {w} : call'[v] = call[v]
        BY <1>a, <2>1, <2>2, <2>3, <3>5, <4>1, ReturnEffect DEF CallInv, Submitting, Owns
      <4> QED
        BY <1>b, <1>c, <2>1, <2>2, <3>1, <3>2, <3>3, <4>2, BrokerKept, WorkerInv
    <3> QED
      BY <2>5, <3>4, <3>5
  <2> QED
    BY <1>8, <2>4, <2>5 DEF Confirm
(* A call that writes a status into the row of its key, or nothing. *)
<1>9. ASSUME NEW w \in Workers, NEW status \in RowStatus, status # "NULL",
             UNCHANGED store \/ UpdateStatus(call[w].key, {"plan"}, status),
             UNCHANGED <<orders, inflight, recon, requested>>,
             CallInv(w)', \A v \in Workers \ {w} : call'[v] = call[v]
      PROVE  IInv'
  <2> DEFINE k == call[w].key
  <2>1. k \in Keys
    BY <1>a DEF Call
  <2> HIDE DEF k
  <2>2. CASE UNCHANGED store
    BY <1>2, <1>9, <2>2
  <2>3. CASE UpdateStatus(k, {"plan"}, status)
    <3>1. /\ OtherRowsStay(k)
          /\ store[k] = NoRow <=> store'[k] = NoRow
          /\ \/ store'[k] = store[k]
             \/ store'[k].pid = store[k].pid /\ store'[k].status = status
      BY <1>a, <1>9, <2>1, <2>3, UpdateStatusEffect
    <3>2. RowInv(k)
      BY <2>1 DEF IInv
    <3>3. \A j \in Keys : j = k => RowInv(j)'
      BY <1>9, <3>1, <3>2 DEF RowInv, Owns
    <3>4. RowsKept
      BY <3>1 DEF RowsKept, Recorded, OtherRowsStay
    <3> QED
      BY <1>b, <1>c, <1>9, <2>1, <3>1, <3>3, <3>4, BrokerKept, WorkerInv
  <2> QED
    BY <1>9, <2>2, <2>3 DEF k
<1>10. ASSUME NEW w \in Workers, Fail(w)
       PROVE  IInv'
  <2>1. /\ "RAISED" \in Outcome /\ "FAILED" \in Outcome /\ "NULL" \in RowStatus
        /\ "FAILED" \in RowStatus
    BY DEF Outcome, RowStatus
  <2>2. UNCHANGED <<orders, inflight, recon, requested>>
    BY <1>10 DEF Fail
  <2>3. CallInv(w)' /\ \A v \in Workers \ {w} : call'[v] = call[v]
    BY <1>10, <1>a, <2>1, ReturnEffect DEF Fail, CallInv, Submitting
  <2> QED
    BY <1>9, <1>10, <2>1, <2>2, <2>3 DEF Fail
<1>11. ASSUME NEW w \in Workers, call[w].pc \in {"poll", "write"}
       PROVE  /\ call[w].oid \in OrderIds /\ call[w].oid # NoId
              /\ call[w].key \in Keys
              /\ orders[call[w].oid].status \in ProviderStatus
              /\ call[w].seen \in ProviderStatus
              /\ call[w].seen \in RowStatus /\ call[w].seen # "NULL"
              /\ Owns(call[w].oid, call[w].key)
  BY <1>11, <1>a
     DEF TypeInv, InHand, Holding, TypeOK, Call, Order, CallInv, RowStatus, ProviderStatus,
         OpenStatus, ClosedStatus
<1>12. \A s \in ProviderStatus : /\ Normalized(s) \in Outcome
                                 /\ Normalized(s) \in {"FILLED", "CANCELED"} => s \in ClosedStatus
                                 /\ Normalized(s) # "DUPLICATE"
  BY NormalizedOutcome DEF Normalized, ProviderStatus, OpenStatus, ClosedStatus, RowStatus
<1>13. ASSUME NEW w \in Workers, PollRead(w)
       PROVE  IInv'
  <2> DEFINE now == orders[call[w].oid].status
  <2>1. /\ call[w].pc = "poll" /\ UNCHANGED <<store, orders, inflight, recon, requested>>
        /\ call[w].polls < MaxPolls /\ "write" \in Stage
    BY <1>13 DEF PollRead, At, Stage
  <2>2. now \in ProviderStatus /\ now \in RowStatus
    BY <1>11, <2>1 DEF RowStatus
  <2>3. now = orders[call[w].oid].status
    OBVIOUS
  <2> HIDE DEF now
  <2>4. CASE NextRound(w)
    <3>1. CallInv(w)' /\ \A v \in Workers \ {w} : call'[v] = call[v]
      BY <1>a, <2>1, <2>4, NextRoundEffect DEF CallInv, Submitting, Owns, Recorded
    <3> QED
      BY <1>2, <2>1, <3>1
  <2>5. CASE Hold(w, "write", call[w].oid, now)
    <3>1. CallInv(w)' /\ \A v \in Workers \ {w} : call'[v] = call[v]
      BY <1>a, <1>11, <2>1, <2>2, <2>3, <2>5, HoldEffect DEF CallInv, Submitting, Owns, Recorded
    <3> QED
      BY <1>2, <2>1, <3>1
  <2>6. CASE Return(w, Normalized(now), call[w].oid, now)
    <3>1. CallInv(w)' /\ \A v \in Workers \ {w} : call'[v] = call[v]
      BY <1>a, <1>11, <1>12, <2>1, <2>2, <2>3, <2>6, ReturnEffect DEF CallInv, Submitting, Owns
    <3> QED
      BY <1>2, <2>1, <3>1
  <2> QED
    BY <1>13, <2>4, <2>5, <2>6 DEF PollRead, now
<1>14. ASSUME NEW w \in Workers, PollWrite(w)
       PROVE  IInv'
  <2>1. /\ call[w].pc = "write" /\ UNCHANGED <<orders, inflight, recon, requested>>
        /\ call[w].polls < MaxPolls
    BY <1>14, <1>a DEF PollWrite, At, TypeInv, InHand
  <2>2. UNCHANGED store \/ UpdateStatus(call[w].key, {"plan"}, call[w].seen)
    BY <1>14 DEF PollWrite
  <2>3. CASE NextRound(w)
    <3>1. CallInv(w)' /\ \A v \in Workers \ {w} : call'[v] = call[v]
      <4>1. Recorded(call[w].key) => Recorded(call[w].key)'
        <5>1. call[w].key \in Keys /\ call[w].seen \in RowStatus
          BY <1>11, <2>1
        <5>2. UNCHANGED store \/ (store[call[w].key] # NoRow => store'[call[w].key] # NoRow)
          BY <1>a, <2>2, <5>1, UpdateStatusEffect
        <5>3. call'[w].key = call[w].key
          BY <1>a, <2>1, <2>3, NextRoundEffect
        <5> QED
          BY <5>2, <5>3 DEF Recorded
      <4> QED
        BY <1>a, <2>1, <2>3, <4>1, NextRoundEffect DEF CallInv, Submitting, Owns
    <3> QED
      BY <1>9, <1>11, <2>1, <2>2, <3>1
  <2>4. CASE Return(w, Normalized(call[w].seen), call[w].oid, call[w].seen)
    <3>1. CallInv(w)' /\ \A v \in Workers \ {w} : call'[v] = call[v]
      BY <1>a, <1>11, <1>12, <2>1, <2>4, ReturnEffect DEF CallInv, Submitting, Owns
    <3> QED
      BY <1>9, <1>11, <2>1, <2>2, <3>1
  <2> QED
    BY <1>14, <2>3, <2>4 DEF PollWrite
<1>15. ASSUME NEW w \in Workers, PollTimeout(w)
       PROVE  IInv'
  <2>1. call[w].pc = "poll" /\ UNCHANGED <<store, orders, inflight, recon, requested>>
    BY <1>15 DEF PollTimeout, At
  <2>2. CallInv(w)' /\ \A v \in Workers \ {w} : call'[v] = call[v]
    BY <1>a, <1>11, <1>12, <1>15, <2>1, ReturnEffect DEF PollTimeout, CallInv, Submitting, Owns
  <2> QED
    BY <1>2, <2>1, <2>2
(* The steps of the broker, the clock and the reconciler touch no call. *)
<1>16. ASSUME OrdersKept, RowsKept, BrokerInv', ReconInv', \A k \in Keys : RowInv(k)',
              UNCHANGED <<call, requested>>
       PROVE  IInv'
  BY <1>b, <1>16, CallKept DEF IInv
<1>17. CASE \E o \in OrderIds : BrokerProgress(o)
  <2>1. PICK o \in OrderIds : BrokerProgress(o)
    BY <1>17
  <2>2. OrdersKept /\ UNCHANGED <<store, inflight, call, recon, requested>>
    BY <1>a, <2>1, ProgressEffect DEF BrokerProgress
  <2>3. \A p \in OrderIds : orders'[p] # NoOrder => orders[p] # NoOrder
    BY <1>a, <2>1 DEF BrokerProgress, TypeOK
  <2>4. BrokerInv'
    BY <2>2, <2>3 DEF IInv, BrokerInv, OrdersKept, Recorded
  <2> QED
    BY <1>d, <1>16, <2>2, <2>4, RowKept, ReconKept
<1>18. CASE \E r \in inflight : Deliver(r)
  <2>1. PICK r \in inflight : Deliver(r)
    BY <1>18
  <2>2. /\ r \in [cid : Keys, key : Keys] /\ r.cid = r.key
        /\ r.key \in requested /\ Recorded(r.key)
    BY <1>a, <2>1 DEF TypeOK, IInv, BrokerInv
  <2>3. /\ inflight' \subseteq inflight
        /\ UNCHANGED <<store, call, recon, requested>>
    BY <2>1 DEF Deliver
  <2>4. OrdersKept /\ BrokerInv'
    <3>1. ASSUME NEW o \in OrderIds, NEW s \in ProviderStatus, Accept(r, o, s)
          PROVE  OrdersKept /\ BrokerInv'
      <4>1. /\ OrdersKept /\ orders[o] = NoOrder /\ orders'[o] # NoOrder
            /\ orders'[o].key = r.key /\ orders'[o].cid = r.cid
            /\ \A p \in OrderIds \ {o} : orders'[p] = orders[p]
            /\ \A p \in OrderIds : orders[p] # NoOrder => orders[p].cid # r.cid
        BY <1>a, <2>2, <3>1, AcceptEffect
      <4> QED
        BY <2>2, <2>3, <4>1 DEF IInv, BrokerInv, Recorded
    <3>2. CASE UNCHANGED orders
      BY <1>c, <1>d, <2>3, <3>2, BrokerKept
    <3> QED
      BY <2>1, <3>1, <3>2 DEF Deliver
  <2> QED
    BY <1>d, <1>16, <2>3, <2>4, RowKept, ReconKept
<1>19. CASE WindowPasses
  <2>1. /\ \A k \in Keys : store[k] = NoRow <=> store'[k] = NoRow
        /\ \A k \in Keys : store[k] # NoRow => store'[k].pid = store[k].pid
        /\ \A k \in Keys : store[k] # NoRow => store'[k].status = store[k].status
    BY <1>a, <1>19, WindowEffect
  <2>2. UNCHANGED <<orders, inflight, call, recon, requested>>
    BY <1>19 DEF WindowPasses
  <2>3. RowsKept
    BY <2>1 DEF RowsKept, Recorded
  <2>4. \A k \in Keys : RowInv(k)'
    BY <2>1, <2>2 DEF IInv, RowInv, Owns
  <2> QED
    BY <1>c, <1>16, <2>2, <2>3, <2>4, BrokerKept, ReconKept
<1>20. CASE ReconcilePending \/ ReconcileActive \/ \E k \in Keys : ReconcileSpecific(k)
  <2>1. /\ recon'.pc # "write"
        /\ \A j \in Keys : recon'.ids[j] \in {NoId, recon.ids[j]} \/ IdFromRow(j)
    BY <1>a, <1>20, ReconBegins
  <2>2. UNCHANGED <<store, orders, inflight, call, requested>>
    BY <1>20 DEF ReconcilePending, ReconcileActive, ReconcileSpecific
  <2>3. ReconInv'
    BY <2>1, <2>2 DEF IInv, ReconInv, RowInv, Owns, IdFromRow
  <2> QED
    BY <1>c, <1>d, <1>16, <2>2, <2>3, BrokerKept, RowKept
<1>21. ASSUME NEW list \in {"pending", "active"}, NEW k \in Keys, ReconcileLookup(list, k)
       PROVE  IInv'
  <2>1. /\ recon'.key = k /\ recon'.ids = recon.ids
        /\ \/ /\ recon'.oid \in OrderIds /\ orders[recon'.oid] # NoOrder
              /\ recon'.oid = recon.ids[k] \/ orders[recon'.oid].cid = ClientOrderId(k)
           \/ recon'.oid = NoId
    BY <1>a, <1>21, LookupEffect
  <2>2. UNCHANGED <<store, orders, inflight, call, requested>>
    BY <1>21 DEF ReconcileLookup
  <2>3. ReconInv'
    BY <2>1, <2>2, SentinelAssumption DEF IInv, ReconInv, BrokerInv, Owns, ClientOrderId
  <2> QED
    BY <1>c, <1>d, <1>16, <2>2, <2>3, BrokerKept, RowKept
<1>22. CASE ReconcileWrite \/ ReconcileRaises \/ ReconcileDone
  <2>1. /\ recon'.pc # "write"
        /\ \A j \in Keys : recon'.ids[j] \in {NoId, recon.ids[j]}
    BY <1>a, <1>22, ReconEnds
  <2>2. UNCHANGED <<orders, inflight, call, requested>>
    BY <1>22 DEF ReconcileWrite, ReconcileRaises, ReconcileDone
  <2>3. ReconInv'
    BY <2>1, <2>2 DEF IInv, ReconInv, Owns
  <2>4. CASE UNCHANGED store
    BY <1>c, <1>d, <1>16, <2>2, <2>3, <2>4, BrokerKept, RowKept
  <2>5. CASE ReconcileWrite
    <3> DEFINE k == recon.key
    <3>1. /\ k \in Keys /\ recon.oid \in OrderIds \cup {NoId}
          /\ recon.seen \in RowStatus /\ "UNKNOWN_PROVIDER" \in RowStatus
          /\ recon.oid # NoId => Owns(recon.oid, k) /\ recon.seen \in ProviderStatus
      BY <1>a, <2>5 DEF ReconcileWrite, TypeOK, Recon, RowStatus, IInv, ReconInv, TypeInv, ReconInHand
    <3>2. /\ recon.oid # NoId => UpdateProviderInfo(k, {"plan", "adopted"}, recon.oid, recon.seen)
          /\ recon.oid = NoId => UpdateStatus(k, {"plan", "adopted"}, "UNKNOWN_PROVIDER")
      BY <2>5 DEF ReconcileWrite
    <3> HIDE DEF k
    <3>3. /\ OtherRowsStay(k)
          /\ store[k] = NoRow <=> store'[k] = NoRow
          /\ \/ store'[k] = store[k]
             \/ store'[k].pid = store[k].pid /\ store'[k].status = "UNKNOWN_PROVIDER"
             \/ /\ recon.oid # NoId /\ store'[k].pid = recon.oid
                /\ store'[k].status = recon.seen
      <4>1. CASE recon.oid # NoId
        BY <1>a, <3>1, <3>2, <4>1, UpdateProviderInfoEffect
      <4>2. CASE recon.oid = NoId
        BY <1>a, <3>1, <3>2, <4>2, UpdateStatusEffect
      <4> QED
        BY <4>1, <4>2
    <3>4. RowInv(k)
      BY <3>1 DEF IInv
    <3>5. \A j \in Keys : j = k => RowInv(j)'
      BY <2>2, <3>1, <3>3, <3>4 DEF RowInv, Owns, ProviderStatus, OpenStatus, ClosedStatus
    <3>6. \A j \in Keys : j # k => RowInv(j)'
      BY <1>c, <2>2, <3>3, RowKept DEF OtherRowsStay
    <3>7. RowsKept
      BY <3>3 DEF RowsKept, Recorded, OtherRowsStay
    <3> QED
      BY <1>c, <1>16, <2>2, <2>3, <3>5, <3>6, <3>7, BrokerKept
  <2> QED
    BY <1>22, <2>4, <2>5 DEF ReconcileRaises, ReconcileDone
<1>23. CASE Crash
  <2>1. /\ UNCHANGED <<orders, inflight, requested>>
        /\ call' = [w \in Workers |-> IdleCall] /\ recon' = IdleRecon
        /\ store' = IF Durable THEN store ELSE [k \in Keys |-> NoRow]
    BY <1>23 DEF Crash
  <2>2. RowsKept
    BY <2>1 DEF RowsKept, Recorded
  <2>3. \A w \in Workers : CallInv(w)'
    BY <2>1 DEF CallInv, IdleCall, Submitting
  <2>4. ReconInv'
    BY <2>1 DEF ReconInv, IdleRecon
  <2>5. \A k \in Keys : RowInv(k)'
    BY <2>1 DEF IInv, RowInv, Owns
  <2> QED
    BY <1>b, <2>1, <2>2, <2>3, <2>4, <2>5, BrokerKept DEF IInv
<1>24. CASE UNCHANGED vars
  <2>1. UNCHANGED <<store, orders, inflight, call, recon, requested>>
    BY <1>24 DEF vars
  <2> QED
    BY <1>c, <1>d, <1>16, <2>1, BrokerKept, ReconKept, RowKept
<1> QED
  BY <1>1, <1>3, <1>4, <1>5, <1>6, <1>7, <1>8, <1>10, <1>13, <1>14, <1>15, <1>17, <1>18,
     <1>19, <1>20, <1>21, <1>22, <1>23, <1>24
     DEF Next, WorkerStep, ReconcileStep

LEMMA Invariance == Spec => []IInv
<1>1. IInv /\ [Next]_vars => IInv'
  BY InvStep
<1> QED
  BY InvInit, <1>1, PTL DEF Spec

(* Whatever calls overlap, fail, are retried or die, and whether the store *)
(* is durable or not, no execution identity ever has two orders.           *)
THEOREM OneOrder == Spec => []AtMostOneOrder
<1>1. IInv => AtMostOneOrder
  BY DEF IInv, BrokerInv, AtMostOneOrder
<1> QED
  BY Invariance, <1>1, PTL

(* No row and no call ever holds the order of another plan.                *)
THEOREM Ours == Spec => []IdsAreOurs
<1>1. IInv => IdsAreOurs
  BY DEF IInv, RowInv, CallInv, Owns, IdsAreOurs
<1> QED
  BY Invariance, <1>1, PTL

(* What execute returned as final is what the broker says, for ever after. *)
THEOREM Results == Spec => []ResultsAreTrue
<1>1. IInv => ResultsAreTrue
  BY DEF IInv, CallInv, ResultsAreTrue, At
<1> QED
  BY Invariance, <1>1, PTL

(* With a durable store, every order the broker has or may still get is    *)
(* recorded, and every row that is recent or has an id is reconciled.      *)
THEOREM Reconcilable ==
    ASSUME Durable
    PROVE  Spec => []OrdersAreReconcilable
<1>1. IInv => OrdersAreReconcilable
  <2> SUFFICES ASSUME IInv PROVE OrdersAreReconcilable
    OBVIOUS
  <2>1. \A o \in OrderIds : orders[o] # NoOrder => store[orders[o].key] # NoRow
    BY DEF IInv, BrokerInv, Recorded
  <2>2. \A r \in inflight : store[r.key] # NoRow
    BY DEF IInv, BrokerInv, Recorded
  <2>3. ASSUME NEW k \in Keys, store[k] # NoRow, store[k].fresh \/ store[k].pid # NoId
        PROVE  k \in PendingRows \cup ActiveRows
    <3>1. store[k].status \in RowStatus
      BY <2>3 DEF IInv, TypeInv, TypeOK, Row
    <3>2. CASE store[k].pid = NoId
      BY <2>3, <3>2 DEF PendingRows
    <3>3. CASE store[k].pid # NoId
      BY <2>3, <3>1, <3>3
         DEF IInv, RowInv, ActiveRows, RowStatus, ProviderStatus, OpenStatus, ClosedStatus
    <3> QED
      BY <3>2, <3>3
  <2> QED
    BY <2>1, <2>2, <2>3 DEF OrdersAreReconcilable
<1> QED
  BY Invariance, <1>1, PTL

-----------------------------------------------------------------------------
(* Ids are kept. *)

(* A row changes its id in one step only: the upsert ahead of a submission. *)
IdKept(k) ==
    store[k] # NoRow /\ store[k].pid # NoId
        => store'[k] # NoRow /\ store'[k].pid = store[k].pid

LEMMA SameOrder ==
    ASSUME IInv, NEW k \in Keys, NEW o \in OrderIds, Owns(o, k),
           store[k] # NoRow, store[k].pid # NoId
    PROVE  o = store[k].pid
<1>1. store[k].pid \in OrderIds
  BY DEF IInv, TypeInv, TypeOK, Row
<1> QED
  BY <1>1 DEF IInv, RowInv, BrokerInv, Owns

LEMMA IdStep ==
    ASSUME IInv, [Next]_vars, Durable
    PROVE  \A k \in Keys : IdKept(k) \/ \E w \in Workers : At(w, "record") /\ call[w].key = k
<1>a. /\ TypeOK /\ TypeInv /\ StoreTyped /\ call \in [Workers -> Call]
      /\ \A w \in Workers : CallInv(w)
  BY DEF IInv, TypeInv, TypeOK, StoreTyped
<1>1. ASSUME UNCHANGED store PROVE \A k \in Keys : IdKept(k)
  BY <1>1 DEF IdKept
<1>2. ASSUME NEW w \in Workers, Adopt(w) PROVE \A k \in Keys : IdKept(k)
  <2>1. call[w].key \in Keys /\ call[w].oid \in OrderIds /\ call[w].seen \in RowStatus
    BY <1>a, <1>2 DEF Adopt, At, TypeInv, InHand, Holding, Call
  <2>2. Owns(call[w].oid, call[w].key)
    BY <1>a, <2>1, SentinelAssumption DEF CallInv
  <2>3. CASE Upsert(call[w].key, "adopted", call[w].oid, call[w].seen)
    BY <1>a, <2>1, <2>2, <2>3, UpsertEffect, SameOrder DEF IdKept, OtherRowsStay
  <2> QED
    BY <1>1, <1>2, <2>3 DEF Adopt
<1>3. ASSUME NEW w \in Workers, Confirm(w) PROVE \A k \in Keys : IdKept(k)
  <2>1. call[w].key \in Keys /\ call[w].oid \in OrderIds /\ call[w].seen \in RowStatus
    BY <1>a, <1>3 DEF Confirm, At, TypeInv, InHand, Holding, Call
  <2>2. Owns(call[w].oid, call[w].key)
    BY <1>a, <2>1, SentinelAssumption DEF CallInv
  <2>3. CASE UpdateProviderInfo(call[w].key, {"plan"}, call[w].oid, call[w].seen)
    BY <1>a, <2>1, <2>2, <2>3, UpdateProviderInfoEffect, SameOrder DEF IdKept, OtherRowsStay
  <2> QED
    BY <1>1, <1>3, <2>3 DEF Confirm
<1>4. ASSUME NEW k \in Keys, NEW forms, NEW status \in RowStatus, UpdateStatus(k, forms, status)
      PROVE  \A j \in Keys : IdKept(j)
  BY <1>a, <1>4, UpdateStatusEffect DEF IdKept, OtherRowsStay
<1>5. ASSUME NEW w \in Workers, Fail(w) \/ PollWrite(w) PROVE \A k \in Keys : IdKept(k)
  <2>1. call[w].key \in Keys /\ call[w].seen \in RowStatus /\ "FAILED" \in RowStatus
    BY <1>a DEF Call, RowStatus
  <2> QED
    BY <1>1, <1>4, <1>5, <2>1 DEF Fail, PollWrite
<1>6. CASE ReconcileWrite
  <2>1. recon.key \in Keys /\ recon.seen \in RowStatus /\ "UNKNOWN_PROVIDER" \in RowStatus
    BY <1>a DEF TypeOK, Recon, RowStatus
  <2>2. CASE recon.oid # NoId
    <3>1. recon.oid \in OrderIds /\ Owns(recon.oid, recon.key)
      BY <1>6, <1>a, <2>2 DEF ReconcileWrite, TypeOK, Recon, IInv, ReconInv
    <3>2. UpdateProviderInfo(recon.key, {"plan", "adopted"}, recon.oid, recon.seen)
      BY <1>6, <2>2 DEF ReconcileWrite
    <3> QED
      BY <1>a, <2>1, <3>1, <3>2, UpdateProviderInfoEffect, SameOrder DEF IdKept, OtherRowsStay
  <2>3. CASE recon.oid = NoId
    BY <1>4, <1>6, <2>1, <2>3 DEF ReconcileWrite
  <2> QED
    BY <2>2, <2>3
<1>7. CASE WindowPasses
  BY <1>a, <1>7, WindowEffect DEF IdKept
<1>8. ASSUME NEW w \in Workers, Record(w)
      PROVE  \A k \in Keys : k # call[w].key => IdKept(k)
  <2>1. call[w].key \in Keys /\ "NULL" \in RowStatus
    BY <1>a DEF Call, RowStatus
  <2>2. CASE Upsert(call[w].key, "plan", NoId, "NULL")
    BY <1>a, <2>1, <2>2, UpsertEffect DEF IdKept, OtherRowsStay
  <2> QED
    BY <1>1, <1>8, <2>2 DEF Record
<1>9. CASE \E w \in Workers : Record(w)
  BY <1>8, <1>9 DEF Record
<1>10. CASE UNCHANGED store
  BY <1>1, <1>10
<1>11. Crash => UNCHANGED store
  BY DEF Crash
<1> QED
  BY <1>2, <1>3, <1>5, <1>6, <1>7, <1>9, <1>10, <1>11
     DEF Next, WorkerStep, ReconcileStep, vars, Execute, CheckLocal, CheckProvider, Submit,
         PollRead, PollTimeout, BrokerProgress, Deliver, ReconcilePending, ReconcileActive,
         ReconcileSpecific, ReconcileLookup, ReconcileRaises, ReconcileDone

(* With a durable store, a provider id that was stored is lost only to the *)
(* upsert of a call that was past both duplicate checks.                   *)
THEOREM IdsKept ==
    ASSUME Durable
    PROVE  Spec => IdsAreKept
<1>1. IInv /\ [Next]_vars =>
        [\A k \in Keys :
          /\ store[k] # NoRow /\ store[k].pid # NoId
          /\ store'[k] = NoRow \/ store'[k].pid # store[k].pid
          => \E w \in Workers : At(w, "record") /\ call[w].key = k]_vars
  BY IdStep DEF IdKept
<1> QED
  BY Invariance, <1>1, PTL DEF Spec, IdsAreKept

-----------------------------------------------------------------------------
(* The package implements OrderLedger. *)

LEMMA StateNone ==
    ASSUME NEW os, NEW k, \A o \in OrderIds : os[o] # NoOrder => os[o].key # k
    PROVE  LedgerState(os, k) = "none"
BY DEF LedgerState

LEMMA StateOne ==
    ASSUME NEW os, NEW k, NEW o \in OrderIds, os[o] # NoOrder, os[o].key = k,
           \A p \in OrderIds : os[p] # NoOrder /\ os[p].key = k => p = o
    PROVE  LedgerState(os, k) = IF IsActive(os[o].status) THEN "open" ELSE "closed"
<1>1. {p \in OrderIds : os[p] # NoOrder /\ os[p].key = k} = {o}
  OBVIOUS
<1> QED
  BY <1>1 DEF LedgerState

LEMMA StateSame ==
    ASSUME NEW os, NEW pt, NEW k,
           \A o \in OrderIds : (os[o] # NoOrder /\ os[o].key = k)
                                 <=> (pt[o] # NoOrder /\ pt[o].key = k),
           \A o \in OrderIds : os[o] # NoOrder /\ os[o].key = k =>
                                 (IsActive(os[o].status) <=> IsActive(pt[o].status))
    PROVE  LedgerState(os, k) = LedgerState(pt, k)
<1> DEFINE mine(f) == {o \in OrderIds : f[o] # NoOrder /\ f[o].key = k}
<1>1. mine(os) = mine(pt)
  OBVIOUS
<1>2. (\E o \in mine(os) : IsActive(os[o].status)) <=> (\E o \in mine(pt) : IsActive(pt[o].status))
  BY <1>1
<1>3. mine(os) = {} <=> mine(pt) = {}
  BY <1>1
<1> QED
  BY <1>2, <1>3, Zenon DEF LedgerState

(* A new order takes its identity from "none" to "open" or "closed". *)
LEMMA AcceptPlaces ==
    ASSUME IInv, NEW r \in [cid : Keys, key : Keys], r.cid = r.key, r.key \in requested,
           NEW o \in OrderIds, NEW s \in ProviderStatus, Accept(r, o, s), UNCHANGED requested
    PROVE  Ledger!Place(r.key)
<1>a. TypeOK
  BY DEF IInv, TypeInv
<1>1. /\ orders[o] = NoOrder /\ orders'[o] # NoOrder
      /\ orders'[o].key = r.key /\ orders'[o].status = s
      /\ \A p \in OrderIds \ {o} : orders'[p] = orders[p]
      /\ \A p \in OrderIds : orders[p] # NoOrder => orders[p].cid # r.cid
  BY <1>a, AcceptEffect
<1>2. \A p \in OrderIds : orders[p] # NoOrder => orders[p].key # r.key
  BY <1>1 DEF IInv, BrokerInv
<1>3. LedgerState(orders, r.key) = "none"
  BY <1>2, StateNone
<1>4. LedgerState(orders', r.key) \in {"open", "closed"}
  <2>1. \A p \in OrderIds : orders'[p] # NoOrder /\ orders'[p].key = r.key => p = o
    BY <1>1, <1>2
  <2> DEFINE os == orders'
  <2>2. os[o] # NoOrder /\ os[o].key = r.key
    BY <1>1
  <2>3. \A p \in OrderIds : os[p] # NoOrder /\ os[p].key = r.key => p = o
    BY <2>1
  <2>4. LedgerState(os, r.key) = IF IsActive(os[o].status) THEN "open" ELSE "closed"
    <3> HIDE DEF os
    <3> QED
      BY <2>2, <2>3, StateOne
  <2> QED
    BY <2>4
<1>5. \A k \in Keys \ {r.key} : LedgerState(orders', k) = LedgerState(orders, k)
  <2> TAKE k \in Keys \ {r.key}
  <2>1. \A p \in OrderIds : (orders'[p] # NoOrder /\ orders'[p].key = k)
                              <=> (orders[p] # NoOrder /\ orders[p].key = k)
    BY <1>1
  <2>2. \A p \in OrderIds : orders'[p] # NoOrder /\ orders'[p].key = k => orders'[p] = orders[p]
    BY <1>1
  <2> DEFINE os == orders'
  <2>3. \A p \in OrderIds : (os[p] # NoOrder /\ os[p].key = k)
                              <=> (orders[p] # NoOrder /\ orders[p].key = k)
    BY <2>1
  <2>4. \A p \in OrderIds : os[p] # NoOrder /\ os[p].key = k => os[p] = orders[p]
    BY <2>2
  <2>5. LedgerState(os, k) = LedgerState(orders, k)
    <3> HIDE DEF os
    <3> QED
      BY <2>3, <2>4, StateSame
  <2> QED
    BY <2>5
<1>6. placed' = [placed EXCEPT ![r.key] = LedgerState(orders', r.key)]
  BY <1>5 DEF placed
<1>7. placed[r.key] = "none"
  BY <1>3 DEF placed
<1> QED
  BY <1>4, <1>6, <1>7 DEF Ledger!Place

(* An order that moves stays open, or closes its identity. *)
LEMMA ProgressCloses ==
    ASSUME IInv, NEW o \in OrderIds, BrokerProgress(o)
    PROVE  UNCHANGED <<requested, placed>> \/ Ledger!Close(orders[o].key)
<1>a. TypeOK
  BY DEF IInv, TypeInv
<1> DEFINE k == orders[o].key
<1> DEFINE os == orders'
<1>1. orders[o] # NoOrder /\ IsActive(orders[o].status) /\ k \in Keys /\ orders[o] \in Order
  BY <1>a DEF BrokerProgress, TypeOK, Order
<1>2. PICK s \in ProviderStatus : orders' = [orders EXCEPT ![o].status = s]
  BY DEF BrokerProgress
<1>3. [orders[o] EXCEPT !.status = s] \in Order
  BY <1>1, <1>2 DEF Order
<1>4. /\ os[o] # NoOrder /\ os[o].key = k /\ os[o].status = s
      /\ \A p \in OrderIds \ {o} : os[p] = orders[p]
  <2>1. os[o] = [orders[o] EXCEPT !.status = s]
    BY <1>a, <1>2 DEF TypeOK
  <2>2. os[o] # NoOrder
    BY <1>3, <2>1, SentinelAssumption
  <2>3. os[o].key = k /\ os[o].status = s
    BY <1>1, <2>1 DEF Order
  <2>4. \A p \in OrderIds \ {o} : os[p] = orders[p]
    BY <1>a, <1>2 DEF TypeOK
  <2> QED
    BY <2>2, <2>3, <2>4
<1>5. \A p \in OrderIds : orders[p] # NoOrder /\ orders[p].key = k => p = o
  BY <1>1 DEF IInv, BrokerInv
<1>6. \A p \in OrderIds : os[p] # NoOrder /\ os[p].key = k => p = o
  BY <1>4, <1>5
<1>7. k = orders[o].key
  OBVIOUS
<1>8. placed' = [j \in Keys |-> LedgerState(os, j)]
  BY DEF placed
<1>9. UNCHANGED requested
  BY DEF BrokerProgress
<1> HIDE DEF k, os
<1>10. LedgerState(orders, k) = "open"
  BY <1>1, <1>5, <1>7, StateOne
<1>11. LedgerState(os, k) = IF IsActive(s) THEN "open" ELSE "closed"
  BY <1>4, <1>6, StateOne
<1>12. \A j \in Keys \ {k} : LedgerState(os, j) = LedgerState(orders, j)
  <2> TAKE j \in Keys \ {k}
  <2>1. \A p \in OrderIds : (os[p] # NoOrder /\ os[p].key = j)
                              <=> (orders[p] # NoOrder /\ orders[p].key = j)
    BY <1>1, <1>4, <1>7
  <2>2. \A p \in OrderIds : os[p] # NoOrder /\ os[p].key = j => os[p] = orders[p]
    BY <1>4
  <2> QED
    BY <2>1, <2>2, StateSame
<1>13. CASE IsActive(s)
  BY <1>8, <1>9, <1>10, <1>11, <1>12, <1>13 DEF placed
<1>14. CASE ~IsActive(s)
  <2>1. placed' = [placed EXCEPT ![k] = "closed"]
    BY <1>8, <1>11, <1>12, <1>14 DEF placed
  <2>2. placed[k] = "open"
    BY <1>1, <1>7, <1>10 DEF placed, k
  <2> QED
    BY <1>7, <1>9, <2>1, <2>2 DEF Ledger!Close
<1> QED
  BY <1>13, <1>14

LEMMA LedgerStep ==
    ASSUME IInv, [Next]_vars
    PROVE  [Ledger!Next]_Ledger!ledgerVars
<1>a. TypeOK /\ call \in [Workers -> Call] /\ inflight \subseteq [cid : Keys, key : Keys]
  BY DEF IInv, TypeInv, TypeOK
<1> SUFFICES UNCHANGED <<requested, placed>> \/ Ledger!Next
  BY DEF Ledger!ledgerVars
<1>1. CASE UNCHANGED <<orders, requested>>
  BY <1>1 DEF placed
<1>2. ASSUME NEW w \in Workers, NEW k \in Keys, NEW dry \in BOOLEAN, NEW track \in BOOLEAN,
             Execute(w, k, dry, track)
      PROVE  UNCHANGED <<requested, placed>> \/ Ledger!Next
  <2>1. requested' = requested \/ requested' = requested \cup {k}
    BY <1>2 DEF Execute
  <2>2. UNCHANGED placed
    BY <1>2 DEF Execute, placed
  <2> QED
    BY <2>1, <2>2 DEF Ledger!Next, Ledger!Request
<1>3. ASSUME NEW w \in Workers, Submit(w)
      PROVE  UNCHANGED <<requested, placed>> \/ Ledger!Next
  <2> DEFINE r == [cid |-> ClientOrderId(call[w].key), key |-> call[w].key]
  <2>1. r \in [cid : Keys, key : Keys] /\ r.cid = r.key
    BY <1>a DEF Call, ClientOrderId
  <2>2. r.key \in requested
    BY <1>3 DEF Submit, At, IInv, CallInv, Submitting
  <2> HIDE DEF r
  <2>3. UNCHANGED requested
    BY <1>3 DEF Submit
  <2>4. ASSUME NEW o \in OrderIds, NEW s \in ProviderStatus, Accept(r, o, s)
        PROVE  Ledger!Next
    <3>1. Ledger!Place(r.key)
      BY <2>1, <2>2, <2>3, <2>4, AcceptPlaces
    <3> QED
      BY <2>1, <3>1 DEF Ledger!Next
  <2> QED
    BY <1>1, <1>3, <2>3, <2>4 DEF Submit, r
<1>4. ASSUME NEW r \in inflight, Deliver(r)
      PROVE  UNCHANGED <<requested, placed>> \/ Ledger!Next
  <2>1. r \in [cid : Keys, key : Keys] /\ r.cid = r.key /\ r.key \in requested
    BY <1>a DEF IInv, BrokerInv
  <2>2. UNCHANGED requested
    BY <1>4 DEF Deliver
  <2>3. ASSUME NEW o \in OrderIds, NEW s \in ProviderStatus, Accept(r, o, s)
        PROVE  Ledger!Next
    <3>1. Ledger!Place(r.key)
      BY <2>1, <2>2, <2>3, AcceptPlaces
    <3> QED
      BY <2>1, <3>1 DEF Ledger!Next
  <2> QED
    BY <1>1, <1>4, <2>2, <2>3 DEF Deliver
<1>5. ASSUME NEW o \in OrderIds, BrokerProgress(o)
      PROVE  UNCHANGED <<requested, placed>> \/ Ledger!Next
  <2>1. orders[o].key \in Keys
    BY <1>a, <1>5 DEF BrokerProgress, TypeOK, Order
  <2> QED
    BY <1>5, <2>1, ProgressCloses DEF Ledger!Next
<1> QED
  BY <1>1, <1>2, <1>3, <1>4, <1>5
     DEF Next, WorkerStep, ReconcileStep, vars, CheckLocal, CheckProvider, Adopt, Record,
         Confirm, Fail, PollRead, PollWrite, PollTimeout, WindowPasses, ReconcilePending,
         ReconcileActive, ReconcileSpecific, ReconcileLookup, ReconcileWrite,
         ReconcileRaises, ReconcileDone, Crash

LEMMA LedgerInit == Init => Ledger!Init
<1> SUFFICES ASSUME Init PROVE Ledger!Init
  OBVIOUS
<1>1. \A k \in Keys : LedgerState(orders, k) = "none"
  BY StateNone DEF Init
<1> QED
  BY <1>1 DEF Init, Ledger!Init, placed

(* Every behaviour of the package is one of OrderLedger: an identity gets  *)
(* its one order only after a real call was authorised for it, and the     *)
(* order only ever ends.                                                   *)
THEOREM Refinement == Spec => ImplementsLedger
<1>1. IInv /\ [Next]_vars => [Ledger!Next]_Ledger!ledgerVars
  BY LedgerStep
<1> QED
  BY LedgerInit, Invariance, <1>1, PTL DEF Spec, ImplementsLedger, Ledger!Spec

-----------------------------------------------------------------------------
(* Calls and passes come to an end.  That each of their steps is taken at  *)
(* last is the fairness TLC assumes; that there are only so many of them,  *)
(* and that nobody else's step adds one, is proved here.                   *)

(* The steps a call can still take: a round of the tracker is two.         *)
Left(c) ==
    CASE c.pc = "idle" -> 0
      [] c.pc = "fail" -> 1
      [] c.pc = "write" -> 2 * (MaxPolls - c.polls)
      [] c.pc = "poll" -> 2 * (MaxPolls - c.polls) + 1
      [] c.pc = "confirm" -> 2 * MaxPolls + 2
      [] c.pc = "submit" -> 2 * MaxPolls + 3
      [] c.pc \in {"adopt", "record"} -> 2 * MaxPolls + 4
      [] c.pc = "provider" -> 2 * MaxPolls + 5
      [] c.pc = "local" -> 2 * MaxPolls + 6

LEMMA LeftValues ==
    ASSUME NEW c
    PROVE  /\ c.pc = "idle" => Left(c) = 0
           /\ c.pc = "fail" => Left(c) = 1
           /\ c.pc = "write" => Left(c) = 2 * (MaxPolls - c.polls)
           /\ c.pc = "poll" => Left(c) = 2 * (MaxPolls - c.polls) + 1
           /\ c.pc = "confirm" => Left(c) = 2 * MaxPolls + 2
           /\ c.pc = "submit" => Left(c) = 2 * MaxPolls + 3
           /\ c.pc \in {"adopt", "record"} => Left(c) = 2 * MaxPolls + 4
           /\ c.pc = "provider" => Left(c) = 2 * MaxPolls + 5
           /\ c.pc = "local" => Left(c) = 2 * MaxPolls + 6
BY DEF Left

LEMMA LeftTyped ==
    ASSUME TypeInv, NEW w \in Workers
    PROVE  /\ Left(call[w]) \in 0..(2 * MaxPolls + 6)
           /\ ~At(w, "idle") => Left(call[w]) > 0
<1>1. /\ call[w].pc \in Stage /\ call[w].polls \in 0..MaxPolls
      /\ call[w].pc = "write" => call[w].polls < MaxPolls
  BY DEF TypeInv, TypeOK, InHand, Call
<1>2. MaxPolls \in Nat \ {0}
  BY BoundAssumption
<1> DEFINE n == call[w].polls
<1>3. n \in Int /\ 0 <= n /\ n <= MaxPolls
  BY <1>1, <1>2
<1>4. \/ Left(call[w]) = 0 /\ call[w].pc = "idle"
      \/ Left(call[w]) = 1
      \/ Left(call[w]) = 2 * (MaxPolls - n) /\ n < MaxPolls
      \/ Left(call[w]) = 2 * (MaxPolls - n) + 1
      \/ \E i \in 2..6 : Left(call[w]) = 2 * MaxPolls + i
  BY <1>1, LeftValues DEF Stage
<1> HIDE DEF n
<1> QED
  BY <1>2, <1>3, <1>4 DEF At

LEMMA ReturnEnds ==
    ASSUME TypeInv, NEW w \in Workers, ~At(w, "idle"),
           NEW out, NEW oid, NEW status, Return(w, out, oid, status)
    PROVE  Left(call'[w]) < Left(call[w])
<1>1. call'[w].pc = "idle"
  BY DEF Return, TypeInv, TypeOK, Call
<1>2. Left(call'[w]) = 0
  BY <1>1 DEF Left
<1>3. Left(call[w]) \in Int /\ Left(call[w]) > 0
  BY LeftTyped, BoundAssumption
<1> QED
  BY <1>2, <1>3

LEMMA RoundCounts ==
    ASSUME TypeInv, NEW w \in Workers, NextRound(w),
           call[w].pc = "write" \/ (call[w].pc = "poll" /\ call[w].polls < MaxPolls)
    PROVE  Left(call'[w]) < Left(call[w])
<1>1. call'[w].pc = "poll" /\ call'[w].polls = call[w].polls + 1
  BY DEF NextRound, TypeInv, TypeOK, Call
<1>2. call[w].polls \in Int
  BY BoundAssumption DEF TypeInv, TypeOK, Call
<1> QED
  BY <1>1, <1>2, BoundAssumption DEF Left

LEMMA GotoPolls ==
    ASSUME TypeInv, NEW w \in Workers, NEW stage, Goto(w, stage)
    PROVE  call'[w].pc = stage /\ call'[w].polls = call[w].polls
BY DEF Goto, TypeInv, TypeOK, Call

LEMMA HoldPolls ==
    ASSUME TypeInv, NEW w \in Workers, NEW stage, NEW o, NEW status, Hold(w, stage, o, status)
    PROVE  call'[w].pc = stage /\ call'[w].polls = call[w].polls
BY DEF Hold, TypeInv, TypeOK, Call

LEMMA StepCounts ==
    ASSUME TypeInv, NEW w \in Workers, WorkerStep(w)
    PROVE  ~At(w, "idle") /\ Left(call'[w]) < Left(call[w])
<1>a. call[w].polls \in 0..MaxPolls /\ MaxPolls \in Nat
  BY BoundAssumption DEF TypeInv, TypeOK, Call
<1>b. ~At(w, "idle")
  BY DEF WorkerStep, At, CheckLocal, CheckProvider, Adopt, Record, Submit, Confirm, Fail,
         PollRead, PollWrite, PollTimeout
<1>1. CASE CheckLocal(w)
  BY <1>1, <1>a, <1>b, ReturnEnds, LeftValues, GotoPolls DEF CheckLocal, At
<1>2. CASE CheckProvider(w)
  BY <1>2, <1>a, <1>b, ReturnEnds, LeftValues, GotoPolls, HoldPolls DEF CheckProvider, At
<1>3. CASE Adopt(w)
  BY <1>3, <1>b, ReturnEnds DEF Adopt
<1>4. CASE Record(w)
  BY <1>4, <1>a, <1>b, ReturnEnds, LeftValues, GotoPolls DEF Record, At
<1>5. CASE Submit(w)
  BY <1>5, <1>a, <1>b, LeftValues, GotoPolls, HoldPolls DEF Submit, At
<1>6. CASE Confirm(w)
  BY <1>6, <1>a, <1>b, ReturnEnds, LeftValues, GotoPolls DEF Confirm, At
<1>7. CASE Fail(w)
  BY <1>7, <1>b, ReturnEnds DEF Fail
<1>8. CASE PollRead(w)
  BY <1>8, <1>a, <1>b, ReturnEnds, LeftValues, RoundCounts, HoldPolls DEF PollRead, At
<1>9. CASE PollWrite(w)
  BY <1>9, <1>b, ReturnEnds, LeftValues, RoundCounts DEF PollWrite, At
<1>10. CASE PollTimeout(w)
  BY <1>10, <1>b, ReturnEnds DEF PollTimeout
<1> QED
  BY <1>b, <1>1, <1>2, <1>3, <1>4, <1>5, <1>6, <1>7, <1>8, <1>9, <1>10 DEF WorkerStep

(* Each step of a call leaves it fewer to take, and no step of anybody     *)
(* else, a crash apart, moves a call that runs.                            *)
CallsRunOut ==
    [][\A w \in Workers :
          /\ WorkerStep(w) => Left(call'[w]) < Left(call[w])
          /\ ~At(w, "idle") /\ ~WorkerStep(w) =>
                call'[w] = call[w] \/ call'[w] = IdleCall]_vars

LEMMA RunningStays ==
    ASSUME TypeInv, [Next]_vars, NEW w \in Workers, ~At(w, "idle"), ~WorkerStep(w)
    PROVE  call'[w] = call[w] \/ call'[w] = IdleCall
<1>a. call \in [Workers -> Call]
  BY DEF TypeInv, TypeOK
<1>1. ASSUME NEW v \in Workers, NEW k \in Keys, NEW dry \in BOOLEAN, NEW track \in BOOLEAN,
             Execute(v, k, dry, track)
      PROVE  call'[w] = call[w]
  <2>1. v # w
    BY <1>1 DEF Execute
  <2> QED
    BY <1>a, <1>1, <2>1, ExecuteEffect
<1>2. ASSUME NEW v \in Workers, WorkerStep(v)
      PROVE  call'[w] = call[w]
  <2>1. v # w
    BY <1>2
  <2>2. call'[w] = call[w]
    BY <1>a, <1>2, <2>1
       DEF WorkerStep, CheckLocal, CheckProvider, Adopt, Record, Submit, Confirm, Fail,
           PollRead, PollWrite, PollTimeout, Return, Goto, Hold, NextRound
  <2> QED
    BY <2>2
<1>3. CASE Crash
  BY <1>3 DEF Crash
<1>4. CASE UNCHANGED call
  BY <1>4
<1> QED
  BY <1>1, <1>2, <1>3, <1>4
     DEF Next, vars, ReconcileStep, BrokerProgress, Deliver, WindowPasses, ReconcilePending,
         ReconcileActive, ReconcileSpecific, ReconcileLookup, ReconcileWrite, ReconcileRaises,
         ReconcileDone

(* A call of execute takes 2 * MaxPolls + 6 steps at most, whatever the    *)
(* broker, the store, the other calls and the reconciliation do.           *)
THEOREM CallsAreBounded ==
    Spec => CallsRunOut /\ [](\A w \in Workers : Left(call[w]) \in 0..(2 * MaxPolls + 6))
<1>1. TypeInv /\ [Next]_vars => TypeInv'
  BY TypeStep
<1>2. TypeInv /\ [Next]_vars =>
        [\A w \in Workers :
          /\ WorkerStep(w) => Left(call'[w]) < Left(call[w])
          /\ ~At(w, "idle") /\ ~WorkerStep(w) =>
                call'[w] = call[w] \/ call'[w] = IdleCall]_vars
  BY StepCounts, RunningStays
<1>3. TypeInv => \A w \in Workers : Left(call[w]) \in 0..(2 * MaxPolls + 6)
  BY LeftTyped
<1> QED
  BY TypeInit, <1>1, <1>2, <1>3, PTL DEF Spec, CallsRunOut

(* The steps a pass can still take: a row is looked up and written.        *)
Rounds(r) ==
    CASE r.pc = "idle" -> 0
      [] r.pc = "lookup" -> 2 * Cardinality(r.todo) + 1
      [] r.pc = "write" -> 2 * Cardinality(r.todo) + 2
      [] r.pc = "active" -> 4 * Cardinality(Keys) + 2

LEMMA RoundsValues ==
    ASSUME NEW r
    PROVE  /\ r.pc = "idle" => Rounds(r) = 0
           /\ r.pc = "lookup" => Rounds(r) = 2 * Cardinality(r.todo) + 1
           /\ r.pc = "write" => Rounds(r) = 2 * Cardinality(r.todo) + 2
           /\ r.pc = "active" => Rounds(r) = 4 * Cardinality(Keys) + 2
BY DEF Rounds

LEMMA TodoCounts ==
    ASSUME IsFiniteSet(Keys), NEW S \in SUBSET Entries
    PROVE  /\ Cardinality(S) \in Nat /\ Cardinality(Keys) \in Nat
           /\ Cardinality(S) <= 2 * Cardinality(Keys)
           /\ \A e \in S : Cardinality(S \ {e}) = Cardinality(S) - 1
<1>1. IsFiniteSet({"pending", "active"}) /\ Cardinality({"pending", "active"}) = 2
  <2>1. IsFiniteSet({"pending"}) /\ Cardinality({"pending"}) = 1
    BY FS_Singleton
  <2>2. {"pending", "active"} = {"pending"} \cup {"active"} /\ "active" \notin {"pending"}
    OBVIOUS
  <2> QED
    BY <2>1, <2>2, FS_AddElement
<1>2. IsFiniteSet(Entries) /\ Cardinality(Entries) = 2 * Cardinality(Keys)
  BY <1>1, FS_Product DEF Entries
<1>3. IsFiniteSet(S) /\ Cardinality(S) <= Cardinality(Entries)
  BY <1>2, FS_Subset
<1> QED
  BY <1>2, <1>3, FS_CardinalityType, FS_RemoveElement

LEMMA PassStepCounts ==
    ASSUME IsFiniteSet(Keys), TypeOK, ReconcileStep
    PROVE  Rounds(recon') < Rounds(recon)
<1>a. recon \in Recon /\ recon.todo \in SUBSET Entries
  BY DEF TypeOK, Recon
<1> DEFINE n == Cardinality(recon.todo)
           keys == Cardinality(Keys)
<1>b. n \in Nat /\ keys \in Nat
  BY <1>a, TodoCounts
<1>1. CASE ReconcileActive
  <2>1. recon.pc = "active" /\ recon'.pc = "lookup" /\ recon'.todo \in SUBSET Entries
    BY <1>1, <1>a DEF ReconcileActive, ActiveRows, Recon, Entries
  <2>2. Cardinality(recon'.todo) \in Nat /\ Cardinality(recon'.todo) <= 2 * keys
    BY <2>1, TodoCounts
  <2>3. Rounds(recon') = 2 * Cardinality(recon'.todo) + 1 /\ Rounds(recon) = 4 * keys + 2
    BY <2>1, RoundsValues
  <2> HIDE DEF keys
  <2> QED
    BY <1>b, <2>2, <2>3
<1>2. ASSUME NEW list \in {"pending", "active"}, NEW k \in Keys, ReconcileLookup(list, k)
      PROVE  Rounds(recon') < Rounds(recon)
  <2>1. /\ recon.pc = "lookup" /\ <<list, k>> \in recon.todo
        /\ recon'.pc = "write" /\ recon'.todo = recon.todo \ {<<list, k>>}
    BY <1>2, <1>a DEF ReconcileLookup, Remaining, Recon
  <2>2. Cardinality(recon'.todo) = n - 1
    BY <2>1, <1>a, TodoCounts
  <2>3. Rounds(recon') = 2 * (n - 1) + 2 /\ Rounds(recon) = 2 * n + 1
    BY <2>1, <2>2, RoundsValues
  <2> HIDE DEF n
  <2> QED
    BY <1>b, <2>3
<1>3. CASE ReconcileWrite
  <2>1. recon.pc = "write" /\ recon'.pc = "lookup" /\ recon'.todo = recon.todo
    BY <1>3, <1>a DEF ReconcileWrite, Recon
  <2>2. Rounds(recon') = 2 * n + 1 /\ Rounds(recon) = 2 * n + 2
    BY <2>1, RoundsValues
  <2> HIDE DEF n
  <2> QED
    BY <1>b, <2>2
<1>4. CASE ReconcileRaises \/ ReconcileDone
  <2>1. recon'.pc = "idle" /\ recon.pc \in {"active", "lookup", "write"}
    BY <1>4 DEF ReconcileRaises, ReconcileDone, IdleRecon
  <2>2. /\ Rounds(recon') = 0
        /\ Rounds(recon) \in {2 * n + 1, 2 * n + 2, 4 * keys + 2}
    BY <2>1, RoundsValues
  <2> HIDE DEF n, keys
  <2> QED
    BY <1>b, <2>2
<1> QED
  BY <1>1, <1>2, <1>3, <1>4 DEF ReconcileStep

LEMMA PassStays ==
    ASSUME [Next]_vars, recon.pc # "idle", ~ReconcileStep
    PROVE  recon' = recon \/ recon' = IdleRecon
BY DEF Next, vars, WorkerStep, Execute, CheckLocal, CheckProvider, Adopt, Record, Submit,
       Confirm, Fail, PollRead, PollWrite, PollTimeout, BrokerProgress, Deliver, WindowPasses,
       ReconcilePending, ReconcileSpecific, Crash

(* Each step of a pass leaves it fewer to take, and no step of anybody     *)
(* else, a crash apart, touches it.                                        *)
PassesRunOut ==
    [][/\ ReconcileStep => Rounds(recon') < Rounds(recon)
       /\ recon.pc # "idle" /\ ~ReconcileStep => recon' = recon \/ recon' = IdleRecon]_vars

(* A reconciliation pass takes 4 * |Keys| + 2 steps at most: a row is      *)
(* taken once from each list, however often callers write it meanwhile.    *)
THEOREM PassesAreBounded ==
    ASSUME IsFiniteSet(Keys)
    PROVE  Spec => PassesRunOut /\ [](Rounds(recon) \in 0..(4 * Cardinality(Keys) + 2))
<1>1. TypeInv /\ [Next]_vars => TypeInv'
  BY TypeStep
<1>2. TypeInv /\ [Next]_vars =>
        [/\ ReconcileStep => Rounds(recon') < Rounds(recon)
         /\ recon.pc # "idle" /\ ~ReconcileStep => recon' = recon \/ recon' = IdleRecon]_vars
  BY PassStepCounts, PassStays DEF TypeInv
<1>3. TypeInv => Rounds(recon) \in 0..(4 * Cardinality(Keys) + 2)
  <2> SUFFICES ASSUME TypeInv PROVE Rounds(recon) \in 0..(4 * Cardinality(Keys) + 2)
    OBVIOUS
  <2>1. recon.pc \in {"idle", "active", "lookup", "write"} /\ recon.todo \in SUBSET Entries
    BY DEF TypeInv, TypeOK, Recon
  <2> DEFINE n == Cardinality(recon.todo)
             keys == Cardinality(Keys)
  <2>2. n \in Nat /\ keys \in Nat /\ n <= 2 * keys
    BY <2>1, TodoCounts
  <2>3. Rounds(recon) \in {0, 2 * n + 1, 2 * n + 2, 4 * keys + 2}
    BY <2>1, RoundsValues
  <2> HIDE DEF n, keys
  <2>4. Rounds(recon) \in 0..(4 * keys + 2)
    BY <2>2, <2>3
  <2> QED
    BY <2>4 DEF keys
<1> QED
  BY TypeInit, <1>1, <1>2, <1>3, PTL DEF Spec, PassesRunOut

-----------------------------------------------------------------------------
(* What is overlooked.  A row without an order id that fell out of the     *)
(* window of get_pending_executions is neither pending nor active.         *)

Overlooked(k) ==
    /\ store[k] # NoRow /\ store[k].pid = NoId /\ ~store[k].fresh
    /\ <<"pending", k>> \notin recon.todo /\ <<"active", k>> \notin recon.todo
    /\ recon.pc = "write" => recon.key # k

(* It stays so until somebody executes that plan again or names the row.   *)
StaleRowsAreOverlooked ==
    [][\A k \in Keys : Overlooked(k) =>
          \/ Overlooked(k)'
          \/ \E w \in Workers : call[w].key = k /\ WorkerStep(w)
          \/ ReconcileSpecific(k)]_vars

LEMMA OverlookedStep ==
    ASSUME TypeInv, Durable, [Next]_vars, NEW k \in Keys, Overlooked(k),
           ~\E w \in Workers : call[w].key = k /\ WorkerStep(w),
           ~ReconcileSpecific(k)
    PROVE  Overlooked(k)'
<1>a. TypeOK /\ store \in [Keys -> Row \cup {NoRow}] /\ recon \in Recon
  BY DEF TypeInv, TypeOK
<1>b. /\ store[k] # NoRow /\ store[k].pid = NoId /\ ~store[k].fresh
      /\ <<"pending", k>> \notin recon.todo /\ <<"active", k>> \notin recon.todo
      /\ recon.pc = "write" => recon.key # k
  BY DEF Overlooked
<1>c. k \notin PendingRows /\ k \notin ActiveRows
  BY <1>b DEF PendingRows, ActiveRows
<1>1. ASSUME store'[k] = store[k], UNCHANGED recon PROVE Overlooked(k)'
  BY <1>1, <1>b DEF Overlooked
<1>2. ASSUME store'[k] = store[k], recon'.pc # "write",
             <<"pending", k>> \notin recon'.todo, <<"active", k>> \notin recon'.todo
      PROVE  Overlooked(k)'
  BY <1>2, <1>b DEF Overlooked
<1>3. ASSUME NEW w \in Workers, WorkerStep(w)
      PROVE  Overlooked(k)'
  <2>1. call[w].key # k /\ call[w].key \in Keys
    BY <1>3 DEF TypeInv, TypeOK, Call
  <2>2. store'[k] = store[k] /\ UNCHANGED recon
    BY <1>3, <1>a, <2>1
       DEF WorkerStep, CheckLocal, CheckProvider, Adopt, Record, Submit, Confirm, Fail, PollRead,
           PollWrite, PollTimeout, Upsert, UpdateProviderInfo, UpdateStatus
  <2> QED
    BY <1>1, <2>2
<1>4. CASE WindowPasses
  <2>1. /\ store'[k] = [form |-> store[k].form, pid |-> store[k].pid,
                        status |-> store[k].status, fresh |-> FALSE]
        /\ UNCHANGED recon /\ store'[k] # NoRow
    <3>1. store'[k] = [form |-> store[k].form, pid |-> store[k].pid,
                       status |-> store[k].status, fresh |-> FALSE] /\ UNCHANGED recon
      BY <1>4, <1>b DEF WindowPasses
    <3>2. store'[k] \in Row
      BY <1>a, <1>b, <3>1 DEF Row
    <3> QED
      BY <3>1, <3>2, SentinelAssumption
  <2> QED
    BY <1>b, <2>1 DEF Overlooked
<1>5. CASE ReconcilePending \/ ReconcileActive
  <2>1. CASE ReconcilePending
    <3>1. recon'.pc = "active" /\ recon'.todo = {"pending"} \X PendingRows /\ UNCHANGED store
      BY <1>a, <2>1 DEF ReconcilePending, Recon
    <3> QED
      BY <1>2, <1>c, <3>1
  <2>2. CASE ReconcileActive
    <3> DEFINE ids == [j \in Keys |-> IF j \in ActiveRows THEN store[j].pid ELSE NoId]
    <3>1. recon' = [recon EXCEPT !.pc = "lookup", !.todo = @ \cup ({"active"} \X ActiveRows),
                                 !.ids = ids]
          /\ UNCHANGED store
      BY <2>2 DEF ReconcileActive
    <3> HIDE DEF ids
    <3>2. recon'.pc = "lookup" /\ recon'.todo = recon.todo \cup ({"active"} \X ActiveRows)
      BY <1>a, <3>1 DEF Recon
    <3> QED
      BY <1>2, <1>b, <1>c, <3>1, <3>2
  <2> QED
    BY <1>5, <2>1, <2>2
<1>6. ASSUME NEW j \in Keys, ReconcileSpecific(j)
      PROVE  Overlooked(k)'
  <2>1. j # k
    BY <1>6
  <2>2. recon'.pc # "write" /\ recon'.todo = {<<"active", j>>} /\ UNCHANGED store
    BY <1>6, <1>a DEF ReconcileSpecific, Recon
  <2> QED
    BY <1>2, <2>1, <2>2
<1>7. ASSUME NEW list \in {"pending", "active"}, NEW j \in Keys, ReconcileLookup(list, j)
      PROVE  Overlooked(k)'
  <2>1. j # k /\ recon'.key = j /\ recon'.todo = recon.todo \ {<<list, j>>} /\ UNCHANGED store
    BY <1>7, <1>a, <1>b DEF ReconcileLookup, Remaining, Recon
  <2> QED
    BY <1>b, <2>1 DEF Overlooked
<1>8. CASE ReconcileWrite
  <2>1. recon.key # k /\ recon'.pc = "lookup" /\ recon'.todo = recon.todo
    BY <1>8, <1>a, <1>b DEF ReconcileWrite, Recon
  <2>2. store'[k] = store[k]
    BY <1>8, <1>a, <2>1 DEF ReconcileWrite, UpdateProviderInfo, UpdateStatus
  <2> QED
    BY <1>2, <1>b, <2>1, <2>2
<1>9. CASE ReconcileRaises \/ ReconcileDone \/ Crash
  <2>1. recon' = IdleRecon /\ UNCHANGED store
    BY <1>9 DEF ReconcileRaises, ReconcileDone, Crash
  <2> QED
    BY <1>2, <2>1 DEF IdleRecon
<1>10. CASE UNCHANGED <<store, recon>>
  BY <1>1, <1>10
<1> QED
  BY <1>3, <1>4, <1>5, <1>6, <1>7, <1>8, <1>9, <1>10
     DEF Next, vars, ReconcileStep, Execute, BrokerProgress, Deliver

(* A submission whose outcome was still unknown when its row left the      *)
(* window is reconciled by no pass ever after: only a call of execute for  *)
(* that plan, or reconcile_specific, comes back to it (store.py:162).      *)
THEOREM StaleOverlooked ==
    ASSUME Durable
    PROVE  Spec => StaleRowsAreOverlooked
<1>1. TypeInv /\ [Next]_vars => TypeInv'
  BY TypeStep
<1>2. TypeInv /\ [Next]_vars =>
        [\A k \in Keys : Overlooked(k) =>
          \/ Overlooked(k)'
          \/ \E w \in Workers : call[w].key = k /\ WorkerStep(w)
          \/ ReconcileSpecific(k)]_vars
  BY OverlookedStep
<1> QED
  BY TypeInit, <1>1, <1>2, PTL DEF Spec, StaleRowsAreOverlooked
=============================================================================
