---------------------------- MODULE OrderLedger ----------------------------
(***************************************************************************)
(* What the execution package promises its callers, with no store, gateway *)
(* or reconciler in sight: every execution identity (the idempotency key   *)
(* of an instrument plan) leads to at most one order at the broker, and    *)
(* only after an authorised call that was not a dry run asked for it.      *)
(* Execution.tla is shown to implement this module.                        *)
(***************************************************************************)
CONSTANT Keys        \* the execution identities

VARIABLES
    requested,       \* the identities a real (not dry) call was authorised for
    placed           \* per identity: "none", an "open" order or a "closed" one

ledgerVars == <<requested, placed>>

Init ==
    /\ requested = {}
    /\ placed = [k \in Keys |-> "none"]

(* A call of execute(dry_run=False) passes authorisation. *)
Request(k) ==
    /\ requested' = requested \cup {k}
    /\ UNCHANGED placed

(* The broker accepts the one order of an identity; it may be filled or    *)
(* rejected at once.                                                       *)
Place(k) ==
    /\ k \in requested
    /\ placed[k] = "none"
    /\ \E state \in {"open", "closed"} : placed' = [placed EXCEPT ![k] = state]
    /\ UNCHANGED requested

(* The order ends: filled, cancelled, expired or rejected. *)
Close(k) ==
    /\ placed[k] = "open"
    /\ placed' = [placed EXCEPT ![k] = "closed"]
    /\ UNCHANGED requested

Next == \E k \in Keys : Request(k) \/ Place(k) \/ Close(k)

Spec == Init /\ [][Next]_ledgerVars
============================================================================
