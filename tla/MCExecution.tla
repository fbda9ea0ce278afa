--------------------------- MODULE MCExecution ---------------------------
(* Instances of Execution for TLC. *)
EXTENDS Execution, TLC

(* Workers, keys and order ids are interchangeable: no operator but the    *)
(* CHOOSE of AnyKey tells them apart, and that only fills unused fields.   *)
Interchangeable == Permutations(Workers) \cup Permutations(OrderIds)
==========================================================================
