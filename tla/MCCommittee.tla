---------------------------- MODULE MCCommittee ----------------------------
(* Instances of Committee for TLC. *)
EXTENDS Committee
============================================================================
