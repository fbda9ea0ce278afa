--------------------------- MODULE MCPositions ---------------------------
(* Instances of Positions for TLC. *)
EXTENDS Positions, TLC

(* All positions are of one symbol, and their ids begin alike ("pos-..."). *)
OneSymbol == [p \in PositionIds |-> CHOOSE s \in Symbols : TRUE]
AllLong == [p \in PositionIds |-> "LONG"]
OnePrefix == [p \in PositionIds |-> "pos"]

Interchangeable ==
    Permutations(PositionIds) \cup Permutations(OrderIds) \cup Permutations(Workers)
==========================================================================
