------------------------------ MODULE MCMemory ------------------------------
(* Instances of Memory for TLC: a LONG that gains and is evaluated again   *)
(* without its committee, and a SHORT that loses or gains nothing.         *)
EXTENDS Memory, TLC

MCSymmetry == Permutations(Workers)

MCPosition(id, side, price, pnl) ==
  [id |-> id, side |-> side, status |-> "CLOSED", entry |-> 200, price |-> price, pnl |-> pnl,
   mfe |-> 60, mae |-> 10]

MCOpinion(stance, confidence) == [stance |-> stance, confidence |-> confidence]
Divided ==
  [direction |-> "LONG", confidence |-> 700, disagreement |-> "HIGH",
   opinions |-> [a \in {"QUANT", "BULL", "BEAR"} |->
     CASE a = "QUANT" -> MCOpinion("LONG", 600) [] a = "BULL" -> MCOpinion("STRONG_LONG", 1000)
       [] a = "BEAR" -> MCOpinion("SHORT", 450)]]
Agreed ==
  [direction |-> "SHORT", confidence |-> 800, disagreement |-> "LOW",
   opinions |-> [a \in {"QUANT", "REGIME"} |->
     IF a = "QUANT" THEN MCOpinion("SHORT", 900) ELSE MCOpinion("NEUTRAL", 550)]]

MCEvidence(position, committee) ==
  [position |-> position, committee |-> committee,
   thesis |-> IF committee = None THEN None ELSE IF committee.direction = "LONG" THEN "BULLISH" ELSE "BEARISH",
   risk |-> [decision |-> "REDUCED", budget |-> 500],
   plan |-> [type |-> "STOCK", planned |-> 199, score |-> 80], filled |-> 200, sold |-> None,
   from |-> None, to |-> None]

Won == MCEvidence(MCPosition(1, "LONG", 210, 100), Divided)
Forgotten == [MCEvidence(MCPosition(1, "LONG", 210, 0), None) EXCEPT !.risk = None, !.plan = None]
Lost == MCEvidence(MCPosition(2, "SHORT", 206, -60), Agreed)
MCAllEvidence == {Won, Forgotten, Lost, [Lost EXCEPT !.position.status = "OPEN"]}

MCQuery == [direction |-> "LONG", regime |-> "UP", volatility |-> 3, momentum |-> 1, confidence |-> 750,
            disagreement |-> "HIGH", stock |-> TRUE, float |-> FALSE, k |-> 1]
MCQueries == {MCQuery, [MCQuery EXCEPT !.float = TRUE]}

(* A unanimous committee. *)
Unanimous == [Won EXCEPT !.committee.disagreement = "NONE"]
MCUnanimous == {Unanimous}
=============================================================================
