----------------------------- MODULE Committee -----------------------------
(***************************************************************************)
(* M3, the investment committee (src/backend/app/committee): four LLM      *)
(* agents give independent opinions on a candidate, those in the minority  *)
(* of a disagreement are challenged and answer once, and the opinions are  *)
(* aggregated into a decision.  Deterministic but for the agents: each     *)
(* call of the LLM may fail on its own.                                    *)
(*                                                                         *)
(* One step is one call of the LLM, or the computation between two calls.  *)
(* Confidences are integers of 0..Full, Full standing for 1; products are  *)
(* exact and quotients are compared by cross multiplication, where the     *)
(* code rounds Decimals to 28 digits.                                      *)
(*                                                                         *)
(* Operators named Faulty... are not part of the specification: each is an *)
(* operator of it with a plausible bug, for testing the properties.        *)
(***************************************************************************)
EXTENDS Integers, FiniteSets

CONSTANTS
    Full,           \* a confidence of 1
    Confidences,    \* the confidences the LLM may state
    EnableRebuttal  \* the constructor's enable_rebuttal

ASSUME ConfidenceAssumption == Full \in Nat \ {0} /\ Confidences \subseteq 0..Full
ASSUME SwitchAssumption == EnableRebuttal \in BOOLEAN

Agents == {"QUANT", "BULL", "BEAR", "REGIME"}

(* The list the first round goes through. *)
After == [QUANT |-> "BULL", BULL |-> "BEAR", BEAR |-> "REGIME", REGIME |-> "NOBODY"]

(* DEFAULT_WEIGHTS, in percent. *)
Weight == [QUANT |-> 30, BULL |-> 25, BEAR |-> 25, REGIME |-> 20]

StanceValue == [STRONG_LONG |-> 2, LONG |-> 1, NEUTRAL |-> 0, SHORT |-> -1, STRONG_SHORT |-> -2]
Stances == DOMAIN StanceValue

Opinion == [stance : Stances \cup {"ABSTAIN"}, confidence : Confidences, round : {1, 2}]

(* An AgentResult with status FAILED: no key, no answer in time, no JSON,  *)
(* another role's answer, or evidence cited that was not supplied.         *)
NoOpinion == [stance |-> "FAILED", confidence |-> 0, round |-> 1]

Results == Opinion \cup {NoOpinion}

(* What analyze makes of the LLM's answers. *)
FirstResults == {r \in Results : r.round = 1}

Severities == {"NONE", "LOW", "MEDIUM", "HIGH"}
Reasons == {"NONE", "INSUFFICIENT_ANALYSIS", "HIGH_DISAGREEMENT", "LOW_CONVICTION", "MIXED_EVIDENCE"}
Verdict == [decision : {"PENDING", "PROPOSE_LONG", "PROPOSE_SHORT", "NO_TRADE"}, reason : Reasons]
Pending == [decision |-> "PENDING", reason |-> "NONE"]

VARIABLES
    pc,           \* where evaluate_candidate is
    turn,         \* the agent asked next in the first round
    initial,      \* initial[a]: its result of the first round
    final,        \* final[a]: the opinion that is aggregated
    severity,     \* the severity of the initial disagreement
    todo,         \* agents whose challenge is still to be answered
    verdict       \* the decision model

vars == <<pc, turn, initial, final, severity, todo, verdict>>

Nothing == [a \in Agents |-> NoOpinion]

Init ==
    /\ pc = "idle" /\ turn = "NOBODY"
    /\ initial = Nothing /\ final = Nothing
    /\ severity = "NONE" /\ todo = {}
    /\ verdict = Pending

-----------------------------------------------------------------------------
(* Disagreement.  ops is a function from agents to results. *)

Valid(ops) == {a \in Agents : ops[a].stance \in Stances}
Value(ops, a) == StanceValue[ops[a].stance]
Bullish(ops) == {a \in Valid(ops) : Value(ops, a) > 0}
Bearish(ops) == {a \in Valid(ops) : Value(ops, a) < 0}

(* The spread of the stances, max - min, is at least n. *)
Apart(ops, n) == \E a, b \in Valid(ops) : Value(ops, a) - Value(ops, b) >= n

(* Detecting a disagreement: three agents with a direction make it worse. *)
Severity(ops) ==
    LET crowded == Cardinality(Bullish(ops) \cup Bearish(ops)) >= 3 IN
    IF Apart(ops, 3) THEN "HIGH"
    ELSE IF Apart(ops, 2) THEN IF crowded THEN "MEDIUM" ELSE "LOW"
    ELSE IF Apart(ops, 1) /\ crowded THEN "LOW" ELSE "NONE"

ChallengeRequired(sev) == sev \in {"MEDIUM", "HIGH"}

FaultyChallenged(ops, sev) ==       \* the comparison the wrong way round
    LET bulls == Cardinality(Bullish(ops))
        bears == Cardinality(Bearish(ops))
    IN  IF ~ChallengeRequired(sev) THEN {}
        ELSE IF bulls < bears THEN Bearish(ops)
        ELSE IF bears < bulls THEN Bullish(ops)
        ELSE IF sev = "HIGH" THEN Bullish(ops) \cup Bearish(ops)
        ELSE {}

(* The agents that are challenged: the smaller camp, or both of two equal  *)
(* ones if the disagreement is HIGH.                                       *)
Challenged(ops, sev) ==
    LET bulls == Cardinality(Bullish(ops))
        bears == Cardinality(Bearish(ops))
    IN  IF ~ChallengeRequired(sev) THEN {}
        ELSE IF bulls > bears THEN Bearish(ops)
        ELSE IF bears > bulls THEN Bullish(ops)
        ELSE IF sev = "HIGH" THEN Bullish(ops) \cup Bearish(ops)
        ELSE {}

-----------------------------------------------------------------------------
(* Aggregation *)

MinSuccessfulAgents == 3
MinSuccessfulWeight == 60

(* The weight of one opinion, with its confidence: nothing unless valid. *)
Counts(ops, a) == IF a \in Valid(ops) THEN Weight[a] * ops[a].confidence ELSE 0
Vote(ops, a) == IF a \in Valid(ops) THEN Counts(ops, a) * Value(ops, a) ELSE 0

(* The sum of f over the agents. *)
Total(f) == f["QUANT"] + f["BULL"] + f["BEAR"] + f["REGIME"]

ValidWeight(ops) == Total([a \in Agents |-> IF a \in Valid(ops) THEN Weight[a] ELSE 0])
ConfidenceWeight(ops) == Total([a \in Agents |-> Counts(ops, a)])
WeightedStance(ops) == Total([a \in Agents |-> Vote(ops, a)])
ConfidenceSum(ops) == Total([a \in Agents |-> IF a \in Valid(ops) THEN ops[a].confidence ELSE 0])

FaultyEnough(ops) ==        \* abstentions count towards the quorum
    Cardinality({a \in Agents : ops[a] # NoOpinion}) >= MinSuccessfulAgents
Enough(ops) ==
    Cardinality(Valid(ops)) >= MinSuccessfulAgents /\ ValidWeight(ops) >= MinSuccessfulWeight

(* DISAGREEMENT_PENALTIES, in percent. *)
FaultyPenalty == [NONE |-> 100, LOW |-> 90, MEDIUM |-> 75, HIGH |-> 60]
Penalty == [NONE |-> 100, LOW |-> 95, MEDIUM |-> 85, HIGH |-> 70]

(* The committee's score is (WeightedStance / ConfidenceWeight + 1) * 50,  *)
(* or 50 without any confidence, times the penalty.  AtLeast and AtMost    *)
(* compare it with n; cutting it to 0..100 changes neither for such an n.  *)
Stance(ops) == IF ConfidenceWeight(ops) > 0 THEN WeightedStance(ops) ELSE 0
Scale(ops) == IF ConfidenceWeight(ops) > 0 THEN ConfidenceWeight(ops) ELSE 1
FaultyAtLeast(ops, sev, n) ==       \* divided by the penalty
    (Stance(ops) + Scale(ops)) * 10000 >= 2 * n * Scale(ops) * Penalty[sev]
AtLeast(ops, sev, n) == (Stance(ops) + Scale(ops)) * Penalty[sev] >= 2 * n * Scale(ops)
AtMost(ops, sev, n) == (Stance(ops) + Scale(ops)) * Penalty[sev] <= 2 * n * Scale(ops)

(* The mean confidence of the valid agents, times the penalty, is below a half. *)
LowConviction(ops, sev) ==
    2 * ConfidenceSum(ops) * Penalty[sev] < 100 * Full * Cardinality(Valid(ops))

Aggregate(ops, sev) ==
    IF ~Enough(ops) THEN [decision |-> "NO_TRADE", reason |-> "INSUFFICIENT_ANALYSIS"]
    ELSE IF AtLeast(ops, sev, 60) THEN [decision |-> "PROPOSE_LONG", reason |-> "NONE"]
    ELSE IF AtMost(ops, sev, 40) THEN [decision |-> "PROPOSE_SHORT", reason |-> "NONE"]
    ELSE [decision |-> "NO_TRADE",
          reason |-> IF ChallengeRequired(sev) THEN "HIGH_DISAGREEMENT"
                     ELSE IF LowConviction(ops, sev) THEN "LOW_CONVICTION"
                     ELSE "MIXED_EVIDENCE"]

-----------------------------------------------------------------------------
(* The next candidate of evaluate_candidate_set. *)
Begin ==
    /\ pc \in {"idle", "done"}
    /\ pc' = "asking" /\ turn' = "QUANT"
    /\ initial' = Nothing /\ final' = Nothing
    /\ severity' = "NONE" /\ todo' = {}
    /\ verdict' = Pending

(* The first round: the agents are asked in turn, whatever the others said. *)
Analyze ==
    /\ pc = "asking" /\ turn # "NOBODY"
    /\ \E result \in FirstResults : initial' = [initial EXCEPT ![turn] = result]
    /\ turn' = After[turn]
    /\ UNCHANGED <<pc, final, severity, todo, verdict>>

(* All have answered: is there a disagreement, and who is challenged? *)
Detect ==
    /\ pc = "asking" /\ turn = "NOBODY"
    /\ severity' = Severity(initial)
    /\ todo' = IF EnableRebuttal THEN Challenged(initial, Severity(initial)) ELSE {}
    /\ final' = initial
    /\ pc' = "rebuttal"
    /\ UNCHANGED <<turn, initial, verdict>>

(* The prompt of a rebuttal is made by format() from a template whose JSON *)
(* example has braces of its own: a KeyError, before the LLM is asked.  It *)
(* is caught, and the rebuttal FAILED, so that service.py:95, "use         *)
(* rebuttal if available, else initial", always keeps the first opinion.   *)
Rebutted(a) == NoOpinion

(* One challenge is put.  A failed rebuttal leaves the opinion before it.  *)
(* No rebuttal depends on another; their order is left open.               *)
Rebut(a) ==
    /\ pc = "rebuttal" /\ a \in todo
    /\ todo' = todo \ {a}
    /\ final' = IF Rebutted(a) = NoOpinion THEN final ELSE [final EXCEPT ![a] = Rebutted(a)]
    /\ UNCHANGED <<pc, turn, initial, severity, verdict>>

(* The final disagreement, the aggregation and the decision. *)
FaultyDecide ==     \* without waiting for the challenges
    /\ pc = "rebuttal"
    /\ verdict' = Aggregate(final, Severity(final))
    /\ pc' = "done"
    /\ UNCHANGED <<turn, initial, final, severity, todo>>
Decide ==
    /\ pc = "rebuttal" /\ todo = {}
    /\ verdict' = Aggregate(final, Severity(final))
    /\ pc' = "done"
    /\ UNCHANGED <<turn, initial, final, severity, todo>>

Next == Begin \/ Analyze \/ Detect \/ (\E a \in Agents : Rebut(a)) \/ Decide

Spec == Init /\ [][Next]_vars

-----------------------------------------------------------------------------
(* Properties *)

(* The variables keep their types, and each stage what it may rely on: no  *)
(* decision before the end, no challenge before everybody was asked.       *)
TypeOK ==
    /\ pc \in {"idle", "asking", "rebuttal", "done"}
    /\ turn \in Agents \cup {"NOBODY"}
    /\ initial \in [Agents -> FirstResults] /\ final \in [Agents -> Results]
    /\ severity \in Severities
    /\ todo \subseteq Agents
    /\ verdict \in Verdict
    /\ verdict = Pending <=> pc # "done"
    /\ todo # {} => pc = "rebuttal"

(* A decision to trade survives one silent agent at most: the other three  *)
(* answered, validly, and took a position.                                 *)
Silent == {a \in Agents : initial[a].stance \in {"FAILED", "ABSTAIN"}}

AtMostOneIsSilent ==
    verdict.decision \in {"PROPOSE_LONG", "PROPOSE_SHORT"} => Cardinality(Silent) <= 1

(* The pull of a camp: weight, confidence and strength of its opinions. *)
Strength(v) == IF v > 0 THEN v ELSE -v
Pull(ops, camp) ==
    Total([a \in Agents |-> IF a \in camp THEN Counts(ops, a) * Strength(Value(ops, a)) ELSE 0])

(* A long is proposed only if the bulls outweigh the bears: a disagreement *)
(* never makes up for missing support.                                     *)
LongNeedsSupport ==
    verdict.decision = "PROPOSE_LONG" => Pull(final, Bullish(final)) > Pull(final, Bearish(final))

(* A short is proposed only if the bears outweigh the bulls, unless the    *)
(* disagreement is HIGH.  The penalty lowers a score that is centred on    *)
(* 50, so at 0.70 a balanced committee scores 35: a short.  At 0.85 it     *)
(* still scores 42.5.                                                      *)
ShortNeedsSupport ==
    verdict.decision = "PROPOSE_SHORT" /\ Severity(final) # "HIGH"
        => Pull(final, Bearish(final)) > Pull(final, Bullish(final))

(* Who is challenged faces at least as many opponents as it has allies,    *)
(* and one at least: _create_challenge quotes opposing_opinions[0].  A     *)
(* HIGH disagreement always challenges somebody.                           *)
Camp(ops, a) == IF a \in Bullish(ops) THEN Bullish(ops) ELSE Bearish(ops)
Opponents(ops, a) == IF a \in Bullish(ops) THEN Bearish(ops) ELSE Bullish(ops)

ChallengesHaveOpponents ==
    [][pc = "asking" /\ pc' = "rebuttal" =>
          /\ \A a \in todo' :
                /\ a \in Camp(initial, a) /\ Opponents(initial, a) # {}
                /\ Cardinality(Camp(initial, a)) <= Cardinality(Opponents(initial, a))
          /\ EnableRebuttal /\ severity' = "HIGH" => todo' # {}]_vars
=============================================================================
