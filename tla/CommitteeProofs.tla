-------------------------- MODULE CommitteeProofs --------------------------
(***************************************************************************)
(* What Committee guarantees for all confidences the agents may state,     *)
(* with and without rebuttals.                                             *)
(***************************************************************************)
EXTENDS Committee, FiniteSetTheorems, TLAPS

(* The variables keep their types, the opinions that are aggregated are    *)
(* those of the first round, and the decision is their aggregation.        *)
Inv ==
    /\ TypeOK
    /\ pc \in {"rebuttal", "done"} => final = initial
    /\ pc = "done" => verdict = Aggregate(final, Severity(final))

(* Every committee's disagreement has one of the four severities, and its  *)
(* aggregation is a decision with a reason.                                *)
LEMMA SeverityType == ASSUME NEW ops PROVE Severity(ops) \in Severities
BY DEF Severity, Severities

LEMMA AggregateType ==
    ASSUME NEW ops, NEW sev
    PROVE  Aggregate(ops, sev) \in Verdict /\ Aggregate(ops, sev) # Pending
BY DEF Aggregate, Verdict, Reasons, Pending

(* Only agents are challenged. *)
LEMMA ChallengedType == ASSUME NEW ops, NEW sev PROVE Challenged(ops, sev) \subseteq Agents
BY DEF Challenged, Bullish, Bearish, Valid

(* A result of the first round is a result; a failed one may be either. *)
LEMMA FirstRound ==
    /\ FirstResults \subseteq Results
    /\ Nothing \in [Agents -> FirstResults] /\ Nothing \in [Agents -> Results]
<1>1. NoOpinion \in FirstResults
    BY DEF FirstResults, Results, NoOpinion
<1> QED
    BY <1>1 DEF FirstResults, Nothing

LEMMA Start == Init => Inv
BY FirstRound DEF Init, Inv, TypeOK, Pending, Severities, Verdict, Reasons

LEMMA Step == Inv /\ [Next]_vars => Inv'
<1> SUFFICES ASSUME Inv, [Next]_vars PROVE Inv'
    OBVIOUS
<1> USE DEF Inv, TypeOK
<1>1. CASE Begin
    BY <1>1, FirstRound DEF Begin, Agents, Pending, Severities, Verdict, Reasons
<1>2. CASE Analyze
  <2>1. turn' \in Agents \cup {"NOBODY"}
    BY <1>2 DEF Analyze, After, Agents
  <2>2. initial' \in [Agents -> FirstResults]
    BY <1>2 DEF Analyze
  <2> QED
    BY <1>2, <2>1, <2>2 DEF Analyze
<1>3. CASE Detect
  <2>1. severity' \in Severities
    BY <1>3, SeverityType DEF Detect
  <2>2. todo' \subseteq Agents
    BY <1>3, ChallengedType DEF Detect
  <2>3. final' \in [Agents -> Results]
    BY <1>3, FirstRound DEF Detect
  <2> QED
    BY <1>3, <2>1, <2>2, <2>3 DEF Detect
<1>4. ASSUME NEW a \in Agents, Rebut(a) PROVE Inv'
  <2>1. final' = final
    BY <1>4 DEF Rebut, Rebutted
  <2> QED
    BY <1>4, <2>1 DEF Rebut
<1>5. CASE Decide
  <2>1. verdict' \in Verdict /\ verdict' # Pending
    BY <1>5, AggregateType DEF Decide
  <2>2. final' = initial' /\ verdict' = Aggregate(final', Severity(final'))
    BY <1>5 DEF Decide
  <2> QED
    BY <1>5, <2>1, <2>2 DEF Decide
<1>6. CASE UNCHANGED vars
    BY <1>6 DEF vars
<1> QED
    BY <1>1, <1>2, <1>3, <1>4, <1>5, <1>6 DEF Next

THEOREM Invariance == Spec => []Inv
BY Start, Step, PTL DEF Spec

(* The variables of a committee always have their types, nothing is        *)
(* decided before the end, and nobody is challenged outside the second     *)
(* round.                                                                  *)
THEOREM TypeCorrect == Spec => []TypeOK
<1>1. Inv => TypeOK
    BY DEF Inv
<1> QED
    BY <1>1, Invariance, PTL

-----------------------------------------------------------------------------
(* There are four agents, and every group of them is finite. *)
LEMMA FourAgents == IsFiniteSet(Agents) /\ Cardinality(Agents) = 4
<1>1. IsFiniteSet({"QUANT"}) /\ Cardinality({"QUANT"}) = 1
    BY FS_Singleton
<1>2. IsFiniteSet({"QUANT"} \cup {"BULL"}) /\ Cardinality({"QUANT"} \cup {"BULL"}) = 2
    BY <1>1, FS_AddElement
<1>3. /\ IsFiniteSet({"QUANT"} \cup {"BULL"} \cup {"BEAR"})
      /\ Cardinality({"QUANT"} \cup {"BULL"} \cup {"BEAR"}) = 3
    BY <1>2, FS_AddElement
<1>4. /\ IsFiniteSet({"QUANT"} \cup {"BULL"} \cup {"BEAR"} \cup {"REGIME"})
      /\ Cardinality({"QUANT"} \cup {"BULL"} \cup {"BEAR"} \cup {"REGIME"}) = 4
    BY <1>3, FS_AddElement
<1>5. Agents = {"QUANT"} \cup {"BULL"} \cup {"BEAR"} \cup {"REGIME"}
    BY DEF Agents
<1> QED
    BY <1>4, <1>5

LEMMA GroupSize ==
    ASSUME NEW S \in SUBSET Agents
    PROVE  IsFiniteSet(S) /\ Cardinality(S) \in Nat /\ (Cardinality(S) = 0 <=> S = {})
BY FourAgents, FS_Subset, FS_CardinalityType, FS_EmptySet

(* A committee that decides to trade has three valid opinions of its four  *)
(* agents: at most one of them failed or abstained.                        *)
THEOREM Quorum == Spec => []AtMostOneIsSilent
<1>1. ASSUME Inv PROVE AtMostOneIsSilent
  <2> SUFFICES ASSUME verdict.decision \in {"PROPOSE_LONG", "PROPOSE_SHORT"}
               PROVE  Cardinality(Silent) <= 1
    BY DEF AtMostOneIsSilent
  <2>1. pc = "done" /\ final = initial
    BY <1>1 DEF Inv, TypeOK, Pending
  <2>2. Enough(initial)
    BY <1>1, <2>1 DEF Inv, Aggregate
  <2>3. Cardinality(Valid(initial)) >= 3
    BY <2>2 DEF Enough, MinSuccessfulAgents
  <2>4. Silent = Agents \ Valid(initial)
    <3>1. \A a \in Agents : initial[a] \in Opinion \/ initial[a] = NoOpinion
      BY <1>1, FirstRound DEF Inv, TypeOK, Results
    <3>2. \A a \in Agents : initial[a].stance \in Stances \cup {"ABSTAIN", "FAILED"}
      BY <3>1 DEF Opinion, NoOpinion
    <3> QED
      BY <3>2 DEF Silent, Valid, Stances, StanceValue
  <2>5. Cardinality(Agents \ Valid(initial)) = Cardinality(Agents) - Cardinality(Agents \cap Valid(initial))
    BY FourAgents, FS_Difference
  <2>6. Agents \cap Valid(initial) = Valid(initial) /\ Cardinality(Valid(initial)) \in Nat
    BY GroupSize DEF Valid
  <2> QED
    BY <2>3, <2>4, <2>5, <2>6, FourAgents
<1> QED
    BY <1>1, Invariance, PTL

-----------------------------------------------------------------------------
(* One agent's share of the pull of a camp. *)
Share(ops, camp, a) == IF a \in camp THEN Counts(ops, a) * Strength(Value(ops, a)) ELSE 0

(* An agent's vote is its share of the bulls' pull less its share of the   *)
(* bears', and none of its figures is negative.                            *)
LEMMA OneVote ==
    ASSUME NEW ops \in [Agents -> Results], NEW a \in Agents
    PROVE  /\ Counts(ops, a) \in Nat
           /\ Share(ops, Bullish(ops), a) \in Nat /\ Share(ops, Bearish(ops), a) \in Nat
           /\ Vote(ops, a) = Share(ops, Bullish(ops), a) - Share(ops, Bearish(ops), a)
<1> DEFINE c == Counts(ops, a)
<1>1. ops[a].confidence \in Nat
  <2>1. ops[a] \in Opinion \/ ops[a] = NoOpinion
    BY DEF Results
  <2>2. Confidences \subseteq Nat
    BY ConfidenceAssumption
  <2>3. CASE ops[a] \in Opinion
    <3>1. ops[a].confidence \in Confidences
      BY <2>3 DEF Opinion
    <3> QED
      BY <2>2, <3>1
  <2>4. CASE ops[a] = NoOpinion
    BY <2>4 DEF NoOpinion
  <2> QED
    BY <2>1, <2>3, <2>4
<1>2. c \in Nat
    BY <1>1 DEF Counts, Weight, Agents
<1>3. CASE a \notin Valid(ops)
    BY <1>2, <1>3 DEF Share, Bullish, Bearish, Vote
<1>4. CASE a \in Valid(ops)
  <2>1. Value(ops, a) \in {-2, -1, 0, 1, 2}
    BY <1>4 DEF Valid, Value, Stances, StanceValue
  <2>2. a \in Bullish(ops) <=> Value(ops, a) > 0
    BY <1>4 DEF Bullish
  <2>3. a \in Bearish(ops) <=> Value(ops, a) < 0
    BY <1>4 DEF Bearish
  <2>4. Vote(ops, a) = c * Value(ops, a)
    BY <1>4 DEF Vote
  <2> HIDE DEF c
  <2>5. /\ Share(ops, Bullish(ops), a) = IF Value(ops, a) > 0 THEN c * Value(ops, a) ELSE 0
        /\ Share(ops, Bearish(ops), a) = IF Value(ops, a) < 0 THEN c * (-Value(ops, a)) ELSE 0
    BY <2>1, <2>2, <2>3 DEF Share, Strength, c
  <2> QED
    BY <1>2, <2>1, <2>4, <2>5 DEF c
<1> QED
    BY <1>3, <1>4

(* The weighted stance of a committee is the pull of its bulls less that   *)
(* of its bears.                                                           *)
LEMMA Balance ==
    ASSUME NEW ops \in [Agents -> Results]
    PROVE  /\ ConfidenceWeight(ops) \in Nat
           /\ Pull(ops, Bullish(ops)) \in Nat /\ Pull(ops, Bearish(ops)) \in Nat
           /\ WeightedStance(ops) = Pull(ops, Bullish(ops)) - Pull(ops, Bearish(ops))
<1> DEFINE up(a) == Share(ops, Bullish(ops), a)
           down(a) == Share(ops, Bearish(ops), a)
<1>1. \A a \in Agents : /\ Counts(ops, a) \in Nat /\ up(a) \in Nat /\ down(a) \in Nat
                        /\ Vote(ops, a) = up(a) - down(a)
    BY OneVote
<1>2. ConfidenceWeight(ops) =
        Counts(ops, "QUANT") + Counts(ops, "BULL") + Counts(ops, "BEAR") + Counts(ops, "REGIME")
    BY DEF ConfidenceWeight, Total, Agents
<1>3. WeightedStance(ops) =
        Vote(ops, "QUANT") + Vote(ops, "BULL") + Vote(ops, "BEAR") + Vote(ops, "REGIME")
    BY DEF WeightedStance, Total, Agents
<1>4. Pull(ops, Bullish(ops)) = up("QUANT") + up("BULL") + up("BEAR") + up("REGIME")
    BY DEF Pull, Total, Agents, Share
<1>5. Pull(ops, Bearish(ops)) = down("QUANT") + down("BULL") + down("BEAR") + down("REGIME")
    BY DEF Pull, Total, Agents, Share
<1>6. \A a \in {"QUANT", "BULL", "BEAR", "REGIME"} : a \in Agents
    BY DEF Agents
<1> HIDE DEF up, down
<1> QED
    BY <1>1, <1>2, <1>3, <1>4, <1>5, <1>6

(* A score of 60 needs bulls that outweigh the bears, at any severity; a   *)
(* score of 40 needs bears that outweigh the bulls, below HIGH.            *)
LEMMA ScoreNeedsSupport ==
    ASSUME NEW ops \in [Agents -> Results], NEW sev \in Severities
    PROVE  /\ AtLeast(ops, sev, 60) => Pull(ops, Bullish(ops)) > Pull(ops, Bearish(ops))
           /\ AtMost(ops, sev, 40) /\ sev # "HIGH"
                => Pull(ops, Bearish(ops)) > Pull(ops, Bullish(ops))
<1> DEFINE s == Stance(ops)
           w == Scale(ops)
<1>1. /\ s \in Int /\ w \in Nat \ {0}
      /\ s > 0 => Pull(ops, Bullish(ops)) > Pull(ops, Bearish(ops))
      /\ s < 0 => Pull(ops, Bearish(ops)) > Pull(ops, Bullish(ops))
    BY Balance DEF Stance, Scale
<1>2. Penalty[sev] \in {70, 85, 95, 100} /\ (sev # "HIGH" => Penalty[sev] \in {85, 95, 100})
    BY DEF Penalty, Severities
<1>3. /\ AtLeast(ops, sev, 60) => (s + w) * Penalty[sev] >= 120 * w
      /\ AtMost(ops, sev, 40) => (s + w) * Penalty[sev] <= 80 * w
    BY <1>1 DEF AtLeast, AtMost
<1> HIDE DEF s, w
<1>4. ASSUME (s + w) * Penalty[sev] >= 120 * w PROVE s > 0
    BY <1>1, <1>2, <1>4
<1>5. ASSUME (s + w) * Penalty[sev] <= 80 * w, sev # "HIGH" PROVE s < 0
    BY <1>1, <1>2, <1>5
<1> QED
    BY <1>1, <1>3, <1>4, <1>5

(* The committee never proposes a long against the weight of its bears.    *)
THEOREM LongsAreSupported == Spec => []LongNeedsSupport
<1>1. ASSUME Inv PROVE LongNeedsSupport
  <2> SUFFICES ASSUME verdict.decision = "PROPOSE_LONG"
               PROVE  Pull(final, Bullish(final)) > Pull(final, Bearish(final))
    BY DEF LongNeedsSupport
  <2>1. verdict = Aggregate(final, Severity(final)) /\ final \in [Agents -> Results]
    BY <1>1 DEF Inv, TypeOK, Pending
  <2>2. AtLeast(final, Severity(final), 60)
    BY <2>1 DEF Aggregate
  <2> QED
    BY <2>1, <2>2, SeverityType, ScoreNeedsSupport
<1> QED
    BY <1>1, Invariance, PTL

(* Below a HIGH disagreement, the committee never proposes a short against *)
(* the weight of its bulls.                                                *)
THEOREM ShortsAreSupported == Spec => []ShortNeedsSupport
<1>1. ASSUME Inv PROVE ShortNeedsSupport
  <2> SUFFICES ASSUME verdict.decision = "PROPOSE_SHORT", Severity(final) # "HIGH"
               PROVE  Pull(final, Bearish(final)) > Pull(final, Bullish(final))
    BY DEF ShortNeedsSupport
  <2>1. verdict = Aggregate(final, Severity(final)) /\ final \in [Agents -> Results]
    BY <1>1 DEF Inv, TypeOK, Pending
  <2>2. AtMost(final, Severity(final), 40)
    BY <2>1 DEF Aggregate
  <2> QED
    BY <2>1, <2>2, SeverityType, ScoreNeedsSupport
<1> QED
    BY <1>1, Invariance, PTL

-----------------------------------------------------------------------------
(* A HIGH disagreement has two camps. *)
LEMMA HighHasCamps ==
    ASSUME NEW ops, Severity(ops) = "HIGH"
    PROVE  Bullish(ops) # {} /\ Bearish(ops) # {}
<1>1. Apart(ops, 3)
    BY DEF Severity
<1>2. PICK a \in Valid(ops), b \in Valid(ops) : Value(ops, a) - Value(ops, b) >= 3
    BY <1>1 DEF Apart
<1>3. Value(ops, a) \in {-2, -1, 0, 1, 2} /\ Value(ops, b) \in {-2, -1, 0, 1, 2}
    BY DEF Valid, Value, Stances, StanceValue
<1>4. Value(ops, a) > 0 /\ Value(ops, b) < 0
    BY <1>2, <1>3
<1> QED
    BY <1>4 DEF Bullish, Bearish

(* No agent is in both camps. *)
LEMMA CampsAreDisjoint == ASSUME NEW ops PROVE Bullish(ops) \cap Bearish(ops) = {}
<1>1. ASSUME NEW a \in Valid(ops) PROVE Value(ops, a) \in {-2, -1, 0, 1, 2}
    BY DEF Valid, Value, Stances, StanceValue
<1> QED
    BY <1>1 DEF Bullish, Bearish

(* Who is challenged has opponents, at least as many as allies, and a HIGH *)
(* disagreement challenges somebody: no challenge quotes an opinion that   *)
(* is not there.                                                           *)
THEOREM ChallengesAreOpposed == Spec => ChallengesHaveOpponents
<1> DEFINE P == pc = "asking" /\ pc' = "rebuttal" =>
                  /\ \A a \in todo' :
                        /\ a \in Camp(initial, a) /\ Opponents(initial, a) # {}
                        /\ Cardinality(Camp(initial, a)) <= Cardinality(Opponents(initial, a))
                  /\ EnableRebuttal /\ severity' = "HIGH" => todo' # {}
<1>1. ASSUME Inv, [Next]_vars PROVE P
  <2> SUFFICES ASSUME pc = "asking", pc' = "rebuttal"
               PROVE  /\ \A a \in todo' :
                            /\ a \in Camp(initial, a) /\ Opponents(initial, a) # {}
                            /\ Cardinality(Camp(initial, a)) <= Cardinality(Opponents(initial, a))
                      /\ EnableRebuttal /\ severity' = "HIGH" => todo' # {}
    OBVIOUS
  <2> DEFINE up == Bullish(initial)
             down == Bearish(initial)
  <2>1. Detect
    BY <1>1 DEF Next, Begin, Analyze, Rebut, Decide, vars
  <2>2. /\ severity' = Severity(initial)
        /\ todo' = IF EnableRebuttal THEN Challenged(initial, Severity(initial)) ELSE {}
    BY <2>1 DEF Detect
  <2>3. /\ Cardinality(up) \in Nat /\ (Cardinality(up) = 0 <=> up = {})
        /\ Cardinality(down) \in Nat /\ (Cardinality(down) = 0 <=> down = {})
    BY GroupSize DEF Bullish, Bearish, Valid
  <2>4. \A a \in up : Camp(initial, a) = up /\ Opponents(initial, a) = down
    BY DEF Camp, Opponents
  <2>5. \A a \in down : Camp(initial, a) = down /\ Opponents(initial, a) = up
    BY CampsAreDisjoint DEF Camp, Opponents
  <2>6. severity' = "HIGH" => up # {} /\ down # {}
    BY <2>2, HighHasCamps
  <2>7. CASE Cardinality(up) > Cardinality(down)
    <3>1. todo' \subseteq down
      BY <2>2, <2>7 DEF Challenged
    <3>2. EnableRebuttal /\ severity' = "HIGH" => todo' = down
      BY <2>2, <2>7 DEF Challenged, ChallengeRequired
    <3> QED
      BY <2>3, <2>5, <2>6, <2>7, <3>1, <3>2
  <2>8. CASE Cardinality(down) > Cardinality(up)
    <3>1. todo' \subseteq up
      BY <2>2, <2>3, <2>8 DEF Challenged
    <3>2. EnableRebuttal /\ severity' = "HIGH" => todo' = up
      BY <2>2, <2>3, <2>8 DEF Challenged, ChallengeRequired
    <3> QED
      BY <2>3, <2>4, <2>6, <2>8, <3>1, <3>2
  <2>9. CASE Cardinality(up) = Cardinality(down)
    <3>1. todo' = IF EnableRebuttal /\ severity' = "HIGH" THEN up \cup down ELSE {}
      BY <2>2, <2>3, <2>9 DEF Challenged, ChallengeRequired
    <3> QED
      BY <2>3, <2>4, <2>5, <2>6, <2>9, <3>1
  <2> QED
    BY <2>3, <2>7, <2>8, <2>9
<1>2. Inv /\ [Next]_vars => [P]_vars
    BY <1>1
<1> QED
    BY <1>2, Invariance, PTL DEF Spec, ChallengesHaveOpponents
=============================================================================
