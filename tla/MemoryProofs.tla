----------------------------- MODULE MemoryProofs -----------------------------
(***************************************************************************)
(* What Memory guarantees for all positions, evidence and queries, and any *)
(* number of threads and crashes.                                          *)
(***************************************************************************)
EXTENDS Memory, Sums, SequenceTheorems

---------------------------------------------------------------------------
(* The rows an evaluation computes.                                        *)

LEMMA StoredType == ASSUME NEW x \in Int \cup {None} PROVE Stored(x) \in Numbers
BY DEF Stored, Given, Numbers

LEMMA PermilleType == ASSUME NEW a \in Int, NEW b \in Int, b > 0 PROVE Permille(a, b) \in Int
<1>1. (-1000 * a) \div b \in Int /\ (1000 * a) \div b \in Int
    OBVIOUS
<1> QED
    BY <1>1 DEF Permille

LEMMA EvidenceParts ==
    ASSUME NEW e \in Evidence
    PROVE  /\ e.position.id \in Positions /\ e.position.side \in {"LONG", "SHORT"}
           /\ e.position.entry \in Nat /\ e.position.price \in Nat
           /\ e.position.mfe \in Nat /\ e.position.mae \in Nat /\ e.position.pnl \in Int
           /\ e.committee # None =>
                e.committee.confidence \in Confidences /\ e.committee.disagreement \in DOMAIN SeverityOrder
           /\ e.risk # None => e.risk.decision \in {"APPROVED", "REDUCED", "REJECTED"}
                               /\ e.risk.budget \in Nat
BY EvidenceAssumption

LEMMA ReturnType == ASSUME NEW e \in Evidence PROVE Return(e.position) \in Int \cup {None}
<1>1. CASE e.position.entry <= 0 \/ e.position.price = 0
    BY <1>1 DEF Return
<1>2. CASE ~(e.position.entry <= 0 \/ e.position.price = 0)
  <2> DEFINE gain == IF e.position.side = "LONG" THEN e.position.price - e.position.entry
                     ELSE e.position.entry - e.position.price
  <2>1. gain \in Int /\ e.position.entry \in Int /\ e.position.entry > 0
    BY <1>2, EvidenceParts
  <2>2. Return(e.position) = Permille(gain, e.position.entry)
    BY <1>2 DEF Return
  <2> HIDE DEF gain
  <2> QED
    BY <2>1, <2>2, PermilleType
<1> QED
    BY <1>1, <1>2

LEMMA RMultipleType == ASSUME NEW e \in Evidence PROVE RMultiple(e) \in Int \cup {None}
<1>1. CASE Given(Budget(e))
  <2>1. Budget(e) \in Int /\ Budget(e) > 0 /\ e.position.pnl \in Int
    BY <1>1, EvidenceParts DEF Budget, Given
  <2> QED
    BY <1>1, <2>1, PermilleType DEF RMultiple
<1>2. CASE ~Given(Budget(e))
    BY <1>2 DEF RMultiple
<1> QED
    BY <1>1, <1>2

LEMMA TradeRecordType ==
    ASSUME NEW e \in Evidence, NEW at \in Nat, NEW created \in Nat, NEW version \in Nat
    PROVE  /\ TradeRecord(e, at, created, version) \in TradeRow
           /\ TradeRecord(e, at, created, version).position = e.position.id
           /\ TradeRecord(e, at, created, version).at = at
           /\ TradeRecord(e, at, created, version).created = created
<1> DEFINE confidence == IF e.committee = None THEN None ELSE Stored(e.committee.confidence)
           disagreement == IF e.committee = None THEN None ELSE e.committee.disagreement
           risk == IF e.risk = None THEN None ELSE e.risk.decision
<1>1. /\ Stored(e.position.entry) \in Numbers /\ Stored(e.position.price) \in Numbers
      /\ Stored(e.position.pnl) \in Numbers /\ Stored(e.position.mfe) \in Numbers
      /\ Stored(e.position.mae) \in Numbers
  <2>1. /\ e.position.entry \in Int \cup {None} /\ e.position.price \in Int \cup {None}
        /\ e.position.pnl \in Int \cup {None} /\ e.position.mfe \in Int \cup {None}
        /\ e.position.mae \in Int \cup {None}
    BY EvidenceParts
  <2> QED
    BY <2>1, StoredType
<1>2. Stored(Return(e.position)) \in Numbers /\ Stored(RMultiple(e)) \in Numbers
    BY StoredType, ReturnType, RMultipleType
<1>3. confidence \in Numbers
  <2>1. CASE e.committee = None
    BY <2>1 DEF Numbers
  <2>2. CASE e.committee # None
    <3>1. e.committee.confidence \in Confidences
      BY <2>2, EvidenceParts
    <3>2. \A x \in Confidences : x \in Int \cup {None}
      BY DEF Confidences
    <3> QED
      BY <2>2, <3>1, <3>2, StoredType
  <2> QED
    BY <2>1, <2>2
<1>4. disagreement \in Optional(DOMAIN SeverityOrder)
    BY EvidenceParts DEF Optional
<1>5. risk \in {None, "APPROVED", "REDUCED", "REJECTED"}
    BY EvidenceParts
<1>6. e.position.id \in Positions /\ e.position.side \in {"LONG", "SHORT"}
    BY EvidenceParts
<1> HIDE DEF confidence, disagreement, risk
<1> QED
    BY <1>1, <1>2, <1>3, <1>4, <1>5, <1>6
       DEF TradeRecord, TradeRow, confidence, disagreement, risk

LEMMA OpinionType ==
    ASSUME NEW e \in Evidence, NEW a \in Participants(e)
    PROVE  /\ e.committee.opinions[a] \in [stance : Stances, confidence : Confidences]
           /\ e.committee.opinions[a].stance \in Stances
           /\ e.committee.opinions[a].confidence \in Confidences
           /\ a \in Agents
<1>1. e.committee # None /\ a \in DOMAIN e.committee.opinions
    BY DEF Participants
<1>2. e.committee.opinions[a] \in [stance : Stances, confidence : Confidences] /\ a \in Agents
    BY <1>1, EvidenceAssumption
<1> QED
    BY <1>2

LEMMA AgentRecordType ==
    ASSUME NEW e \in Evidence, NEW a \in Participants(e), NEW at \in Nat
    PROVE  [at |-> at, content |-> AgentRecord(e, a)] \in AgentRow
<1> DEFINE opinion == e.committee.opinions[a]
<1>1. opinion.stance \in Stances /\ opinion.confidence \in Confidences
    BY OpinionType
<1>2. DirectionCorrect(e, opinion) \in Optional(BOOLEAN)
    BY DEF DirectionCorrect, Optional
<1>3. Agreement(e, opinion) \in Optional(BOOLEAN)
    BY DEF Agreement, Optional
<1>4. (e.position.pnl > 0) \in BOOLEAN
    OBVIOUS
<1>5. Stored(RMultiple(e)) \in Numbers
    BY StoredType, RMultipleType
<1>6. AgentRecord(e, a) = [stance |-> opinion.stance, confidence |-> opinion.confidence,
                           correct |-> DirectionCorrect(e, opinion),
                           agreed |-> Agreement(e, opinion),
                           profitable |-> e.position.pnl > 0, r |-> Stored(RMultiple(e))]
    BY DEF AgentRecord
<1> HIDE DEF opinion
<1> DEFINE profitable == e.position.pnl > 0
<1>7. profitable \in BOOLEAN
    BY <1>4
<1> HIDE DEF profitable
<1> QED
    BY <1>1, <1>2, <1>3, <1>5, <1>6, <1>7 DEF AgentRow, profitable

---------------------------------------------------------------------------
(* The order of the upserts: each target has a rank, and what is left of   *)
(* an evaluation's targets is in rising ranks up to the agents'.           *)

TargetNames == {"trade"} \cup TableNames \cup Agents

Rank == [t \in TargetNames |->
           CASE t = "trade" -> 0 [] t = "outcome" -> 1 [] t = "thesis" -> 2 [] t = "execution" -> 3
             [] t = "exit" -> 4 [] t = "risk" -> 5 [] t = "instrument" -> 6 [] OTHER -> 7]

Before(t, u) == Rank[t] < Rank[u] \/ (t \in Agents /\ u \in Agents)

Rising(left) ==
    /\ left \in Seq(TargetNames) /\ left # <<>>
    /\ \A i, j \in 1..Len(left) : i < j => Before(left[i], left[j])

Pending(left) == {left[i] : i \in 1..Len(left)}

LEMMA Names ==
    /\ TableNames = {"outcome", "thesis", "execution", "exit", "risk", "instrument"}
    /\ Len(Tables) = 6
    /\ Tables[1] = "outcome" /\ Tables[2] = "thesis" /\ Tables[3] = "execution"
    /\ Tables[4] = "exit" /\ Tables[5] = "risk" /\ Tables[6] = "instrument"
<1>1. /\ Len(Tables) = 6 /\ DOMAIN Tables = 1..6
      /\ Tables[1] = "outcome" /\ Tables[2] = "thesis" /\ Tables[3] = "execution"
      /\ Tables[4] = "exit" /\ Tables[5] = "risk" /\ Tables[6] = "instrument"
    BY DEF Tables
<1>2. 1..6 = {1, 2, 3, 4, 5, 6}
    OBVIOUS
<1>3. TableNames = {Tables[1], Tables[2], Tables[3], Tables[4], Tables[5], Tables[6]}
    BY <1>1, <1>2 DEF TableNames
<1> QED
    BY <1>1, <1>3

LEMMA Ranks ==
    /\ Rank["trade"] = 0 /\ Rank["outcome"] = 1 /\ Rank["thesis"] = 2 /\ Rank["execution"] = 3
    /\ Rank["exit"] = 4 /\ Rank["risk"] = 5 /\ Rank["instrument"] = 6
    /\ \A a \in Agents : Rank[a] = 7
    /\ \A t \in TargetNames : Rank[t] \in Int
    /\ \A t \in TargetNames \ Agents : Rank[t] < 7
BY Names DEF Rank, TargetNames, Agents

(* What an evaluation has left, when its head has been upserted. *)
LEMMA RisingTail ==
    ASSUME NEW left, Rising(left)
    PROVE  /\ Head(left) \in TargetNames /\ Head(left) \in Pending(left) /\ Len(left) \in Nat \ {0}
           /\ Len(left) # 1 => Rising(Tail(left))
           /\ Len(left) # 1 => Pending(left) = {Head(left)} \cup Pending(Tail(left))
           /\ Len(left) = 1 => Pending(left) = {Head(left)}
           /\ \A t \in Pending(left) : t = Head(left) \/ Before(Head(left), t)
<1>1. /\ left \in Seq(TargetNames) /\ left # <<>>
      /\ \A i, j \in 1..Len(left) : i < j => Before(left[i], left[j])
    BY DEF Rising
<1>2. Len(left) \in Nat \ {0} /\ Head(left) = left[1] /\ left[1] \in TargetNames
    BY <1>1
<1>3. Head(left) \in Pending(left)
    BY <1>2 DEF Pending
<1>4. \A t \in Pending(left) : t = Head(left) \/ Before(Head(left), t)
    BY <1>1, <1>2 DEF Pending
<1>5. ASSUME Len(left) # 1
      PROVE  Rising(Tail(left)) /\ Pending(left) = {Head(left)} \cup Pending(Tail(left))
  <2>1. /\ Tail(left) \in Seq(TargetNames) /\ Len(Tail(left)) = Len(left) - 1
        /\ \A i \in 1..Len(Tail(left)) : Tail(left)[i] = left[i + 1]
    BY <1>1, <1>2
  <2>2. Tail(left) # <<>>
    BY <1>2, <1>5, <2>1
  <2>3. \A i, j \in 1..Len(Tail(left)) : i < j => Before(Tail(left)[i], Tail(left)[j])
    <3> SUFFICES ASSUME NEW i \in 1..Len(Tail(left)), NEW j \in 1..Len(Tail(left)), i < j
                 PROVE  Before(Tail(left)[i], Tail(left)[j])
      OBVIOUS
    <3>1. i + 1 \in 1..Len(left) /\ j + 1 \in 1..Len(left) /\ i + 1 < j + 1
      BY <1>2, <2>1
    <3> QED
      BY <1>1, <2>1, <3>1
  <2>4. Pending(left) \subseteq {Head(left)} \cup Pending(Tail(left))
    <3> SUFFICES ASSUME NEW i \in 1..Len(left), i # 1 PROVE left[i] \in Pending(Tail(left))
      BY <1>2 DEF Pending
    <3>1. i - 1 \in 1..Len(Tail(left)) /\ Tail(left)[i - 1] = left[i]
      BY <1>2, <2>1
    <3> QED
      BY <3>1 DEF Pending
  <2>5. Pending(Tail(left)) \subseteq Pending(left)
    <3> SUFFICES ASSUME NEW i \in 1..Len(Tail(left)) PROVE Tail(left)[i] \in Pending(left)
      BY DEF Pending
    <3>1. i + 1 \in 1..Len(left) /\ Tail(left)[i] = left[i + 1]
      BY <1>2, <2>1
    <3> QED
      BY <3>1 DEF Pending
  <2> QED
    BY <1>3, <2>1, <2>2, <2>3, <2>4, <2>5 DEF Rising
<1>6. Len(left) = 1 => Pending(left) = {Head(left)}
    BY <1>2 DEF Pending
<1> QED
    BY <1>2, <1>3, <1>4, <1>5, <1>6

(* Two stretches of targets, each rising, are so together when the first   *)
(* comes before the second.                                                *)
Stretch(s) == s \in Seq(TargetNames) /\ \A i, j \in 1..Len(s) : i < j => Before(s[i], s[j])

LEMMA StretchConcat ==
    ASSUME NEW s, NEW t, Stretch(s), Stretch(t),
           \A i \in 1..Len(s), j \in 1..Len(t) : Before(s[i], t[j])
    PROVE  Stretch(s \o t) /\ Len(s \o t) = Len(s) + Len(t)
<1>1. s \in Seq(TargetNames) /\ t \in Seq(TargetNames) /\ Len(s) \in Nat /\ Len(t) \in Nat
    BY DEF Stretch
<1>2. /\ s \o t \in Seq(TargetNames) /\ Len(s \o t) = Len(s) + Len(t)
      /\ \A i \in 1..(Len(s) + Len(t)) :
            (s \o t)[i] = IF i <= Len(s) THEN s[i] ELSE t[i - Len(s)]
    BY <1>1
<1>3. ASSUME NEW i \in 1..Len(s \o t), NEW j \in 1..Len(s \o t), i < j
      PROVE  Before((s \o t)[i], (s \o t)[j])
  <2>1. CASE j <= Len(s)
    <3>1. i \in 1..Len(s) /\ j \in 1..Len(s) /\ (s \o t)[i] = s[i] /\ (s \o t)[j] = s[j]
      BY <1>1, <1>2, <1>3, <2>1
    <3> QED
      BY <1>3, <3>1 DEF Stretch
  <2>2. CASE i <= Len(s) /\ ~(j <= Len(s))
    <3>1. /\ i \in 1..Len(s) /\ j - Len(s) \in 1..Len(t)
          /\ (s \o t)[i] = s[i] /\ (s \o t)[j] = t[j - Len(s)]
      BY <1>1, <1>2, <1>3, <2>2
    <3> QED
      BY <3>1
  <2>3. CASE ~(i <= Len(s))
    <3>1. /\ i - Len(s) \in 1..Len(t) /\ j - Len(s) \in 1..Len(t) /\ i - Len(s) < j - Len(s)
          /\ (s \o t)[i] = t[i - Len(s)] /\ (s \o t)[j] = t[j - Len(s)]
      BY <1>1, <1>2, <1>3, <2>3
    <3> QED
      BY <3>1 DEF Stretch
  <2> QED
    BY <2>1, <2>2, <2>3
<1> QED
    BY <1>2, <1>3 DEF Stretch

LEMMA VotesType ==
    ASSUME NEW e
    PROVE  Votes(e) \in Seq(Agents) /\ Votes(e) \in Seq(Participants(e))
<1>1. \A a \in Agents : Vote(e, a) \in Seq(Agents) /\ Vote(e, a) \in Seq(Participants(e))
    BY DEF Vote
<1>2. "QUANT" \in Agents /\ "BULL" \in Agents /\ "BEAR" \in Agents /\ "REGIME" \in Agents
    BY DEF Agents
<1>3. ASSUME NEW S, \A a \in Agents : Vote(e, a) \in Seq(S) PROVE Votes(e) \in Seq(S)
  <2>1. Vote(e, "QUANT") \in Seq(S) /\ Vote(e, "BULL") \in Seq(S) /\ Vote(e, "BEAR") \in Seq(S)
        /\ Vote(e, "REGIME") \in Seq(S)
    BY <1>2, <1>3
  <2>2. Vote(e, "QUANT") \o Vote(e, "BULL") \in Seq(S)
    BY <2>1
  <2>3. Vote(e, "QUANT") \o Vote(e, "BULL") \o Vote(e, "BEAR") \in Seq(S)
    BY <2>1, <2>2
  <2> QED
    BY <2>1, <2>3 DEF Votes
<1> QED
    BY <1>1, <1>3

LEMMA VotesStretch == ASSUME NEW e PROVE Stretch(Votes(e))
<1>1. Votes(e) \in Seq(Agents) /\ \A i \in 1..Len(Votes(e)) : Votes(e)[i] \in Agents
    BY VotesType
<1>2. Votes(e) \in Seq(TargetNames)
    BY <1>1, SeqMonotonic DEF TargetNames
<1> QED
    BY <1>1, <1>2 DEF Stretch, Before

LEMMA TradeFirst ==
    /\ Stretch(<<"trade">> \o Tables) /\ Len(<<"trade">> \o Tables) = 7
    /\ (<<"trade">> \o Tables)[1] = "trade"
    /\ \A i \in 1..6 : (<<"trade">> \o Tables)[i + 1] = Tables[i]
<1>1. Stretch(<<"trade">>)
    BY DEF Stretch, TargetNames
<1>2. Stretch(Tables)
  <2>1. Tables \in Seq(TargetNames)
    <3>1. \A i \in 1..6 : Tables[i] \in TargetNames
      BY Names DEF TargetNames
    <3>2. Tables = [i \in 1..6 |-> Tables[i]]
      BY DEF Tables
    <3> QED
      BY <3>1, <3>2, IsASeq, Names
  <2>2. ASSUME NEW i \in 1..6, NEW j \in 1..6, i < j PROVE Rank[Tables[i]] < Rank[Tables[j]]
    <3>1. \A k \in 1..6 : Rank[Tables[k]] = k
      BY Names, Ranks
    <3> QED
      BY <2>2, <3>1
  <2> QED
    BY <2>1, <2>2, Names DEF Stretch, Before
<1>3. \A i \in 1..Len(<<"trade">>), j \in 1..Len(Tables) : Before(<<"trade">>[i], Tables[j])
  <2>1. \A j \in 1..6 : Rank["trade"] < Rank[Tables[j]]
    BY Names, Ranks
  <2> QED
    BY <2>1, Names DEF Before
<1>4. Stretch(<<"trade">> \o Tables) /\ Len(<<"trade">> \o Tables) = Len(<<"trade">>) + Len(Tables)
    BY <1>1, <1>2, <1>3, StretchConcat
<1>5. Tables \in Seq(TargetNames) /\ <<"trade">> \in Seq(TargetNames)
    BY <1>1, <1>2 DEF Stretch
<1> QED
    BY <1>4, <1>5, Names

LEMMA TargetsRising ==
    ASSUME NEW e
    PROVE  /\ Rising(Targets(e)) /\ Head(Targets(e)) = "trade" /\ Len(Targets(e)) # 1
           /\ {"trade"} \cup TableNames \subseteq Pending(Targets(e))
           /\ Pending(Targets(e)) \cap Agents \subseteq Participants(e)
<1> DEFINE f == <<"trade">> \o Tables
           v == Votes(e)
<1>1. /\ Stretch(f) /\ Len(f) = 7 /\ f[1] = "trade" /\ \A i \in 1..6 : f[i + 1] = Tables[i]
    BY TradeFirst
<1>2. Stretch(v) /\ v \in Seq(Agents) /\ v \in Seq(Participants(e))
    BY VotesType, VotesStretch
<1>3. Targets(e) = f \o v
    BY DEF Targets
<1> HIDE DEF f, v
<1>4. \A i \in 1..7 : f[i] \in TargetNames \ Agents
  <2>1. \A i \in 2..7 : f[i] = Tables[i - 1] /\ i - 1 \in 1..6
    BY <1>1
  <2>2. \A i \in 1..6 : Tables[i] \in TargetNames \ Agents
    BY Names DEF TargetNames, Agents
  <2>3. "trade" \in TargetNames \ Agents
    BY DEF TargetNames, Agents
  <2>4. \A i \in 1..7 : i = 1 \/ i \in 2..7
    OBVIOUS
  <2> QED
    BY <1>1, <2>1, <2>2, <2>3, <2>4
<1>5. \A i \in 1..Len(f), j \in 1..Len(v) : Before(f[i], v[j])
  <2>1. \A j \in 1..Len(v) : v[j] \in Agents
    BY <1>2
  <2>2. \A t \in TargetNames \ Agents, a \in Agents : Rank[t] < Rank[a]
    BY Ranks
  <2> QED
    BY <1>1, <1>4, <2>1, <2>2 DEF Before
<1>6. Stretch(f \o v) /\ Len(f \o v) = Len(f) + Len(v)
    BY <1>1, <1>2, <1>5, StretchConcat
<1>7. f \in Seq(TargetNames) /\ v \in Seq(TargetNames) /\ Len(v) \in Nat
    BY <1>1, <1>2 DEF Stretch
<1>8. \A i \in 1..7 : i \in 1..Len(f \o v) /\ (f \o v)[i] = f[i]
    BY <1>1, <1>6, <1>7
<1>9. f \o v # <<>> /\ Head(f \o v) = "trade"
    BY <1>1, <1>6, <1>7, <1>8
<1>10. Rising(f \o v)
    BY <1>6, <1>9 DEF Rising, Stretch
<1>11. {"trade"} \cup TableNames \subseteq Pending(f \o v)
  <2>1. \A i \in 1..7 : f[i] \in Pending(f \o v)
    BY <1>8 DEF Pending
  <2>2. \A i \in 1..6 : Tables[i] \in Pending(f \o v)
    <3> SUFFICES ASSUME NEW i \in 1..6 PROVE Tables[i] \in Pending(f \o v)
      OBVIOUS
    <3>1. i + 1 \in 1..7
      OBVIOUS
    <3> QED
      BY <1>1, <2>1, <3>1
  <2>3. 1 \in 1..6 /\ 2 \in 1..6 /\ 3 \in 1..6 /\ 4 \in 1..6 /\ 5 \in 1..6 /\ 6 \in 1..6
        /\ 1 \in 1..7
    OBVIOUS
  <2>4. TableNames \subseteq Pending(f \o v)
    BY <2>2, <2>3, Names
  <2>5. "trade" \in Pending(f \o v)
    BY <1>1, <2>1, <2>3
  <2> QED
    BY <2>4, <2>5
<1>12. Pending(f \o v) \cap Agents \subseteq Participants(e)
  <2> SUFFICES ASSUME NEW i \in 1..Len(f \o v), (f \o v)[i] \in Agents
               PROVE  (f \o v)[i] \in Participants(e)
    BY DEF Pending
  <2>1. ASSUME i <= 7 PROVE FALSE
    <3>1. i \in 1..7
      BY <2>1
    <3>2. (f \o v)[i] \notin Agents
      BY <1>4, <1>8, <3>1
    <3> QED
      BY <3>2
  <2>2. i - 7 \in 1..Len(v) /\ (f \o v)[i] = v[i - 7]
    BY <1>1, <1>6, <1>7, <2>1
  <2> QED
    BY <1>2, <2>2
<1> QED
    BY <1>1, <1>3, <1>6, <1>7, <1>9, <1>10, <1>11, <1>12

---------------------------------------------------------------------------
(* The shape of the state. *)

Prediction == [agent : Agents, of : Positions, confidence : Confidences, right : BOOLEAN]
PredictionSets == {P \in SUBSET Prediction : IsFiniteSet(P)}
Sets == {S \in SUBSET TradeRow : IsFiniteSet(S)}
Answers ==
    [kind : {"none", "empty", "raised", "unnamed", "calibration", "summary", "context"},
     samples : Nat, evaluated : Nat, performance : {Performance(S) : S \in Sets}]

IdleCall == [pc : {"idle"}, answer : Answers]
EvalFields ==
    [pc : {"evaluate"}, e : Evidence, at : Nat, left : Seq(TargetNames), trade : TradeRow]
EvalCall ==
    {c \in EvalFields :
       /\ Rising(c.left) /\ Pending(c.left) \cap Agents \subseteq Participants(c.e)
       /\ c.trade.position = c.e.position.id /\ c.trade.at = c.at}
Suffixes ==
    {AgentOrder, <<"BULL", "BEAR", "REGIME">>, <<"BEAR", "REGIME">>, <<"REGIME">>}
ReadCall ==
    [pc : {"predictions", "latest", "records"}, kind : {"calibration", "summary", "context"},
     left : Suffixes, predictions : PredictionSets, seen : Sets, evaluated : Nat,
     query : Optional(Queries)]
SaveCall == [pc : {"save"}, at : Nat, of : {Calibration(P) : P \in PredictionSets}]

Shape ==
    /\ trades \in [Positions -> Optional(TradeRow)]
    /\ rows \in [Positions -> [TableNames -> Optional(EvaluationRow)]]
    /\ scores \in [Positions -> [Agents -> Optional(AgentRow)]]
    /\ \E S : snapshots \in Seq(S)
    /\ calls \in [Workers -> IdleCall \cup EvalCall \cup ReadCall \cup SaveCall]
    /\ time \in Nat /\ raced \subseteq Positions

LEMMA HistoryType ==
    ASSUME NEW a
    PROVE  IsFiniteSet(History(a)) /\ Cardinality(History(a)) \in Nat
<1>1. IsFiniteSet(History(a))
    BY PositionAssumption, FS_Subset DEF History
<1> QED
    BY <1>1, FS_CardinalityType

(* An agent's predictions are at most as many as its records. *)
LEMMA PredictionType ==
    ASSUME Shape, NEW a \in Agents
    PROVE  /\ PredictionsOf(a) \in PredictionSets /\ \A x \in PredictionsOf(a) : x.agent = a
           /\ Cardinality(PredictionsOf(a)) <= Cardinality(History(a))
<1> DEFINE H == {p \in History(a) : scores[p][a].content.correct # None}
           g == [p \in H |-> [agent |-> a, of |-> p, confidence |-> scores[p][a].content.confidence,
                             right |-> scores[p][a].content.correct]]
<1>1. PredictionsOf(a) = {g[p] : p \in H}
    BY DEF PredictionsOf
<1>2. ASSUME NEW p \in H PROVE g[p] \in Prediction /\ g[p].agent = a
  <2>1. scores[p][a] \in AgentRow /\ p \in Positions /\ scores[p][a].content.correct # None
    BY DEF Shape, Optional, History
  <2>2. scores[p][a].content.confidence \in Confidences
        /\ scores[p][a].content.correct \in Optional(BOOLEAN)
    BY <2>1 DEF AgentRow
  <2>3. scores[p][a].content.correct \in BOOLEAN
    BY <2>1, <2>2 DEF Optional
  <2> QED
    BY <2>1, <2>2, <2>3 DEF Prediction
<1>3. IsFiniteSet(H) /\ Cardinality(H) <= Cardinality(History(a))
  <2>1. H \in SUBSET History(a)
    OBVIOUS
  <2> HIDE DEF H
  <2> QED
    BY <2>1, HistoryType, FS_Subset
<1> HIDE DEF H
<1>4. g \in Surjection(H, {g[p] : p \in H})
    BY DEF Surjection
<1> HIDE DEF g
<1>5. IsFiniteSet({g[p] : p \in H}) /\ Cardinality({g[p] : p \in H}) <= Cardinality(H)
    BY <1>3, <1>4, FS_Surjection
<1>6. Cardinality(PredictionsOf(a)) \in Nat /\ Cardinality(H) \in Nat
    BY <1>1, <1>3, <1>5, FS_CardinalityType
<1> QED
    BY <1>1, <1>2, <1>3, <1>5, <1>6, HistoryType DEF PredictionSets

LEMMA EmptyPredictions == {} \in PredictionSets /\ Cardinality({}) = 0
BY FS_EmptySet DEF PredictionSets

LEMMA PredictionUnion ==
    ASSUME NEW P \in PredictionSets, NEW Q \in PredictionSets
    PROVE  /\ P \cup Q \in PredictionSets
           /\ Cardinality(P) \in Nat /\ Cardinality(Q) \in Nat /\ Cardinality(P \cup Q) \in Nat
           /\ Cardinality(P \cup Q) <= Cardinality(P) + Cardinality(Q)
<1>1. IsFiniteSet(P) /\ IsFiniteSet(Q)
    BY DEF PredictionSets
<1>2. IsFiniteSet(P \cup Q) /\ IsFiniteSet(P \cap Q)
      /\ Cardinality(P \cup Q) = Cardinality(P) + Cardinality(Q) - Cardinality(P \cap Q)
    BY <1>1, FS_Union, FS_Intersection
<1>3. Cardinality(P) \in Nat /\ Cardinality(Q) \in Nat /\ Cardinality(P \cap Q) \in Nat
      /\ Cardinality(P \cup Q) \in Nat
    BY <1>1, <1>2, FS_CardinalityType
<1> QED
    BY <1>2, <1>3 DEF PredictionSets

LEMMA TradesSet == ASSUME Shape PROVE AllTrades \in Sets
<1> DEFINE all == {trades[p] : p \in Positions}
<1>1. trades \in Surjection(Positions, all)
    BY DEF Shape, Surjection
<1>2. IsFiniteSet(all)
    BY <1>1, PositionAssumption, FS_Surjection
<1>3. AllTrades \subseteq all /\ AllTrades \subseteq TradeRow
    BY DEF AllTrades, Shape, Optional
<1> QED
    BY <1>2, <1>3, FS_Subset DEF Sets

LEMMA SubSets == ASSUME NEW S \in Sets, NEW T, T \subseteq S PROVE T \in Sets
BY FS_Subset DEF Sets

LEMMA EmptySets == {} \in Sets
BY FS_EmptySet DEF Sets

LEMMA NothingType == ASSUME NEW kind \in {"none", "empty", "raised", "unnamed"}
                     PROVE  Nothing(kind) \in Answers
BY EmptySets DEF Nothing, Answer, Answers, NoPerformance

LEMMA IdleType == Idle \in IdleCall /\ \A a \in Answers : [pc |-> "idle", answer |-> a] \in IdleCall
BY NothingType DEF Idle, IdleCall

LEMMA SuffixType ==
    ASSUME NEW s \in Suffixes
    PROVE  /\ Head(s) \in Agents
           /\ Len(s) = 1 => s = <<"REGIME">>
           /\ Len(s) # 1 => Tail(s) \in Suffixes
<1>1. CASE s = AgentOrder
  <2>1. /\ Head(s) = "QUANT" /\ Tail(s) = <<"BULL", "BEAR", "REGIME">> /\ Len(s) = 4
    BY <1>1 DEF AgentOrder
  <2> QED
    BY <2>1 DEF Suffixes, Agents
<1>2. CASE s = <<"BULL", "BEAR", "REGIME">>
  <2>1. Head(s) = "BULL" /\ Tail(s) = <<"BEAR", "REGIME">> /\ Len(s) = 3
    BY <1>2
  <2> QED
    BY <2>1 DEF Suffixes, Agents
<1>3. CASE s = <<"BEAR", "REGIME">>
  <2>1. Head(s) = "BEAR" /\ Tail(s) = <<"REGIME">> /\ Len(s) = 2
    BY <1>3
  <2> QED
    BY <2>1 DEF Suffixes, Agents
<1>4. CASE s = <<"REGIME">>
    BY <1>4 DEF Suffixes, Agents
<1> QED
    BY <1>1, <1>2, <1>3, <1>4 DEF Suffixes

(* A reading begins. *)
LEMMA ReadingType ==
    ASSUME NEW kind \in {"calibration", "summary", "context"}, NEW S \in Sets,
           NEW q \in Optional(Queries), NEW pc \in {"predictions", "latest"}
    PROVE  [Reading(kind, S, q) EXCEPT !.pc = pc] \in ReadCall /\ Reading(kind, S, q) \in ReadCall
BY EmptyPredictions DEF Reading, ReadCall, Suffixes

LEMMA StartShape == Init => Shape
<1> SUFFICES ASSUME Init PROVE Shape
    OBVIOUS
<1>1. snapshots \in Seq({})
    BY DEF Init
<1> QED
    BY <1>1, IdleType DEF Init, Shape, Optional

(* Only one call changes at a time. *)
LEMMA CallShape ==
    ASSUME Shape, NEW w \in Workers, NEW c \in IdleCall \cup EvalCall \cup ReadCall \cup SaveCall,
           calls' = [calls EXCEPT ![w] = c]
    PROVE  calls' \in [Workers -> IdleCall \cup EvalCall \cup ReadCall \cup SaveCall]
BY DEF Shape

LEMMA UpsertsShape ==
    ASSUME Shape, NEW w \in Workers, NEW T, Upserts(w, T)
    PROVE  /\ calls[w] \in EvalCall /\ Head(calls[w].left) \in T
           /\ calls' \in [Workers -> IdleCall \cup EvalCall \cup ReadCall \cup SaveCall]
<1>1. calls[w] \in EvalCall /\ Head(calls[w].left) \in T
    BY DEF Upserts, Shape, IdleCall, EvalCall, EvalFields, ReadCall, SaveCall
<1>2. CASE Len(calls[w].left) = 1
  <2>1. calls' = [calls EXCEPT ![w] = [pc |-> "idle", answer |-> Nothing("none")]]
    BY <1>2 DEF Upserts, Returns
  <2>2. [pc |-> "idle", answer |-> Nothing("none")] \in IdleCall
    BY IdleType, NothingType
  <2> QED
    BY <1>1, <2>1, <2>2, CallShape
<1>3. CASE Len(calls[w].left) # 1
  <2> DEFINE c == [calls[w] EXCEPT !.left = Tail(@)]
  <2>1. calls' = [calls EXCEPT ![w] = c]
    BY <1>3 DEF Upserts, Shape
  <2>2. /\ Tail(calls[w].left) \in Seq(TargetNames) /\ Rising(Tail(calls[w].left))
        /\ Pending(Tail(calls[w].left)) \subseteq Pending(calls[w].left)
    <3>1. Rising(calls[w].left)
      BY <1>1 DEF EvalCall
    <3>2. /\ Rising(Tail(calls[w].left))
          /\ Pending(calls[w].left) = {Head(calls[w].left)} \cup Pending(Tail(calls[w].left))
      BY <1>3, <3>1, RisingTail
    <3> QED
      BY <3>2 DEF Rising
  <2>3. calls[w] \in EvalFields
    BY <1>1 DEF EvalCall
  <2>4. /\ c \in EvalFields /\ c.left = Tail(calls[w].left) /\ c.e = calls[w].e
        /\ c.at = calls[w].at /\ c.trade = calls[w].trade
    BY <2>2, <2>3 DEF EvalFields
  <2> HIDE DEF c
  <2>5. c \in EvalCall
    BY <1>1, <2>2, <2>4 DEF EvalCall
  <2> QED
    BY <1>1, <2>1, <2>5, CallShape
<1> QED
    BY <1>2, <1>3

(* What an upsert of t has to do with the evaluation it is part of. *)
LEMMA EvalParts ==
    ASSUME Shape, NEW w \in Workers, calls[w] \in EvalCall
    PROVE  /\ calls[w].e \in Evidence /\ calls[w].e.position.id \in Positions
           /\ calls[w].at \in Nat /\ calls[w].trade \in TradeRow
           /\ calls[w].trade.position = calls[w].e.position.id
           /\ calls[w].trade.at = calls[w].at /\ calls[w].pc = "evaluate"
           /\ Rising(calls[w].left)
           /\ Head(calls[w].left) \in Agents => Head(calls[w].left) \in Participants(calls[w].e)
<1>1. /\ calls[w].e \in Evidence /\ calls[w].at \in Nat /\ calls[w].trade \in TradeRow
      /\ calls[w].pc = "evaluate"
    BY DEF EvalCall, EvalFields
<1>2. /\ Rising(calls[w].left) /\ Pending(calls[w].left) \cap Agents \subseteq Participants(calls[w].e)
      /\ calls[w].trade.position = calls[w].e.position.id /\ calls[w].trade.at = calls[w].at
    BY DEF EvalCall
<1> QED
    BY <1>1, <1>2, EvidenceParts, RisingTail

LEMMA EvaluateShape ==
    ASSUME Shape, NEW w \in Workers, Evaluate(w)
    PROVE  /\ Shape' /\ calls'[w] \in EvalCall /\ calls'[w].at = time + 1
           /\ \E e \in Evidence :
                calls'[w].e = e /\ calls'[w].left = Targets(e)
                  /\ raced' = IF \E v \in Workers : Evaluating(v, e.position.id)
                              THEN raced \cup {e.position.id} ELSE raced
           /\ \A v \in Workers \ {w} : calls'[v] = calls[v]
           /\ \A p \in Positions : trades[p] # None =>
                 (calls'[w].e.position.id = p => calls'[w].trade.created = trades[p].created)
<1>1. PICK e \in Evidence :
        LET p == e.position.id
            known == trades[p]
        IN /\ time' = time + 1
           /\ calls' = [calls EXCEPT ![w] =
                [pc |-> "evaluate", e |-> e, at |-> time', left |-> Targets(e),
                 trade |-> IF known = None THEN TradeRecord(e, time', time', 1)
                           ELSE TradeRecord(e, time', known.created, known.version + 2)]]
           /\ raced' = IF \E other \in Workers : Evaluating(other, p) THEN raced \cup {p} ELSE raced
           /\ UNCHANGED <<trades, rows, scores, snapshots>>
    BY DEF Evaluate
<1> DEFINE p == e.position.id
           known == trades[p]
           trade == IF known = None THEN TradeRecord(e, time', time', 1)
                    ELSE TradeRecord(e, time', known.created, known.version + 2)
           c == [pc |-> "evaluate", e |-> e, at |-> time', left |-> Targets(e), trade |-> trade]
<1>2. p \in Positions /\ time' \in Nat /\ time' = time + 1 /\ known \in Optional(TradeRow)
    BY <1>1, EvidenceParts DEF Shape
<1>3. /\ trade \in TradeRow /\ trade.position = p /\ trade.at = time'
      /\ known # None => trade.created = known.created
  <2>1. CASE known = None
    BY <1>2, <2>1, TradeRecordType
  <2>2. CASE known # None
    <3>1. known \in TradeRow
      BY <1>2, <2>2 DEF Optional
    <3>2. known.created \in Nat /\ known.version + 2 \in Nat
      BY <3>1 DEF TradeRow
    <3>3. trade = TradeRecord(e, time', known.created, known.version + 2)
      BY <2>2
    <3> DEFINE created == known.created
               version == known.version + 2
    <3> HIDE DEF created, version, known, trade
    <3>4. created \in Nat /\ version \in Nat
      BY <3>2 DEF created, version
    <3>5. TradeRecord(e, time', created, version) \in TradeRow
          /\ TradeRecord(e, time', created, version).position = p
          /\ TradeRecord(e, time', created, version).at = time'
          /\ TradeRecord(e, time', created, version).created = created
      BY <1>2, <3>4, TradeRecordType
    <3> QED
      BY <3>3, <3>5 DEF created, version
  <2> QED
    BY <2>1, <2>2
<1>4. calls' = [calls EXCEPT ![w] = c]
    BY <1>1
<1> HIDE DEF trade
<1>5. c \in EvalFields /\ c.left = Targets(e) /\ c.e = e /\ c.trade = trade /\ c.at = time'
    BY <1>2, <1>3, TargetsRising DEF EvalFields, Rising
<1> HIDE DEF c
<1>6. c \in EvalCall
    BY <1>3, <1>5, TargetsRising DEF EvalCall
<1>7. calls' \in [Workers -> IdleCall \cup EvalCall \cup ReadCall \cup SaveCall]
    BY <1>4, <1>6, CallShape
<1>8. calls'[w] = c /\ \A v \in Workers \ {w} : calls'[v] = calls[v]
    BY <1>4 DEF Shape
<1>9. Shape'
    BY <1>1, <1>2, <1>7 DEF Shape
<1> QED
    BY <1>1, <1>2, <1>3, <1>5, <1>6, <1>8, <1>9

LEMMA TradeShape ==
    ASSUME Shape, NEW w \in Workers, UpsertTradeRecord(w)
    PROVE  LET p == calls[w].e.position.id
           IN  /\ Shape'
               /\ trades' = [trades EXCEPT ![p] = trades'[p]]
               /\ trades'[p] \in TradeRow /\ trades'[p].at = calls[w].at
               /\ trades'[p].position = p
               /\ trades[p] # None => trades'[p].created = trades[p].created
<1> DEFINE p == calls[w].e.position.id
           new == calls[w].trade
           old == trades[p]
<1>1. Upserts(w, {"trade"}) /\ trades' = [trades EXCEPT ![p] = Merged(@, new)]
      /\ UNCHANGED <<rows, scores, snapshots, time, raced>>
    BY DEF UpsertTradeRecord
<1>2. /\ calls[w] \in EvalCall
      /\ calls' \in [Workers -> IdleCall \cup EvalCall \cup ReadCall \cup SaveCall]
    BY <1>1, UpsertsShape
<1>3. p \in Positions /\ new \in TradeRow /\ new.position = p /\ new.at = calls[w].at
    BY <1>2, EvalParts
<1>4. old \in Optional(TradeRow)
    BY <1>3 DEF Shape
<1>5. trades'[p] = Merged(old, new) /\ trades' = [trades EXCEPT ![p] = trades'[p]]
    BY <1>1, <1>3 DEF Shape
<1> HIDE DEF p, new, old
<1>6. /\ Merged(old, new) \in TradeRow /\ Merged(old, new).at = new.at
      /\ Merged(old, new).position = new.position
      /\ old # None => Merged(old, new).created = old.created
  <2>1. CASE old = None
    BY <1>3, <2>1 DEF Merged
  <2>2. CASE old # None
    <3>1. old \in TradeRow
      BY <1>4, <2>2 DEF Optional
    <3>2. old.created \in Nat
      BY <3>1 DEF TradeRow
    <3> QED
      BY <1>3, <2>2, <3>2 DEF Merged, TradeRow
  <2> QED
    BY <2>1, <2>2
<1>7. trades' \in [Positions -> Optional(TradeRow)]
    BY <1>5, <1>6 DEF Shape, Optional
<1>8. Shape'
    BY <1>1, <1>2, <1>7 DEF Shape
<1> QED
    BY <1>3, <1>5, <1>6, <1>8 DEF p, new, old

LEMMA RowShape ==
    ASSUME Shape, NEW w \in Workers, UpsertEvaluation(w)
    PROVE  LET p == calls[w].e.position.id
               t == Head(calls[w].left)
           IN  /\ Shape' /\ t \in TableNames /\ UNCHANGED <<trades, scores>>
               /\ rows'[p][t] \in EvaluationRow /\ rows'[p][t].at = calls[w].at
               /\ \A q \in Positions, u \in TableNames :
                     q # p \/ u # t => rows'[q][u] = rows[q][u]
<1> DEFINE p == calls[w].e.position.id
           t == Head(calls[w].left)
           row == [at |-> calls[w].at, content |-> RowOf(calls[w].e, t)]
<1>1. Upserts(w, TableNames) /\ rows' = [rows EXCEPT ![p][t] = row]
      /\ UNCHANGED <<trades, scores, snapshots, time, raced>>
    BY DEF UpsertEvaluation
<1>2. /\ calls[w] \in EvalCall /\ t \in TableNames
      /\ calls' \in [Workers -> IdleCall \cup EvalCall \cup ReadCall \cup SaveCall]
    BY <1>1, UpsertsShape
<1>3. p \in Positions /\ calls[w].at \in Nat /\ calls[w].e \in Evidence
    BY <1>2, EvalParts
<1>4. row \in EvaluationRow /\ row.at = calls[w].at
    BY <1>2, <1>3 DEF EvaluationRow
<1> HIDE DEF p, t, row
<1>5. /\ rows' \in [Positions -> [TableNames -> Optional(EvaluationRow)]]
      /\ rows'[p][t] = row
      /\ \A q \in Positions, u \in TableNames : q # p \/ u # t => rows'[q][u] = rows[q][u]
    BY <1>1, <1>2, <1>3, <1>4 DEF Shape, Optional
<1>6. Shape'
    BY <1>1, <1>2, <1>5 DEF Shape
<1> QED
    BY <1>1, <1>2, <1>4, <1>5, <1>6 DEF p, t

LEMMA ScoreShape ==
    ASSUME Shape, NEW w \in Workers, UpsertAgentPerformance(w)
    PROVE  LET p == calls[w].e.position.id
               t == Head(calls[w].left)
           IN  /\ Shape' /\ t \in Agents /\ UNCHANGED <<trades, rows>>
               /\ scores'[p][t] \in AgentRow /\ scores'[p][t].at = calls[w].at
               /\ \A q \in Positions, u \in Agents :
                     q # p \/ u # t => scores'[q][u] = scores[q][u]
<1> DEFINE p == calls[w].e.position.id
           t == Head(calls[w].left)
           row == [at |-> calls[w].at, content |-> AgentRecord(calls[w].e, t)]
<1>1. Upserts(w, Agents) /\ scores' = [scores EXCEPT ![p] = Scored(@, t, row)]
      /\ UNCHANGED <<trades, rows, snapshots, time, raced>>
    BY DEF UpsertAgentPerformance
<1>2. /\ calls[w] \in EvalCall /\ t \in Agents
      /\ calls' \in [Workers -> IdleCall \cup EvalCall \cup ReadCall \cup SaveCall]
    BY <1>1, UpsertsShape
<1>3. p \in Positions /\ calls[w].at \in Nat /\ calls[w].e \in Evidence
      /\ t \in Participants(calls[w].e)
    BY <1>2, EvalParts
<1>4. row \in AgentRow /\ row.at = calls[w].at
    BY <1>3, AgentRecordType
<1> HIDE DEF p, t, row
<1>5. /\ scores' \in [Positions -> [Agents -> Optional(AgentRow)]]
      /\ scores'[p][t] = row
      /\ \A q \in Positions, u \in Agents : q # p \/ u # t => scores'[q][u] = scores[q][u]
    BY <1>1, <1>2, <1>3, <1>4 DEF Shape, Optional, Scored
<1>6. Shape'
    BY <1>1, <1>2, <1>5 DEF Shape
<1> QED
    BY <1>1, <1>2, <1>4, <1>5, <1>6 DEF p, t

(* A step that reads, and leaves the rows alone. *)
Quiet(w) ==
    \/ Recompute(w) \/ Summarize(w) \/ FindContext(w) \/ ReadLatest(w) \/ ReadPredictions(w)
    \/ SaveCalibration(w) \/ ReadRecords(w)

(* What such a step leaves of the call that takes it. *)
Silent(w) ==
    /\ UNCHANGED <<trades, rows, scores, raced>>
    /\ calls[w] \notin EvalCall
    /\ \E c \in IdleCall \cup ReadCall \cup SaveCall : calls' = [calls EXCEPT ![w] = c]
    /\ time' \in {time, time + 1}

LEMMA NotEvaluating ==
    ASSUME NEW w, calls[w].pc # "evaluate"
    PROVE  calls[w] \notin EvalCall
BY DEF EvalCall, EvalFields

LEMMA ReadParts ==
    ASSUME Shape, NEW w \in Workers, calls[w].pc \in {"predictions", "latest", "records"}
    PROVE  calls[w] \in ReadCall
BY DEF Shape, IdleCall, EvalCall, EvalFields, ReadCall, SaveCall

LEMMA BeginSilent ==
    ASSUME Shape, NEW w \in Workers, Recompute(w) \/ Summarize(w) \/ FindContext(w)
    PROVE  Silent(w) /\ snapshots' = snapshots
<1> DEFINE R == IdleCall \cup ReadCall \cup SaveCall
<1>1. calls[w] \notin EvalCall
    BY NotEvaluating DEF Recompute, Summarize, FindContext, May
<1>2. CASE Recompute(w)
  <2>1. Reading("calibration", {}, None) \in R
    BY ReadingType, EmptySets DEF Optional
  <2> QED
    BY <1>1, <1>2, <2>1 DEF Recompute, Silent
<1>3. CASE Summarize(w)
  <2>1. Reading("summary", AllTrades, None) \in R
    BY ReadingType, TradesSet DEF Optional
  <2>2. [pc |-> "idle", answer |-> Nothing("empty")] \in R
    BY IdleType, NothingType
  <2> HIDE DEF R
  <2>3. \E c \in R : calls' = [calls EXCEPT ![w] = c]
    BY <1>3, <2>1, <2>2 DEF Summarize, Returns
  <2>4. UNCHANGED <<trades, rows, scores, snapshots, raced>> /\ time' = time + 1
    BY <1>3 DEF Summarize
  <2> QED
    BY <1>1, <2>3, <2>4 DEF Silent, R
<1>4. CASE FindContext(w)
  <2>1. PICK q \in Queries :
          IF SimilarityRaises(q, AllTrades) THEN Returns(w, Nothing("raised"))
          ELSE IF MostSimilar(q, AllTrades, q.k) = {} THEN Returns(w, Nothing("empty"))
          ELSE calls' = [calls EXCEPT ![w] =
                 [Reading("context", MostSimilar(q, AllTrades, q.k), q) EXCEPT !.pc = "latest"]]
    BY <1>4 DEF FindContext
  <2> DEFINE S == MostSimilar(q, AllTrades, q.k)
  <2>2. S \in Sets
    BY TradesSet, SubSets DEF MostSimilar, Completed
  <2>3. [Reading("context", S, q) EXCEPT !.pc = "latest"] \in R
    BY <2>2, ReadingType DEF Optional
  <2>4. [pc |-> "idle", answer |-> Nothing("empty")] \in R
        /\ [pc |-> "idle", answer |-> Nothing("raised")] \in R
    BY IdleType, NothingType
  <2> HIDE DEF R, S
  <2>5. \E c \in R : calls' = [calls EXCEPT ![w] = c]
    BY <2>1, <2>3, <2>4 DEF Returns, S
  <2>6. UNCHANGED <<trades, rows, scores, snapshots, raced>> /\ time' = time + 1
    BY <1>4 DEF FindContext
  <2> QED
    BY <1>1, <2>5, <2>6 DEF Silent, R
<1> QED
    BY <1>2, <1>3, <1>4

LEMMA GoOnSilent ==
    ASSUME Shape, NEW w \in Workers, ReadLatest(w) \/ ReadRecords(w)
    PROVE  Silent(w) /\ snapshots' = snapshots
<1> DEFINE R == IdleCall \cup ReadCall \cup SaveCall
           c == calls[w]
<1>1. c \notin EvalCall /\ c \in ReadCall
    BY NotEvaluating, ReadParts DEF ReadLatest, ReadRecords
<1>2. UNCHANGED <<trades, rows, scores, snapshots, raced>> /\ time' = time
    BY DEF ReadLatest, ReadRecords
<1>3. CASE ReadLatest(w)
  <2>1. [c EXCEPT !.pc = "records"] \in R
    BY <1>1 DEF ReadCall
  <2>2. calls' = [calls EXCEPT ![w] = [c EXCEPT !.pc = "records"]]
    BY <1>3 DEF ReadLatest, Shape
  <2> QED
    BY <1>1, <1>2, <2>1, <2>2 DEF Silent
<1>4. CASE ReadRecords(w)
  <2> DEFINE counted == c.evaluated + Cardinality(History(Head(c.left)))
             answer == Answer(c.kind, Cardinality(c.predictions), counted, Performance(c.seen))
  <2>1. /\ c.kind \in {"calibration", "summary", "context"} /\ c.left \in Suffixes
        /\ c.predictions \in PredictionSets /\ c.evaluated \in Nat /\ c.seen \in Sets
        /\ c.pc = "records"
    BY <1>1, <1>4 DEF ReadCall, ReadRecords
  <2>2. counted \in Nat
    BY <2>1, HistoryType
  <2>3. Cardinality(c.predictions) \in Nat
    BY <2>1, EmptyPredictions, PredictionUnion
  <2>4. CASE Len(c.left) = 1
    <3>1. answer \in Answers
      BY <2>1, <2>2, <2>3 DEF Answer, Answers
    <3>2. calls' = [calls EXCEPT ![w] = [pc |-> "idle", answer |-> answer]]
      BY <1>4, <2>4 DEF ReadRecords, Returns
    <3> HIDE DEF answer
    <3> QED
      BY <1>1, <1>2, <3>1, <3>2, IdleType DEF Silent
  <2>5. CASE Len(c.left) # 1
    <3> DEFINE d == [c EXCEPT !.left = Tail(@), !.evaluated = counted]
    <3>1. calls' = [calls EXCEPT ![w] = d]
      BY <1>4, <2>5 DEF ReadRecords, Shape
    <3> HIDE DEF counted
    <3>2. Tail(c.left) \in Suffixes
      BY <2>1, <2>5, SuffixType
    <3>3. d \in ReadCall
      BY <1>1, <2>2, <3>2 DEF ReadCall
    <3> HIDE DEF d
    <3> QED
      BY <1>1, <1>2, <3>1, <3>3 DEF Silent
  <2> QED
    BY <2>4, <2>5
<1> QED
    BY <1>3, <1>4

LEMMA PredictionsSilent ==
    ASSUME Shape, NEW w \in Workers, ReadPredictions(w)
    PROVE  Silent(w) /\ snapshots' = snapshots
<1> DEFINE c == calls[w]
           found == c.predictions \cup PredictionsOf(Head(c.left))
           last == Len(c.left) = 1
<1>1. c \notin EvalCall /\ c \in ReadCall
    BY NotEvaluating, ReadParts DEF ReadPredictions
<1>2. UNCHANGED <<trades, rows, scores, snapshots, raced>> /\ time' \in {time, time + 1} /\ time' \in Nat
    BY DEF ReadPredictions, Shape
<1>3. c.left \in Suffixes /\ c.predictions \in PredictionSets
    BY <1>1 DEF ReadCall
<1>4. found \in PredictionSets
    BY <1>3, SuffixType, PredictionType, PredictionUnion
<1>5. CASE ~last
  <2> DEFINE d == [c EXCEPT !.left = Tail(@), !.predictions = found]
  <2>1. calls' = [calls EXCEPT ![w] = d]
    BY <1>5 DEF ReadPredictions, Shape
  <2>2. Tail(c.left) \in Suffixes
    BY <1>3, <1>5, SuffixType
  <2> HIDE DEF found
  <2>3. d \in ReadCall
    BY <1>1, <1>4, <2>2 DEF ReadCall
  <2> HIDE DEF d
  <2> QED
    BY <1>1, <1>2, <2>1, <2>3 DEF Silent
<1>6. CASE last /\ c.kind = "calibration"
  <2> DEFINE d == [pc |-> "save", at |-> time', of |-> Calibration(found)]
  <2>1. calls' = [calls EXCEPT ![w] = d]
    BY <1>6 DEF ReadPredictions
  <2> HIDE DEF found
  <2>2. d \in SaveCall
    BY <1>2, <1>4 DEF SaveCall
  <2> HIDE DEF d
  <2> QED
    BY <1>1, <1>2, <2>1, <2>2 DEF Silent
<1>7. CASE last /\ c.kind # "calibration" /\ c.kind = "summary" /\ DisagreementRaises(c.seen)
  <2>1. calls' = [calls EXCEPT ![w] = [pc |-> "idle", answer |-> Nothing("unnamed")]]
    BY <1>7 DEF ReadPredictions, Returns
  <2>2. [pc |-> "idle", answer |-> Nothing("unnamed")] \in IdleCall
    BY IdleType, NothingType
  <2> QED
    BY <1>1, <1>2, <2>1, <2>2 DEF Silent
<1>8. CASE last /\ c.kind # "calibration" /\ ~(c.kind = "summary" /\ DisagreementRaises(c.seen))
  <2> DEFINE d == [c EXCEPT !.pc = "records", !.left = AgentOrder, !.predictions = found]
  <2>1. calls' = [calls EXCEPT ![w].pc = "records", ![w].left = AgentOrder, ![w].predictions = found]
    BY <1>8 DEF ReadPredictions
  <2>2. calls' = [calls EXCEPT ![w] = d]
    BY <2>1 DEF Shape
  <2>3. AgentOrder \in Suffixes
    BY DEF Suffixes
  <2> HIDE DEF found
  <2>4. d \in ReadCall
    BY <1>1, <1>4, <2>3 DEF ReadCall
  <2> HIDE DEF d
  <2> QED
    BY <1>1, <1>2, <2>2, <2>4 DEF Silent
<1> QED
    BY <1>5, <1>6, <1>7, <1>8

LEMMA SaveSilent ==
    ASSUME Shape, NEW w \in Workers, SaveCalibration(w)
    PROVE  Silent(w) /\ snapshots' = Append(snapshots, [at |-> calls[w].at, of |-> calls[w].of])
           /\ calls[w] \in SaveCall
<1>1. calls[w] \notin EvalCall
    BY NotEvaluating DEF SaveCalibration
<1>2. calls[w] \in SaveCall
    BY DEF SaveCalibration, Shape, IdleCall, EvalCall, EvalFields, ReadCall, SaveCall
<1>3. [pc |-> "idle", answer |-> Nothing("none")] \in IdleCall
    BY IdleType, NothingType
<1>4. calls' = [calls EXCEPT ![w] = [pc |-> "idle", answer |-> Nothing("none")]]
    BY DEF SaveCalibration, Returns
<1> QED
    BY <1>1, <1>2, <1>3, <1>4 DEF SaveCalibration, Silent

LEMMA QuietSteps ==
    ASSUME Shape, NEW w \in Workers, Quiet(w)
    PROVE  Silent(w) /\ Shape'
<1>1. Silent(w)
    BY BeginSilent, GoOnSilent, PredictionsSilent, SaveSilent DEF Quiet
<1>2. \E S : snapshots' \in Seq(S)
  <2>1. PICK S : snapshots \in Seq(S)
    BY DEF Shape
  <2>2. CASE SaveCalibration(w)
    <3> DEFINE x == [at |-> calls[w].at, of |-> calls[w].of]
    <3>1. snapshots \in Seq(S \cup {x})
      BY <2>1, SeqMonotonic
    <3> HIDE DEF x
    <3>2. Append(snapshots, x) \in Seq(S \cup {x})
      BY <3>1
    <3> QED
      BY <2>2, <3>2, SaveSilent DEF x
  <2>3. CASE ~SaveCalibration(w)
    BY <2>1, <2>3, BeginSilent, GoOnSilent, PredictionsSilent DEF Quiet
  <2> QED
    BY <2>2, <2>3
<1>3. PICK c \in IdleCall \cup ReadCall \cup SaveCall : calls' = [calls EXCEPT ![w] = c]
    BY <1>1 DEF Silent
<1>4. calls' \in [Workers -> IdleCall \cup EvalCall \cup ReadCall \cup SaveCall]
    BY <1>3, CallShape
<1>5. UNCHANGED <<trades, rows, scores, raced>> /\ time' \in Nat
    BY <1>1 DEF Silent, Shape
<1> QED
    BY <1>1, <1>2, <1>4, <1>5 DEF Shape

LEMMA NextCases ==
    ASSUME Next
    PROVE  \/ \E w \in Workers : \/ Evaluate(w) \/ UpsertTradeRecord(w) \/ UpsertEvaluation(w)
                                \/ UpsertAgentPerformance(w) \/ Quiet(w)
           \/ Crash
BY DEF Next, Quiet

LEMMA CrashShape == ASSUME Shape, Crash PROVE Shape'
BY IdleType DEF Shape, Crash

LEMMA StepShape == ASSUME Shape, [Next]_vars PROVE Shape'
<1>1. CASE UNCHANGED vars
    BY <1>1 DEF vars, Shape
<1>2. CASE Next
    BY <1>2, NextCases, EvaluateShape, TradeShape, RowShape, ScoreShape, QuietSteps, CrashShape
<1> QED
    BY <1>1, <1>2

---------------------------------------------------------------------------
(* The order of the rows of a trade: the moment of the evaluation that     *)
(* wrote each of them, and what an evaluation knows while it goes on.      *)

Stamp(p, t) ==
    IF t = "trade" THEN At(trades[p]) ELSE IF t \in TableNames THEN At(rows[p][t]) ELSE At(scores[p][t])

Newest(p) == \A t, u \in TargetNames : Rank[t] < Rank[u] => Stamp(p, u) <= Stamp(p, t)

Alone(w, p) == \A v \in Workers \ {w} : calls[v] \in EvalCall => calls[v].e.position.id # p

Underway(w) ==
    LET c == calls[w]
    IN  /\ c.at \in 1..time
        /\ \A p \in Positions : p = c.e.position.id =>
              /\ "trade" \in Pending(c.left) \/ trades[p] # None
              /\ p \notin raced =>
                    /\ \A t \in TargetNames : Stamp(p, t) <= c.at
                    /\ \A t \in TargetNames \ Agents : t \in Pending(c.left) \/ Stamp(p, t) = c.at
                    /\ Alone(w, p)

Order ==
    /\ RowsHaveTrades
    /\ \A p \in Positions, t \in TargetNames : Stamp(p, t) <= time
    /\ \A w \in Workers : calls[w] \in EvalCall => Underway(w)
    /\ \A p \in Positions \ raced : Newest(p)

LEMMA StampType ==
    ASSUME Shape, NEW p \in Positions, NEW t \in TargetNames
    PROVE  Stamp(p, t) \in Nat
<1>1. trades[p] \in Optional(TradeRow) /\ At(trades[p]) \in Nat
    BY DEF Shape, Optional, At, TradeRow
<1>2. ASSUME t \in TableNames PROVE At(rows[p][t]) \in Nat
    BY <1>2 DEF Shape, Optional, At, EvaluationRow
<1>3. ASSUME t \in Agents PROVE At(scores[p][t]) \in Nat
    BY <1>3 DEF Shape, Optional, At, AgentRow
<1> QED
    BY <1>1, <1>2, <1>3 DEF Stamp, TargetNames

LEMMA Apart == "trade" \notin TableNames /\ "trade" \notin Agents /\ TableNames \cap Agents = {}
BY Names DEF Agents

LEMMA StartOrder == Init => Order
<1> SUFFICES ASSUME Init PROVE Order
    OBVIOUS
<1>1. \A p \in Positions, t \in TargetNames : Stamp(p, t) = 0
    BY Apart DEF Init, Stamp, At, TargetNames
<1>2. \A w \in Workers : calls[w] \notin EvalCall
    BY DEF Init, Idle, EvalCall, EvalFields
<1>3. RowsHaveTrades
    BY DEF Init, RowsHaveTrades
<1> QED
    BY <1>1, <1>2, <1>3 DEF Order, Newest, Init

(* How the call that upserts goes on. *)
LEMMA UpsertsCall ==
    ASSUME Shape, NEW w \in Workers, NEW T, Upserts(w, T)
    PROVE  LET c == calls[w]
           IN  /\ c \in EvalCall /\ Head(c.left) \in T
               /\ \A v \in Workers \ {w} : calls'[v] = calls[v]
               /\ calls'[w] \in EvalCall =>
                     /\ Len(c.left) # 1
                     /\ calls'[w].e = c.e /\ calls'[w].at = c.at /\ calls'[w].left = Tail(c.left)
<1> DEFINE c == calls[w]
<1>1. c \in EvalCall /\ Head(c.left) \in T
    BY UpsertsShape
<1>2. CASE Len(c.left) = 1
  <2>1. calls' = [calls EXCEPT ![w] = [pc |-> "idle", answer |-> Nothing("none")]]
    BY <1>2 DEF Upserts, Returns
  <2>2. calls'[w] \notin EvalCall
    BY <2>1 DEF Shape, EvalCall, EvalFields
  <2> QED
    BY <1>1, <2>1, <2>2 DEF Shape
<1>3. CASE Len(c.left) # 1
  <2>1. calls' = [calls EXCEPT ![w].left = Tail(@)]
    BY <1>3 DEF Upserts
  <2>2. c \in EvalFields
    BY <1>1 DEF EvalCall
  <2>3. calls'[w] = [c EXCEPT !.left = Tail(@)] /\ \A v \in Workers \ {w} : calls'[v] = calls[v]
    BY <2>1 DEF Shape
  <2>4. calls'[w].e = c.e /\ calls'[w].at = c.at /\ calls'[w].left = Tail(c.left)
    BY <2>2, <2>3 DEF EvalFields
  <2> QED
    BY <1>1, <1>3, <2>3, <2>4
<1> QED
    BY <1>2, <1>3

(* What each upsert does to the stamps. *)
Stamped(w) ==
    LET c == calls[w]
        p == c.e.position.id
        t == Head(c.left)
    IN  /\ t \in TargetNames /\ p \in Positions
        /\ \A q \in Positions, u \in TargetNames : q = p /\ u = t => Stamp(q, u)' = c.at
        /\ \A q \in Positions, u \in TargetNames : q # p \/ u # t => Stamp(q, u)' = Stamp(q, u)
        /\ \A q \in Positions : trades[q] # None => trades'[q] # None
        /\ t = "trade" => trades'[p] # None
        /\ UNCHANGED <<time, raced>>

LEMMA Stamps ==
    ASSUME Shape, Order, NEW w \in Workers,
           UpsertTradeRecord(w) \/ UpsertEvaluation(w) \/ UpsertAgentPerformance(w)
    PROVE  Stamped(w) /\ RowsHaveTrades' /\ Shape' /\ \E T : Upserts(w, T)
<1> DEFINE c == calls[w]
           p == c.e.position.id
           t == Head(c.left)
<1>0. \E T : Upserts(w, T)
    BY DEF UpsertTradeRecord, UpsertEvaluation, UpsertAgentPerformance
<1>1. /\ c \in EvalCall /\ p \in Positions /\ c.at \in Nat /\ Rising(c.left)
      /\ t \in Pending(c.left) /\ t \in TargetNames
    BY <1>0, UpsertsCall, EvalParts, RisingTail
<1>2. "trade" \in Pending(c.left) \/ trades[p] # None
    BY <1>1 DEF Order, Underway
<1>3. t # "trade" => trades[p] # None
  <2>1. ASSUME "trade" \in Pending(c.left), t # "trade" PROVE FALSE
    <3>1. Before(t, "trade")
      BY <1>1, <2>1, RisingTail
    <3>2. \A u \in TargetNames : ~(Rank[u] < 0)
      BY Ranks, Names DEF TargetNames
    <3> QED
      BY <1>1, <3>1, <3>2, Ranks, Apart DEF Before
  <2> QED
    BY <1>2, <2>1
<1>4. CASE UpsertTradeRecord(w)
  <2>1. /\ Shape' /\ trades' = [trades EXCEPT ![p] = trades'[p]]
        /\ trades'[p] \in TradeRow /\ trades'[p].at = c.at
    BY <1>4, TradeShape
  <2>2. t = "trade" /\ UNCHANGED <<rows, scores, time, raced>>
    BY <1>4 DEF UpsertTradeRecord, Upserts
  <2>3. trades'[p] # None
    BY <2>1, RowAssumption
  <2>4. \A q \in Positions : q # p => trades'[q] = trades[q]
    BY <2>1 DEF Shape
  <2>5. \A q \in Positions, u \in TargetNames : q = p /\ u = t => Stamp(q, u)' = c.at
    BY <2>1, <2>2, <2>3 DEF Stamp, At
  <2>6. \A q \in Positions, u \in TargetNames : q # p \/ u # t => Stamp(q, u)' = Stamp(q, u)
    BY <2>2, <2>4 DEF Stamp
  <2>7. RowsHaveTrades'
    BY <2>2, <2>3, <2>4 DEF Order, RowsHaveTrades
  <2> QED
    BY <1>0, <1>1, <2>1, <2>2, <2>3, <2>4, <2>5, <2>6, <2>7 DEF Stamped
<1>5. CASE UpsertEvaluation(w)
  <2>1. /\ Shape' /\ t \in TableNames /\ UNCHANGED <<trades, scores>>
        /\ rows'[p][t] \in EvaluationRow /\ rows'[p][t].at = c.at
        /\ \A q \in Positions, u \in TableNames : q # p \/ u # t => rows'[q][u] = rows[q][u]
    BY <1>5, RowShape
  <2>2. UNCHANGED <<time, raced>>
    BY <1>5 DEF UpsertEvaluation
  <2>3. \A q \in Positions, u \in TargetNames : q = p /\ u = t => Stamp(q, u)' = c.at
    BY <2>1, RowAssumption, Apart DEF Stamp, At
  <2>4. \A q \in Positions, u \in TargetNames : q # p \/ u # t => Stamp(q, u)' = Stamp(q, u)
    BY <2>1 DEF Stamp, TargetNames
  <2>5. \A q \in Positions : q # p => (\A u \in TableNames : rows'[q][u] = rows[q][u])
    BY <2>1
  <2>6. trades[p] # None
    BY <1>3, <2>1, Apart
  <2>7. RowsHaveTrades'
    <3> SUFFICES ASSUME NEW q \in Positions,
                        \/ \E u \in TableNames : rows'[q][u] # None
                        \/ \E a \in Agents : scores'[q][a] # None
                 PROVE  trades'[q] # None
      BY DEF RowsHaveTrades
    <3>1. CASE q = p
      BY <2>1, <2>6, <3>1
    <3>2. CASE q # p
      <4>1. RowsHaveTrades
        BY DEF Order
      <4> QED
        BY <2>1, <2>5, <3>2, <4>1 DEF RowsHaveTrades
    <3> QED
      BY <3>1, <3>2
  <2> QED
    BY <1>0, <1>1, <2>1, <2>2, <2>3, <2>4, <2>7, Apart DEF Stamped
<1>6. CASE UpsertAgentPerformance(w)
  <2>1. /\ Shape' /\ t \in Agents /\ UNCHANGED <<trades, rows>>
        /\ scores'[p][t] \in AgentRow /\ scores'[p][t].at = c.at
        /\ \A q \in Positions, u \in Agents : q # p \/ u # t => scores'[q][u] = scores[q][u]
    BY <1>6, ScoreShape
  <2>2. UNCHANGED <<time, raced>>
    BY <1>6 DEF UpsertAgentPerformance
  <2>3. \A q \in Positions, u \in TargetNames : q = p /\ u = t => Stamp(q, u)' = c.at
    BY <2>1, RowAssumption, Apart DEF Stamp, At
  <2>4. \A q \in Positions, u \in TargetNames : q # p \/ u # t => Stamp(q, u)' = Stamp(q, u)
    BY <2>1, Apart DEF Stamp, TargetNames
  <2>5. \A q \in Positions : q # p => (\A u \in Agents : scores'[q][u] = scores[q][u])
    BY <2>1
  <2>6. trades[p] # None
    BY <1>3, <2>1, Apart
  <2>7. RowsHaveTrades'
    <3> SUFFICES ASSUME NEW q \in Positions,
                        \/ \E u \in TableNames : rows'[q][u] # None
                        \/ \E a \in Agents : scores'[q][a] # None
                 PROVE  trades'[q] # None
      BY DEF RowsHaveTrades
    <3>1. CASE q = p
      BY <2>1, <2>6, <3>1
    <3>2. CASE q # p
      <4>1. RowsHaveTrades
        BY DEF Order
      <4> QED
        BY <2>1, <2>5, <3>2, <4>1 DEF RowsHaveTrades
    <3> QED
      BY <3>1, <3>2
  <2> QED
    BY <1>0, <1>1, <2>1, <2>2, <2>3, <2>4, <2>7, Apart DEF Stamped
<1> QED
    BY <1>4, <1>5, <1>6

LEMMA UpsertsOrder ==
    ASSUME Shape, Order, NEW w \in Workers,
           UpsertTradeRecord(w) \/ UpsertEvaluation(w) \/ UpsertAgentPerformance(w)
    PROVE  Order'
<1> DEFINE c == calls[w]
           p == c.e.position.id
           t == Head(c.left)
<1>1. Stamped(w) /\ RowsHaveTrades' /\ Shape'
    BY Stamps
<1>2. /\ c \in EvalCall
      /\ \A v \in Workers \ {w} : calls'[v] = calls[v]
      /\ calls'[w] \in EvalCall =>
            /\ Len(c.left) # 1
            /\ calls'[w].e = c.e /\ calls'[w].at = c.at /\ calls'[w].left = Tail(c.left)
    BY Stamps, UpsertsCall
<1>3. Underway(w) /\ p \in Positions /\ c.at \in Nat /\ c.at \in 1..time /\ Rising(c.left)
    BY <1>2, EvalParts DEF Order, Underway
<1>4. /\ \A q \in Positions, u \in TargetNames : q = p /\ u = t => Stamp(q, u)' = c.at
      /\ \A q \in Positions, u \in TargetNames : q # p \/ u # t => Stamp(q, u)' = Stamp(q, u)
      /\ \A q \in Positions : trades[q] # None => trades'[q] # None
      /\ t = "trade" => trades'[p] # None
      /\ time' = time /\ raced' = raced /\ t \in TargetNames
    BY <1>1 DEF Stamped
<1>5. \A v \in Workers : calls'[v] \in EvalCall => calls[v] \in EvalCall /\ calls'[v].e = calls[v].e
    BY <1>2
<1>6. /\ Len(c.left) # 1 => Pending(c.left) = {t} \cup Pending(Tail(c.left))
      /\ \A u \in Pending(c.left) : u = t \/ Before(t, u)
    BY <1>3, RisingTail
<1> HIDE DEF p, t
<1>7. (\A q \in Positions, u \in TargetNames : Stamp(q, u) <= time)'
  <2>1. \A q \in Positions, u \in TargetNames : Stamp(q, u) <= time
    BY DEF Order
  <2>2. \A q \in Positions, u \in TargetNames : Stamp(q, u)' <= time
    BY <1>3, <1>4, <2>1
  <2> QED
    BY <1>4, <2>2
<1>8. ASSUME NEW v \in Workers, calls'[v] \in EvalCall PROVE Underway(v)'
  <2> DEFINE d == calls[v]
  <2>1. d \in EvalCall /\ Underway(v) /\ d.at \in Nat /\ d.e.position.id \in Positions
    BY <1>5, <1>8, EvalParts DEF Order
  <2> PICK q \in Positions : q = d.e.position.id
    BY <2>1
  <2>2. calls'[v].e = d.e /\ calls'[v].at = d.at
    BY <1>2, <1>8
  <2>3. d.at \in 1..time /\ ("trade" \in Pending(d.left) \/ trades[q] # None)
    BY <2>1 DEF Underway
  <2>4. q \notin raced =>
           /\ \A u \in TargetNames : Stamp(q, u) <= d.at
           /\ \A u \in TargetNames \ Agents : u \in Pending(d.left) \/ Stamp(q, u) = d.at
           /\ Alone(v, q)
    BY <2>1 DEF Underway
  <2>5. Alone(v, q) => \A x \in Workers \ {v} : calls'[x] \in EvalCall => calls'[x].e.position.id # q
    BY <1>5 DEF Alone
  <2>6. CASE v = w
    <3>1. q = p /\ d = c /\ calls'[v].left = Tail(d.left) /\ Len(d.left) # 1
      BY <1>2, <1>8, <2>6 DEF p
    <3>2. "trade" \in Pending(calls'[v].left) \/ trades'[q] # None
      BY <1>3, <1>4, <1>6, <2>3, <3>1
    <3>3. ASSUME q \notin raced
          PROVE  /\ \A u \in TargetNames : Stamp(q, u)' <= d.at
                 /\ \A u \in TargetNames \ Agents : u \in Pending(calls'[v].left) \/ Stamp(q, u)' = d.at
      <4>1. \A u \in TargetNames : Stamp(q, u)' = d.at \/ (u # t /\ Stamp(q, u)' = Stamp(q, u))
        BY <1>4, <2>1, <3>1
      <4> QED
        BY <1>3, <1>6, <2>4, <3>1, <3>3, <4>1
    <3> HIDE DEF d
    <3>4. calls'[v].at = d.at /\ calls'[v].e.position.id = q
      BY <2>2 DEF d
    <3> QED
      BY <1>4, <2>3, <2>4, <2>5, <3>2, <3>3, <3>4 DEF Underway, Alone
  <2>7. CASE v # w
    <3>1. calls'[v] = d
      BY <1>2, <2>7
    <3>2. trades[q] # None => trades'[q] # None
      BY <1>4, <2>1
    <3>3. ASSUME q \notin raced PROVE \A u \in TargetNames : Stamp(q, u)' = Stamp(q, u)
      <4>1. p # q
        BY <1>2, <2>4, <2>7, <3>3 DEF Alone, p
      <4> QED
        BY <1>4, <2>1, <4>1
    <3> HIDE DEF d
    <3>4. calls'[v].at = d.at /\ calls'[v].e.position.id = q /\ calls'[v].left = d.left
      BY <3>1 DEF d
    <3> QED
      BY <1>4, <2>3, <2>4, <2>5, <3>2, <3>3, <3>4 DEF Underway, Alone
  <2> QED
    BY <2>6, <2>7
<1>9. ASSUME NEW q \in Positions \ raced PROVE Newest(q)'
  <2>1. Newest(q)
    BY <1>9 DEF Order
  <2>2. CASE q # p
    BY <1>4, <2>1, <2>2 DEF Newest
  <2>3. CASE q = p
    <3> SUFFICES ASSUME NEW a \in TargetNames, NEW b \in TargetNames, Rank[a] < Rank[b]
                 PROVE  Stamp(q, b)' <= Stamp(q, a)'
      BY DEF Newest
    <3>1. /\ \A u \in TargetNames : Stamp(q, u) <= c.at
          /\ \A u \in TargetNames \ Agents : u \in Pending(c.left) \/ Stamp(q, u) = c.at
      BY <1>3, <1>9, <2>3 DEF Underway, p
    <3>2. Stamp(q, b) <= Stamp(q, a)
      BY <2>1 DEF Newest
    <3>3. Rank[a] \in Int /\ Rank[b] \in Int /\ a # b
      BY Ranks
    <3>4. CASE a = t
      <4>1. Stamp(q, a)' = c.at /\ Stamp(q, b)' = Stamp(q, b)
        BY <1>4, <2>3, <3>3, <3>4
      <4> QED
        BY <3>1, <4>1
    <3>5. CASE b = t
      <4>1. Stamp(q, b)' = c.at /\ Stamp(q, a)' = Stamp(q, a)
        BY <1>4, <2>3, <3>3, <3>5
      <4>2. a \notin Agents
        <5>1. Rank[b] <= 7
          BY Ranks
        <5> QED
          BY <3>3, <5>1, Ranks
      <4>3. a \notin Pending(c.left)
        BY <1>6, <3>3, <3>5, <4>2 DEF Before
      <4>4. Stamp(q, a) = c.at
        BY <3>1, <4>2, <4>3
      <4> QED
        BY <1>3, <4>1, <4>4
    <3>6. CASE a # t /\ b # t
      BY <1>4, <3>2, <3>6
    <3> QED
      BY <3>4, <3>5, <3>6
  <2> QED
    BY <2>2, <2>3
<1> QED
    BY <1>1, <1>4, <1>7, <1>8, <1>9 DEF Order

LEMMA EvaluateOrder ==
    ASSUME Shape, Order, NEW w \in Workers, Evaluate(w)
    PROVE  Order'
<1>1. PICK e \in Evidence :
         /\ calls'[w].e = e /\ calls'[w].left = Targets(e)
         /\ raced' = IF \E v \in Workers : Evaluating(v, e.position.id)
                     THEN raced \cup {e.position.id} ELSE raced
    BY EvaluateShape
<1> PICK p \in Positions : p = e.position.id
    BY EvidenceParts
<1>2. calls'[w].at = time + 1 /\ \A v \in Workers \ {w} : calls'[v] = calls[v]
    BY EvaluateShape
<1>3. UNCHANGED <<trades, rows, scores>> /\ time' = time + 1 /\ time \in Nat
    BY DEF Evaluate, Shape
<1>4. \A q \in Positions, u \in TargetNames : Stamp(q, u)' = Stamp(q, u)
    BY <1>3 DEF Stamp
<1>5. \A q \in Positions, u \in TargetNames : Stamp(q, u) \in Nat /\ Stamp(q, u) <= time
    BY StampType DEF Order
<1>6. \A v \in Workers : calls[v] \in EvalCall => calls[v].pc = "evaluate"
    BY EvalParts
<1>7. ASSUME NEW v \in Workers, calls'[v] \in EvalCall PROVE Underway(v)'
  <2>1. CASE v = w
    <3>1. {"trade"} \cup TableNames \subseteq Pending(calls'[v].left)
      BY <1>1, <2>1, TargetsRising
    <3>2. TargetNames \ Agents \subseteq Pending(calls'[v].left)
      BY <3>1 DEF TargetNames
    <3>3. p \notin raced' => \A x \in Workers \ {v} : calls'[x] \in EvalCall => calls'[x].e.position.id # p
      BY <1>1, <1>2, <1>6, <2>1 DEF Evaluating
    <3>4. calls'[v].at = time + 1 /\ calls'[v].e.position.id = p
      BY <1>1, <1>2, <2>1
    <3>5. \A u \in TargetNames : Stamp(p, u)' <= time + 1
      BY <1>3, <1>4, <1>5
    <3>6. calls'[v].at \in 1..time'
      BY <1>3, <3>4
    <3> QED
      BY <3>1, <3>2, <3>3, <3>4, <3>5, <3>6 DEF Underway, Alone
  <2>2. CASE v # w
    <3> DEFINE d == calls[v]
    <3>1. calls'[v] = d /\ d \in EvalCall /\ Underway(v) /\ d.at \in Nat
          /\ d.e.position.id \in Positions
      BY <1>2, <1>7, <2>2, EvalParts DEF Order
    <3> PICK q \in Positions : q = d.e.position.id
      BY <3>1
    <3>2. q \notin raced' => q \notin raced /\ p # q
      BY <1>1, <1>6, <3>1 DEF Evaluating
    <3>3. q \notin raced' => \A x \in Workers \ {v} : calls'[x] \in EvalCall => calls'[x].e.position.id # q
      BY <1>1, <1>2, <3>1, <3>2 DEF Underway, Alone
    <3>4. d.at \in 1..time'
      BY <1>3, <3>1 DEF Underway
    <3>5. "trade" \in Pending(d.left) \/ trades'[q] # None
      BY <1>3, <3>1 DEF Underway
    <3>6. q \notin raced' =>
             /\ \A u \in TargetNames : Stamp(q, u)' <= d.at
             /\ \A u \in TargetNames \ Agents : u \in Pending(d.left) \/ Stamp(q, u)' = d.at
      BY <1>4, <3>1, <3>2 DEF Underway
    <3> HIDE DEF d
    <3>7. calls'[v].at = d.at /\ calls'[v].e.position.id = q /\ calls'[v].left = d.left
      BY <3>1 DEF d
    <3> QED
      BY <3>3, <3>4, <3>5, <3>6, <3>7 DEF Underway, Alone
  <2> QED
    BY <2>1, <2>2
<1>8. ASSUME NEW q \in Positions \ raced' PROVE Newest(q)'
  <2>1. Newest(q)
    BY <1>1, <1>8 DEF Order
  <2> QED
    BY <1>4, <2>1 DEF Newest
<1>9. RowsHaveTrades'
    BY <1>3 DEF Order, RowsHaveTrades
<1>10. (\A q \in Positions, u \in TargetNames : Stamp(q, u) <= time)'
  <2>1. \A q \in Positions, u \in TargetNames : Stamp(q, u)' <= time'
    BY <1>3, <1>4, <1>5
  <2> QED
    BY <2>1
<1> QED
    BY <1>7, <1>8, <1>9, <1>10 DEF Order

(* The other steps leave the rows alone, and evaluate nothing. *)
LEMMA RestOrder ==
    ASSUME Shape, Order, UNCHANGED <<trades, rows, scores, raced>>, time' \in {time, time + 1},
           \A v \in Workers : calls'[v] \in EvalCall => calls'[v] = calls[v]
    PROVE  Order'
<1>1. time \in Nat /\ time' \in Nat /\ time <= time'
    BY DEF Shape
<1>2. \A q \in Positions, u \in TargetNames : Stamp(q, u)' = Stamp(q, u)
    BY DEF Stamp
<1>3. \A q \in Positions, u \in TargetNames : Stamp(q, u) \in Nat /\ Stamp(q, u) <= time
    BY StampType DEF Order
<1>4. ASSUME NEW v \in Workers, calls'[v] \in EvalCall PROVE Underway(v)'
  <2> DEFINE d == calls[v]
  <2>1. calls'[v] = d /\ d \in EvalCall /\ Underway(v) /\ d.at \in Nat
        /\ d.e.position.id \in Positions
    BY <1>4, EvalParts DEF Order
  <2> PICK q \in Positions : q = d.e.position.id
    BY <2>1
  <2>2. Alone(v, q) => \A x \in Workers \ {v} : calls'[x] \in EvalCall => calls'[x].e.position.id # q
    BY DEF Alone
  <2>3. d.at \in 1..time'
    BY <1>1, <2>1 DEF Underway
  <2>4. \A u \in TargetNames : Stamp(q, u)' = Stamp(q, u)
    BY <1>2, <2>1
  <2>5. /\ "trade" \in Pending(d.left) \/ trades[q] # None
        /\ q \notin raced =>
             /\ \A u \in TargetNames : Stamp(q, u) <= d.at
             /\ \A u \in TargetNames \ Agents : u \in Pending(d.left) \/ Stamp(q, u) = d.at
             /\ Alone(v, q)
    BY <2>1 DEF Underway
  <2> HIDE DEF d
  <2>6. calls'[v].at = d.at /\ calls'[v].e.position.id = q /\ calls'[v].left = d.left
    BY <2>1 DEF d
  <2> QED
    BY <2>2, <2>3, <2>4, <2>5, <2>6 DEF Underway, Alone
<1>5. \A q \in Positions \ raced : Newest(q)'
    BY <1>2 DEF Order, Newest
<1>6. RowsHaveTrades'
    BY DEF Order, RowsHaveTrades
<1>7. (\A q \in Positions, u \in TargetNames : Stamp(q, u) <= time)'
  <2>1. \A q \in Positions, u \in TargetNames : Stamp(q, u)' <= time'
    BY <1>1, <1>2, <1>3
  <2> QED
    BY <2>1
<1> QED
    BY <1>4, <1>5, <1>6, <1>7 DEF Order

LEMMA StepOrder == ASSUME Shape, Order, [Next]_vars PROVE Order'
<1>1. CASE UNCHANGED vars
    BY <1>1, RestOrder DEF vars
<1>2. ASSUME NEW w \in Workers, Quiet(w) PROVE Order'
  <2>1. Silent(w)
    BY <1>2, QuietSteps
  <2>2. PICK c \in IdleCall \cup ReadCall \cup SaveCall : calls' = [calls EXCEPT ![w] = c]
    BY <2>1 DEF Silent
  <2>3. c \notin EvalCall
    BY DEF IdleCall, ReadCall, SaveCall, EvalCall, EvalFields
  <2>4. \A v \in Workers : calls'[v] \in EvalCall => calls'[v] = calls[v]
    BY <2>2, <2>3 DEF Shape
  <2> QED
    BY <2>1, <2>4, RestOrder DEF Silent
<1>3. CASE Crash
  <2>1. \A v \in Workers : calls'[v] \notin EvalCall
    BY <1>3 DEF Crash, Idle, EvalCall, EvalFields
  <2> QED
    BY <1>3, <2>1, RestOrder DEF Crash
<1> QED
    BY <1>1, <1>2, <1>3, NextCases, EvaluateOrder, UpsertsOrder

---------------------------------------------------------------------------
(* The moments of the rows and of the snapshots.                           *)

Greatest(s) == \E i \in DOMAIN s : \A j \in DOMAIN s : s[j].at <= s[i].at

Dated ==
    /\ \A p \in Positions : trades[p] # None => trades[p].position = p
    /\ \A p \in Positions, t \in TableNames : rows[p][t] # None => rows[p][t].at >= 1
    /\ \A p \in Positions, a \in Agents : scores[p][a] # None => scores[p][a].at >= 1
    /\ \A w \in Workers : calls[w].pc = "save" => calls[w].at \in 1..time
    /\ \A i \in DOMAIN snapshots : snapshots[i].at \in 1..time
    /\ snapshots # <<>> => Greatest(snapshots)

LEMMA StartDated == Init => Dated
BY DEF Init, Dated, Idle

LEMMA SavesBegin ==
    ASSUME Shape, NEW w \in Workers, NEW v \in Workers, calls'[v].pc = "save",
           \/ Evaluate(w) \/ UpsertTradeRecord(w) \/ UpsertEvaluation(w)
           \/ UpsertAgentPerformance(w) \/ Quiet(w)
    PROVE  calls'[v] = calls[v] \/ (calls'[v].at = time' /\ time' = time + 1)
<1>1. ASSUME NEW c, calls' = [calls EXCEPT ![w] = c], c.pc # "save" PROVE calls'[v] = calls[v]
    BY <1>1 DEF Shape
<1>2. ASSUME NEW answer, Returns(w, answer) PROVE calls'[v] = calls[v]
    BY <1>1, <1>2 DEF Returns
<1>3. CASE Evaluate(w)
  <2>1. calls'[w].pc = "evaluate" /\ \A x \in Workers \ {w} : calls'[x] = calls[x]
    BY <1>3, EvaluateShape DEF EvalCall, EvalFields
  <2> QED
    BY <2>1
<1>4. ASSUME NEW T, Upserts(w, T) PROVE calls'[v] = calls[v]
  <2>1. CASE Len(calls[w].left) = 1
    BY <1>2, <1>4, <2>1 DEF Upserts
  <2>2. CASE Len(calls[w].left) # 1
    <3>1. calls' = [calls EXCEPT ![w].left = Tail(@)] /\ calls[w].pc = "evaluate"
      BY <1>4, <2>2 DEF Upserts
    <3>2. calls[w] \in EvalFields
      BY <1>4, UpsertsShape DEF EvalCall
    <3>3. calls'[w].pc = "evaluate" /\ \A x \in Workers \ {w} : calls'[x] = calls[x]
      BY <3>1, <3>2 DEF Shape, EvalFields
    <3> QED
      BY <3>3
  <2> QED
    BY <2>1, <2>2
<1>5. CASE Recompute(w) \/ Summarize(w)
  <2>1. \A S : Reading("calibration", {}, None).pc # "save" /\ Reading("summary", S, None).pc # "save"
    BY DEF Reading
  <2> QED
    BY <1>1, <1>2, <1>5, <2>1 DEF Recompute, Summarize
<1>6. CASE FindContext(w)
  <2>1. \A S, q : [Reading("context", S, q) EXCEPT !.pc = "latest"].pc # "save"
    BY DEF Reading
  <2>2. PICK q \in Queries :
          \/ Returns(w, Nothing("raised"))
          \/ Returns(w, Nothing("empty"))
          \/ calls' = [calls EXCEPT ![w] =
                [Reading("context", MostSimilar(q, AllTrades, q.k), q) EXCEPT !.pc = "latest"]]
    BY <1>6 DEF FindContext
  <2> DEFINE c == [Reading("context", MostSimilar(q, AllTrades, q.k), q) EXCEPT !.pc = "latest"]
  <2>3. c.pc # "save"
    BY <2>1
  <2>4. calls' = [calls EXCEPT ![w] = c] \/ Returns(w, Nothing("raised")) \/ Returns(w, Nothing("empty"))
    BY <2>2
  <2> HIDE DEF c
  <2> QED
    BY <1>1, <1>2, <2>3, <2>4
<1>7. CASE ReadLatest(w) \/ ReadRecords(w)
  <2>1. calls[w] \in ReadCall
    BY <1>7, ReadParts DEF ReadLatest, ReadRecords
  <2>2. CASE ReadRecords(w) /\ Len(calls[w].left) = 1
    BY <1>2, <2>2 DEF ReadRecords
  <2>3. CASE ~(ReadRecords(w) /\ Len(calls[w].left) = 1)
    <3>1. calls'[w].pc = "records" /\ \A x \in Workers \ {w} : calls'[x] = calls[x]
      BY <1>7, <2>1, <2>3 DEF ReadLatest, ReadRecords, ReadCall, Shape
    <3> QED
      BY <3>1
  <2> QED
    BY <2>2, <2>3
<1>8. CASE ReadPredictions(w)
  <2> DEFINE c == calls[w]
             found == c.predictions \cup PredictionsOf(Head(c.left))
             last == Len(c.left) = 1
  <2>1. c \in ReadCall /\ c.pc = "predictions"
    BY <1>8, ReadParts DEF ReadPredictions
  <2>2. CASE ~last
    <3>1. calls'[w].pc = "predictions" /\ \A x \in Workers \ {w} : calls'[x] = calls[x]
      BY <1>8, <2>1, <2>2 DEF ReadPredictions, ReadCall, Shape
    <3> QED
      BY <3>1
  <2>3. CASE last /\ c.kind = "calibration"
    <3>1. calls' = [calls EXCEPT ![w] = [pc |-> "save", at |-> time', of |-> Calibration(found)]]
          /\ time' = time + 1
      BY <1>8, <2>3 DEF ReadPredictions
    <3> QED
      BY <3>1 DEF Shape
  <2>4. CASE last /\ c.kind # "calibration" /\ c.kind = "summary" /\ DisagreementRaises(c.seen)
    BY <1>2, <1>8, <2>4 DEF ReadPredictions
  <2>5. CASE last /\ c.kind # "calibration" /\ ~(c.kind = "summary" /\ DisagreementRaises(c.seen))
    <3>1. calls' = [calls EXCEPT ![w].pc = "records", ![w].left = AgentOrder, ![w].predictions = found]
      BY <1>8, <2>5 DEF ReadPredictions
    <3> HIDE DEF found
    <3>2. calls'[w].pc = "records" /\ \A x \in Workers \ {w} : calls'[x] = calls[x]
      BY <2>1, <3>1 DEF ReadCall, Shape
    <3> QED
      BY <3>2
  <2> QED
    BY <2>2, <2>3, <2>4, <2>5
<1>9. CASE SaveCalibration(w)
    BY <1>2, <1>9 DEF SaveCalibration
<1> QED
    BY <1>3, <1>4, <1>5, <1>6, <1>7, <1>8, <1>9
       DEF Quiet, UpsertTradeRecord, UpsertEvaluation, UpsertAgentPerformance

(* A snapshot is only ever added, with a moment there has been. *)
LEMMA SnapshotStep ==
    ASSUME Shape, Dated, [Next]_vars
    PROVE  \/ snapshots' = snapshots
           \/ \E s : snapshots' = Append(snapshots, s) /\ s.at \in 1..time
<1>1. CASE UNCHANGED vars
    BY <1>1 DEF vars
<1>2. CASE Crash
    BY <1>2 DEF Crash
<1>3. ASSUME NEW w \in Workers, Evaluate(w) \/ UpsertTradeRecord(w) \/ UpsertEvaluation(w)
                                  \/ UpsertAgentPerformance(w)
      PROVE  snapshots' = snapshots
    BY <1>3 DEF Evaluate, UpsertTradeRecord, UpsertEvaluation, UpsertAgentPerformance
<1>4. ASSUME NEW w \in Workers, Quiet(w), ~SaveCalibration(w) PROVE snapshots' = snapshots
    BY <1>4, BeginSilent, GoOnSilent, PredictionsSilent DEF Quiet
<1>5. ASSUME NEW w \in Workers, SaveCalibration(w)
      PROVE  \E s : snapshots' = Append(snapshots, s) /\ s.at \in 1..time
  <2>1. calls[w].at \in 1..time
    BY <1>5 DEF SaveCalibration, Dated
  <2> QED
    BY <1>5, <2>1 DEF SaveCalibration
<1> QED
    BY <1>1, <1>2, <1>3, <1>4, <1>5, NextCases

LEMMA TimeStep == ASSUME Shape, [Next]_vars PROVE time \in Nat /\ time' \in {time, time + 1}
<1>1. ASSUME NEW w \in Workers, Quiet(w) PROVE time' \in {time, time + 1}
    BY <1>1, QuietSteps DEF Silent
<1> QED
    BY <1>1, NextCases
       DEF vars, Crash, Evaluate, UpsertTradeRecord, UpsertEvaluation, UpsertAgentPerformance, Shape

LEMMA GreatestStep ==
    ASSUME NEW S, NEW s \in Seq(S), NEW x, \A i \in DOMAIN s : s[i].at \in Nat, x.at \in Nat,
           s # <<>> => Greatest(s)
    PROVE  /\ Append(s, x) # <<>> /\ Greatest(Append(s, x))
           /\ \A i \in DOMAIN s : i \in DOMAIN Append(s, x) /\ Append(s, x)[i] = s[i]
           /\ \A i \in DOMAIN Append(s, x) : i \in DOMAIN s \/ Append(s, x)[i] = x
<1> DEFINE T == S \cup {x}
           n == Len(s)
<1>1. s \in Seq(T) /\ x \in T
    BY SeqMonotonic
<1> HIDE DEF T
<1>2. /\ n \in Nat /\ DOMAIN s = 1..n /\ DOMAIN Append(s, x) = 1..(n + 1)
      /\ \A i \in 1..n : Append(s, x)[i] = s[i]
      /\ Append(s, x)[n + 1] = x
    BY <1>1
<1>3. n + 1 \in DOMAIN Append(s, x) /\ \A i \in DOMAIN Append(s, x) : i \in DOMAIN s \/ i = n + 1
    BY <1>2
<1>4. Append(s, x) # <<>>
    BY <1>3
<1> DEFINE z == Append(s, x)
<1>5. \A i \in DOMAIN s : i \in DOMAIN z /\ z[i] = s[i]
    BY <1>2
<1>6. z[n + 1] = x /\ n + 1 \in DOMAIN z /\ \A i \in DOMAIN z : i \in DOMAIN s \/ i = n + 1
    BY <1>2, <1>3
<1> HIDE DEF z, n
<1>7. Greatest(z)
  <2>1. CASE s = <<>>
    <3>1. \A i \in DOMAIN z : z[i].at = x.at
      BY <1>6, <2>1
    <3> QED
      BY <1>6, <3>1 DEF Greatest
  <2>2. CASE s # <<>>
    <3>1. PICK k \in DOMAIN s : \A j \in DOMAIN s : s[j].at <= s[k].at
      BY <2>2 DEF Greatest
    <3>2. CASE s[k].at <= x.at
      <4>1. \A i \in DOMAIN s : s[i].at \in Nat /\ s[k].at \in Nat /\ s[i].at <= x.at
        BY <3>1, <3>2
      <4>2. \A i \in DOMAIN z : z[i].at <= z[n + 1].at
        BY <1>5, <1>6, <4>1
      <4> QED
        BY <1>6, <4>2 DEF Greatest
    <3>3. CASE ~(s[k].at <= x.at)
      <4>1. x.at <= s[k].at
        BY <3>3
      <4>2. \A i \in DOMAIN z : z[i].at <= z[k].at
        BY <1>5, <1>6, <3>1, <4>1
      <4> QED
        BY <1>5, <4>2 DEF Greatest
    <3> QED
      BY <3>2, <3>3
  <2> QED
    BY <2>1, <2>2
<1> QED
    BY <1>4, <1>5, <1>6, <1>7 DEF z

(* What a step does to the rows, as far as their moments go. *)
LEMMA RowStep ==
    ASSUME Shape, Order, [Next]_vars
    PROVE  /\ \A p \in Positions : \/ trades'[p] = trades[p]
                                   \/ trades'[p].position = p
                                        /\ (trades[p] # None => trades'[p].created = trades[p].created)
           /\ \A p \in Positions, t \in TableNames : rows'[p][t] = rows[p][t] \/ rows'[p][t].at >= 1
           /\ \A p \in Positions, a \in Agents :
                scores'[p][a] = scores[p][a] \/ (scores'[p][a] # None /\ scores'[p][a].at >= 1)
<1>1. CASE UNCHANGED <<trades, rows, scores>>
    BY <1>1
<1>2. ASSUME NEW w \in Workers, calls[w] \in EvalCall PROVE calls[w].at >= 1
    BY <1>2 DEF Order, Underway, Shape
<1>3. ASSUME NEW w \in Workers, UpsertTradeRecord(w)
      PROVE  /\ \A p \in Positions : \/ trades'[p] = trades[p]
                                     \/ trades'[p].position = p
                                          /\ (trades[p] # None => trades'[p].created = trades[p].created)
             /\ UNCHANGED <<rows, scores>>
  <2> PICK q : q = calls[w].e.position.id
    OBVIOUS
  <2>1. trades' = [trades EXCEPT ![q] = trades'[q]] /\ trades'[q].position = q
        /\ (trades[q] # None => trades'[q].created = trades[q].created)
    BY <1>3, TradeShape
  <2>2. \A p \in Positions : p # q => trades'[p] = trades[p]
    BY <2>1 DEF Shape
  <2> QED
    BY <1>3, <2>1, <2>2 DEF UpsertTradeRecord
<1>4. ASSUME NEW w \in Workers, UpsertEvaluation(w)
      PROVE  /\ \A p \in Positions, t \in TableNames : rows'[p][t] = rows[p][t] \/ rows'[p][t].at >= 1
             /\ UNCHANGED <<trades, scores>>
  <2>1. calls[w] \in EvalCall
    BY <1>4, UpsertsShape DEF UpsertEvaluation
  <2> PICK q, u : q = calls[w].e.position.id /\ u = Head(calls[w].left)
    OBVIOUS
  <2>2. /\ rows'[q][u].at = calls[w].at /\ UNCHANGED <<trades, scores>>
        /\ \A p \in Positions, t \in TableNames : p # q \/ t # u => rows'[p][t] = rows[p][t]
    BY <1>4, RowShape
  <2> QED
    BY <1>2, <2>1, <2>2
<1>5. ASSUME NEW w \in Workers, UpsertAgentPerformance(w)
      PROVE  /\ \A p \in Positions, a \in Agents :
                  scores'[p][a] = scores[p][a] \/ (scores'[p][a] # None /\ scores'[p][a].at >= 1)
             /\ UNCHANGED <<trades, rows>>
  <2>1. calls[w] \in EvalCall
    BY <1>5, UpsertsShape DEF UpsertAgentPerformance
  <2> PICK q, b : q = calls[w].e.position.id /\ b = Head(calls[w].left)
    OBVIOUS
  <2>2. /\ scores'[q][b] \in AgentRow /\ scores'[q][b].at = calls[w].at
        /\ UNCHANGED <<trades, rows>>
        /\ \A p \in Positions, a \in Agents : p # q \/ a # b => scores'[p][a] = scores[p][a]
    BY <1>5, ScoreShape
  <2>3. scores'[q][b] # None /\ scores'[q][b].at >= 1
    BY <1>2, <2>1, <2>2, RowAssumption
  <2> QED
    BY <2>2, <2>3
<1>6. \/ UNCHANGED <<trades, rows, scores>>
      \/ \E w \in Workers : UpsertTradeRecord(w) \/ UpsertEvaluation(w) \/ UpsertAgentPerformance(w)
  <2>1. ASSUME NEW w \in Workers, Quiet(w) PROVE UNCHANGED <<trades, rows, scores>>
    BY <2>1, QuietSteps DEF Silent
  <2> QED
    BY <2>1, NextCases DEF vars, Crash, Evaluate
<1> QED
    BY <1>1, <1>3, <1>4, <1>5, <1>6

LEMMA StepDated == ASSUME Shape, Order, Dated, [Next]_vars PROVE Dated'
<1>1. time \in Nat /\ time' \in Nat /\ time <= time' /\ time' \in {time, time + 1}
    BY TimeStep
<1>2. ASSUME NEW v \in Workers, calls'[v].pc = "save" PROVE calls'[v].at \in 1..time'
  <2>1. CASE calls'[v] = calls[v]
    BY <1>1, <1>2, <2>1 DEF Dated
  <2>2. CASE calls'[v] # calls[v]
    <3>1. ~Crash /\ ~UNCHANGED vars
      BY <1>2, <2>2 DEF Crash, Idle, vars
    <3>2. calls'[v].at = time' /\ time' = time + 1
      BY <1>2, <2>2, <3>1, NextCases, SavesBegin
    <3> QED
      BY <1>1, <3>2
  <2> QED
    BY <2>1, <2>2
<1>3. /\ \A i \in DOMAIN snapshots' : snapshots'[i].at \in 1..time'
      /\ snapshots' # <<>> => Greatest(snapshots')
  <2>1. \A i \in DOMAIN snapshots : snapshots[i].at \in 1..time' /\ snapshots[i].at \in Nat
    BY <1>1 DEF Dated
  <2>2. CASE snapshots' = snapshots
    BY <2>1, <2>2 DEF Dated
  <2>3. CASE \E s : snapshots' = Append(snapshots, s) /\ s.at \in 1..time
    <3>1. PICK s : snapshots' = Append(snapshots, s) /\ s.at \in 1..time
      BY <2>3
    <3>2. PICK S : snapshots \in Seq(S)
      BY DEF Shape
    <3>3. s.at \in Nat /\ s.at \in 1..time'
      BY <1>1, <3>1
    <3>4. snapshots # <<>> => Greatest(snapshots)
      BY DEF Dated
    <3>5. /\ Greatest(Append(snapshots, s))
          /\ \A i \in DOMAIN snapshots :
                i \in DOMAIN Append(snapshots, s) /\ Append(snapshots, s)[i] = snapshots[i]
          /\ \A i \in DOMAIN Append(snapshots, s) : i \in DOMAIN snapshots \/ Append(snapshots, s)[i] = s
      BY <2>1, <3>2, <3>3, <3>4, GreatestStep
    <3> QED
      BY <2>1, <3>1, <3>3, <3>5
  <2> QED
    BY <2>2, <2>3, SnapshotStep
<1>4. /\ \A p \in Positions : trades'[p] # None => trades'[p].position = p
      /\ \A p \in Positions, t \in TableNames : rows'[p][t] # None => rows'[p][t].at >= 1
      /\ \A p \in Positions, a \in Agents : scores'[p][a] # None => scores'[p][a].at >= 1
    BY RowStep DEF Dated
<1> QED
    BY <1>2, <1>3, <1>4 DEF Dated

---------------------------------------------------------------------------
(* The theorems. *)

IInv == Shape /\ Order /\ Dated

LEMMA Step == ASSUME IInv, [Next]_vars PROVE IInv'
BY StepShape, StepOrder, StepDated DEF IInv

(* The strengthening of the invariants below is itself an invariant. *)
THEOREM Invariance == Spec => []IInv
<1>1. Init => IInv
    BY StartShape, StartOrder, StartDated DEF IInv
<1>2. IInv /\ [Next]_vars => IInv'
    BY Step
<1> QED
    BY <1>1, <1>2, PTL DEF Spec

(* Each row has its columns' types and the moment of an evaluation there   *)
(* has been, and a trade's row is its position's.                          *)
THEOREM TypeCorrect == Spec => []TypeOK
<1>1. ASSUME IInv PROVE TypeOK
  <2>1. Shape /\ Order /\ Dated /\ time \in Nat
    BY <1>1 DEF IInv, Shape
  <2>2. \A p \in Positions : trades[p] # None => trades[p] \in TradeRow /\ trades[p].position = p
    BY <2>1 DEF Shape, Dated, Optional
  <2>3. ASSUME NEW p \in Positions, NEW t \in TableNames, rows[p][t] # None
        PROVE  rows[p][t] \in EvaluationRow /\ rows[p][t].at \in 1..time
    <3>1. rows[p][t] \in EvaluationRow
      BY <2>1, <2>3 DEF Shape, Optional
    <3>2. rows[p][t].at \in Nat
      BY <3>1 DEF EvaluationRow
    <3>3. t \in TargetNames /\ t # "trade"
      BY Apart DEF TargetNames
    <3>4. rows[p][t].at >= 1 /\ Stamp(p, t) <= time /\ Stamp(p, t) = rows[p][t].at
      BY <2>1, <2>3, <3>3 DEF Dated, Order, Stamp, At
    <3> QED
      BY <2>1, <3>1, <3>2, <3>4
  <2>4. ASSUME NEW p \in Positions, NEW a \in Agents, scores[p][a] # None
        PROVE  scores[p][a] \in AgentRow /\ scores[p][a].at \in 1..time
    <3>1. scores[p][a] \in AgentRow
      BY <2>1, <2>4 DEF Shape, Optional
    <3>2. scores[p][a].at \in Nat
      BY <3>1 DEF AgentRow
    <3>3. a \in TargetNames /\ a # "trade" /\ a \notin TableNames
      BY Apart DEF TargetNames
    <3>4. scores[p][a].at >= 1 /\ Stamp(p, a) <= time /\ Stamp(p, a) = scores[p][a].at
      BY <2>1, <2>4, <3>3 DEF Dated, Order, Stamp, At
    <3> QED
      BY <2>1, <3>1, <3>2, <3>4
  <2>5. \A w \in Workers :
          calls[w].pc \in {"idle", "evaluate", "predictions", "latest", "records", "save"}
    BY <2>1 DEF Shape, IdleCall, EvalCall, EvalFields, ReadCall, SaveCall
  <2> QED
    BY <2>1, <2>2, <2>3, <2>4, <2>5 DEF TypeOK, Dated, Shape
<1> QED
    BY <1>1, Invariance, PTL

(* No row of a trade without the trade's own, wherever the process died.   *)
THEOREM NoOrphans == Spec => []RowsHaveTrades
<1>1. IInv => RowsHaveTrades
    BY DEF IInv, Order
<1> QED
    BY <1>1, Invariance, PTL

(* The rows of a trade are of the newest evaluation up to some table, and  *)
(* of older ones after it, unless two evaluations of it overlapped.        *)
THEOREM CutNotMixed == Spec => []NewestFirst
<1>1. ASSUME IInv, NEW p \in Positions \ raced
      PROVE  /\ At(rows[p]["outcome"]) <= At(trades[p])
             /\ \A i \in 2..Len(Tables) : At(rows[p][Tables[i]]) <= At(rows[p][Tables[i - 1]])
             /\ \A a \in Agents : At(scores[p][a]) <= At(rows[p]["instrument"])
  <2>1. Newest(p)
    BY <1>1 DEF IInv, Order
  <2>2. /\ Stamp(p, "trade") = At(trades[p])
        /\ \A t \in TableNames : Stamp(p, t) = At(rows[p][t])
        /\ \A a \in Agents : Stamp(p, a) = At(scores[p][a])
    BY Apart DEF Stamp
  <2>3. "trade" \in TargetNames /\ TableNames \subseteq TargetNames /\ Agents \subseteq TargetNames
    BY DEF TargetNames
  <2>4. "outcome" \in TableNames /\ "instrument" \in TableNames
        /\ \A a \in Agents : Rank["instrument"] < Rank[a]
    BY Names, Ranks
  <2>5. At(rows[p]["outcome"]) <= At(trades[p])
    BY <2>1, <2>2, <2>3, <2>4, Ranks DEF Newest
  <2>6. \A a \in Agents : At(scores[p][a]) <= At(rows[p]["instrument"])
    BY <2>1, <2>2, <2>3, <2>4 DEF Newest
  <2>7. ASSUME NEW i \in 2..6 PROVE At(rows[p][Tables[i]]) <= At(rows[p][Tables[i - 1]])
    <3>1. \A k \in 1..6 : Tables[k] \in TableNames /\ Rank[Tables[k]] = k
      BY Names, Ranks
    <3>2. i \in 1..6 /\ i - 1 \in 1..6 /\ i - 1 < i
      OBVIOUS
    <3>3. Rank[Tables[i - 1]] < Rank[Tables[i]]
      BY <3>1, <3>2
    <3> QED
      BY <2>1, <2>2, <2>3, <3>1, <3>2, <3>3 DEF Newest
  <2> QED
    BY <2>5, <2>6, <2>7, Names
<1>2. IInv => NewestFirst
    BY <1>1 DEF NewestFirst
<1> QED
    BY <1>2, Invariance, PTL

(* A trade keeps the moment it was created, though its row is written as   *)
(* often as its position is evaluated, by any number of threads.           *)
THEOREM CreatedOnce == Spec => CreatedAtIsKept
<1>1. ASSUME IInv, [Next]_vars
      PROVE  [\A p \in Positions : trades[p] # None => trades'[p].created = trades[p].created]_vars
    BY <1>1, RowStep DEF IInv
<1> QED
    BY <1>1, Invariance, PTL DEF Spec, CreatedAtIsKept

(* The latest calibration is never replaced by an older one, whichever of  *)
(* two calls saves first.                                                  *)
THEOREM LatestOnlyForward == Spec => LatestNeverGoesBack
<1>1. ASSUME IInv, [Next]_vars, snapshots # <<>> PROVE Latest'.at >= Latest.at
  <2> DEFINE all == {snapshots[i] : i \in DOMAIN snapshots}
  <2>1. Dated /\ Dated' /\ Shape
    BY <1>1, Step DEF IInv
  <2>2. \E s \in all : \A i \in DOMAIN snapshots : snapshots[i].at <= s.at
    BY <1>1, <2>1 DEF Dated, Greatest
  <2>3. Latest \in all /\ \A i \in DOMAIN snapshots : snapshots[i].at <= Latest.at
    BY <2>2 DEF Latest
  <2>4. PICK k \in DOMAIN snapshots : Latest = snapshots[k]
    BY <2>3
  <2>5. Latest.at \in Nat
    BY <2>1, <2>4 DEF Dated
  <2>6. CASE snapshots' = snapshots
    BY <2>5, <2>6 DEF Latest
  <2>7. CASE \E s : snapshots' = Append(snapshots, s) /\ s.at \in 1..time
    <3>1. PICK s : snapshots' = Append(snapshots, s) /\ s.at \in 1..time
      BY <2>7
    <3>2. PICK S : snapshots \in Seq(S)
      BY <2>1 DEF Shape
    <3>3. s.at \in Nat /\ time \in Nat
      BY <2>1, <3>1 DEF Shape
    <3>4. \A i \in DOMAIN snapshots : snapshots[i].at \in Nat
      BY <2>1 DEF Dated
    <3>5. snapshots' # <<>> /\ k \in DOMAIN snapshots' /\ snapshots'[k] = snapshots[k]
      BY <1>1, <2>1, <3>1, <3>2, <3>3, <3>4, GreatestStep DEF Dated
    <3>6. \E t \in {snapshots'[i] : i \in DOMAIN snapshots'} :
            \A i \in DOMAIN snapshots' : snapshots'[i].at <= t.at
      BY <2>1, <3>5 DEF Dated, Greatest
    <3>7. Latest' \in {snapshots'[i] : i \in DOMAIN snapshots'}
          /\ \A i \in DOMAIN snapshots' : snapshots'[i].at <= Latest'.at
      BY <3>6 DEF Latest
    <3>8. Latest'.at \in Nat
      BY <2>1, <3>7 DEF Dated
    <3>9. snapshots[k].at <= Latest'.at
      BY <3>5, <3>7
    <3> QED
      BY <2>4, <2>5, <3>8, <3>9
  <2> QED
    BY <1>1, <2>1, <2>6, <2>7, SnapshotStep
<1>2. IInv /\ [Next]_vars => [snapshots # <<>> => Latest'.at >= Latest.at]_vars
    BY <1>1
<1> QED
    BY <1>2, Invariance, PTL DEF Spec, LatestNeverGoesBack

---------------------------------------------------------------------------
(* The opinions and the records a summary counts: those of an agent the    *)
(* first reading has passed are at most its records, which only grow.      *)

Size(a) == Cardinality(History(a))
SoFar(left) ==
    CASE Len(left) = 4 -> 0
      [] Len(left) = 3 -> Size("QUANT")
      [] Len(left) = 2 -> Size("QUANT") + Size("BULL")
      [] OTHER -> Size("QUANT") + Size("BULL") + Size("BEAR")
Yet(left) ==
    CASE Len(left) = 4 -> Size("QUANT") + Size("BULL") + Size("BEAR") + Size("REGIME")
      [] Len(left) = 3 -> Size("BULL") + Size("BEAR") + Size("REGIME")
      [] Len(left) = 2 -> Size("BEAR") + Size("REGIME")
      [] OTHER -> Size("REGIME")

Adds(c) ==
    /\ c.pc = "idle" => c.answer.samples <= c.answer.evaluated
    /\ c.pc = "predictions" => Cardinality(c.predictions) <= SoFar(c.left) /\ c.evaluated = 0
    /\ c.pc = "latest" => Cardinality(c.predictions) = 0
    /\ c.pc = "records" => Cardinality(c.predictions) <= c.evaluated + Yet(c.left)

Calls == IdleCall \cup EvalCall \cup ReadCall \cup SaveCall
Summing == \A w \in Workers, c \in Calls : c = calls[w] => Adds(c)

LEMMA SizeType == \A a \in Agents : Size(a) \in Nat
BY HistoryType DEF Size

LEMMA SuffixSize ==
    ASSUME NEW s \in Suffixes
    PROVE  /\ SoFar(s) \in Nat /\ Yet(s) \in Nat /\ Size(Head(s)) \in Nat
           /\ Len(s) # 1 => /\ SoFar(Tail(s)) = SoFar(s) + Size(Head(s))
                            /\ Yet(s) = Size(Head(s)) + Yet(Tail(s))
           /\ Len(s) = 1 => /\ Yet(AgentOrder) = SoFar(s) + Size(Head(s))
                            /\ Yet(s) = Size(Head(s))
           /\ SoFar(AgentOrder) = 0
<1>1. /\ Size("QUANT") \in Nat /\ Size("BULL") \in Nat /\ Size("BEAR") \in Nat /\ Size("REGIME") \in Nat
      /\ Len(AgentOrder) = 4
    BY SizeType DEF Agents, AgentOrder
<1>2. \A t : /\ Len(t) = 4 => SoFar(t) = 0
             /\ Len(t) = 3 => SoFar(t) = Size("QUANT")
             /\ Len(t) = 2 => SoFar(t) = Size("QUANT") + Size("BULL")
             /\ Len(t) = 1 => SoFar(t) = Size("QUANT") + Size("BULL") + Size("BEAR")
    BY DEF SoFar
<1>3. \A t : /\ Len(t) = 4 => Yet(t) = Size("QUANT") + Size("BULL") + Size("BEAR") + Size("REGIME")
             /\ Len(t) = 3 => Yet(t) = Size("BULL") + Size("BEAR") + Size("REGIME")
             /\ Len(t) = 2 => Yet(t) = Size("BEAR") + Size("REGIME")
             /\ Len(t) = 1 => Yet(t) = Size("REGIME")
    BY DEF Yet
<1>4. SoFar(AgentOrder) = 0 /\ Yet(AgentOrder) = Size("QUANT") + Size("BULL") + Size("BEAR") + Size("REGIME")
    BY <1>1, <1>2, <1>3
<1>5. CASE s = AgentOrder
  <2>1. Head(s) = "QUANT" /\ Len(Tail(s)) = 3 /\ Len(s) = 4
    BY <1>5 DEF AgentOrder
  <2>2. Size(Head(s)) = Size("QUANT")
    BY <2>1
  <2>3. SoFar(s) = 0
    BY <1>2, <2>1
  <2>4. Yet(s) = Size("QUANT") + Size("BULL") + Size("BEAR") + Size("REGIME")
    BY <1>3, <2>1
  <2>5. SoFar(Tail(s)) = Size("QUANT")
    BY <1>2, <2>1
  <2>6. Yet(Tail(s)) = Size("BULL") + Size("BEAR") + Size("REGIME")
    BY <1>3, <2>1
  <2> QED
    BY <1>1, <1>4, <2>1, <2>2, <2>3, <2>4, <2>5, <2>6
<1>6. CASE s = <<"BULL", "BEAR", "REGIME">>
  <2>1. Head(s) = "BULL" /\ Len(Tail(s)) = 2 /\ Len(s) = 3
    BY <1>6
  <2>2. Size(Head(s)) = Size("BULL")
    BY <2>1
  <2>3. SoFar(s) = Size("QUANT")
    BY <1>2, <2>1
  <2>4. Yet(s) = Size("BULL") + Size("BEAR") + Size("REGIME")
    BY <1>3, <2>1
  <2>5. SoFar(Tail(s)) = Size("QUANT") + Size("BULL")
    BY <1>2, <2>1
  <2>6. Yet(Tail(s)) = Size("BEAR") + Size("REGIME")
    BY <1>3, <2>1
  <2> QED
    BY <1>1, <1>4, <2>1, <2>2, <2>3, <2>4, <2>5, <2>6
<1>7. CASE s = <<"BEAR", "REGIME">>
  <2>1. Head(s) = "BEAR" /\ Len(Tail(s)) = 1 /\ Len(s) = 2
    BY <1>7
  <2>2. Size(Head(s)) = Size("BEAR")
    BY <2>1
  <2>3. SoFar(s) = Size("QUANT") + Size("BULL")
    BY <1>2, <2>1
  <2>4. Yet(s) = Size("BEAR") + Size("REGIME")
    BY <1>3, <2>1
  <2>5. SoFar(Tail(s)) = Size("QUANT") + Size("BULL") + Size("BEAR")
    BY <1>2, <2>1
  <2>6. Yet(Tail(s)) = Size("REGIME")
    BY <1>3, <2>1
  <2> QED
    BY <1>1, <1>4, <2>1, <2>2, <2>3, <2>4, <2>5, <2>6
<1>8. CASE s = <<"REGIME">>
  <2>1. Head(s) = "REGIME" /\ Len(s) = 1
    BY <1>8
  <2>2. Size(Head(s)) = Size("REGIME")
    BY <2>1
  <2> QED
    BY <1>1, <1>2, <1>3, <1>4, <2>1, <2>2
<1> QED
    BY <1>5, <1>6, <1>7, <1>8 DEF Suffixes

(* What is counted only grows. *)
LEMMA Grows ==
    ASSUME IInv, [Next]_vars
    PROVE  \A s : /\ SoFar(s) \in Nat /\ SoFar(s)' \in Nat /\ SoFar(s) <= SoFar(s)'
                  /\ Yet(s) \in Nat /\ Yet(s)' \in Nat /\ Yet(s) <= Yet(s)'
<1>1. ASSUME NEW a \in Agents PROVE Size(a) \in Nat /\ Size(a)' \in Nat /\ Size(a) <= Size(a)'
  <2>1. \A p \in Positions : scores[p][a] # None => scores'[p][a] # None
    BY <1>1, RowStep DEF IInv
  <2>2. History(a) \subseteq History(a)'
    BY <2>1 DEF History
  <2>3. IsFiniteSet(History(a))' /\ IsFiniteSet(History(a))
    BY PositionAssumption, FS_Subset DEF History
  <2>4. PICK S, T : S = History(a) /\ T = History(a)'
    OBVIOUS
  <2>5. Cardinality(S) \in Nat /\ Cardinality(T) \in Nat /\ Cardinality(S) <= Cardinality(T)
    BY <2>2, <2>3, <2>4, FS_Subset, FS_CardinalityType
  <2> QED
    BY <2>4, <2>5 DEF Size
<1>2. "QUANT" \in Agents /\ "BULL" \in Agents /\ "BEAR" \in Agents /\ "REGIME" \in Agents
    BY DEF Agents
<1>3. /\ Size("QUANT") \in Nat /\ Size("QUANT")' \in Nat /\ Size("QUANT") <= Size("QUANT")'
      /\ Size("BULL") \in Nat /\ Size("BULL")' \in Nat /\ Size("BULL") <= Size("BULL")'
      /\ Size("BEAR") \in Nat /\ Size("BEAR")' \in Nat /\ Size("BEAR") <= Size("BEAR")'
      /\ Size("REGIME") \in Nat /\ Size("REGIME")' \in Nat /\ Size("REGIME") <= Size("REGIME")'
    BY <1>1, <1>2
<1> QED
    BY <1>3 DEF SoFar, Yet

LEMMA NothingAdds ==
    ASSUME NEW kind PROVE Adds([pc |-> "idle", answer |-> Nothing(kind)]) /\ Adds(Idle)
BY DEF Adds, Nothing, Answer, Idle

LEMMA ReadAdds ==
    ASSUME Shape, Summing, NEW w \in Workers, ReadLatest(w) \/ ReadPredictions(w) \/ ReadRecords(w)
    PROVE  \E d : calls' = [calls EXCEPT ![w] = d] /\ Adds(d)
<1> DEFINE c == calls[w]
           a == Head(c.left)
<1>1. /\ c.kind \in {"calibration", "summary", "context"} /\ c.left \in Suffixes
      /\ c.predictions \in PredictionSets /\ c.evaluated \in Nat /\ c \in ReadCall
  <2>1. c \in ReadCall
    BY ReadParts DEF ReadLatest, ReadPredictions, ReadRecords
  <2> QED
    BY <2>1 DEF ReadCall
<1>2. Adds(c)
    BY <1>1 DEF Summing, Calls
<1>3. Cardinality(c.predictions) \in Nat
    BY <1>1, EmptyPredictions, PredictionUnion
<1>4. CASE ReadLatest(w)
  <2> DEFINE d == [c EXCEPT !.pc = "records"]
  <2>1. calls' = [calls EXCEPT ![w] = d] /\ c.pc = "latest"
    BY <1>4 DEF ReadLatest, Shape
  <2>2. d.pc = "records" /\ d.predictions = c.predictions /\ d.evaluated = c.evaluated /\ d.left = c.left
    BY <1>1 DEF ReadCall
  <2>3. Cardinality(c.predictions) = 0 /\ Yet(c.left) \in Nat
    BY <1>1, <1>2, <2>1, SuffixSize DEF Adds
  <2> HIDE DEF d
  <2>4. Adds(d)
    BY <1>1, <2>2, <2>3 DEF Adds
  <2> QED
    BY <2>1, <2>4
<1>5. CASE ReadPredictions(w)
  <2> DEFINE found == c.predictions \cup PredictionsOf(a)
             last == Len(c.left) = 1
  <2>1. Cardinality(c.predictions) <= SoFar(c.left) /\ c.evaluated = 0
    BY <1>2, <1>5 DEF Adds, ReadPredictions
  <2>2. Cardinality(found) \in Nat /\ Cardinality(found) <= SoFar(c.left) + Size(a)
    <3>1. PredictionsOf(a) \in PredictionSets /\ Cardinality(PredictionsOf(a)) <= Size(a)
      BY <1>1, SuffixType, PredictionType DEF Size
    <3>2. SoFar(c.left) \in Nat /\ Size(a) \in Nat
      BY <1>1, SuffixSize
    <3>3. /\ Cardinality(found) \in Nat /\ Cardinality(PredictionsOf(a)) \in Nat
          /\ Cardinality(found) <= Cardinality(c.predictions) + Cardinality(PredictionsOf(a))
      BY <1>1, <3>1, PredictionUnion
    <3> HIDE DEF found
    <3> QED
      BY <1>3, <2>1, <3>1, <3>2, <3>3
  <2> HIDE DEF found
  <2>3. CASE ~last
    <3> DEFINE d == [c EXCEPT !.left = Tail(@), !.predictions = found]
    <3>1. calls' = [calls EXCEPT ![w] = d] /\ c.pc = "predictions"
      BY <1>5, <2>3 DEF ReadPredictions, Shape, found
    <3>2. d.pc = c.pc /\ d.predictions = found /\ d.evaluated = c.evaluated /\ d.left = Tail(c.left)
      BY <1>1 DEF ReadCall
    <3>3. SoFar(Tail(c.left)) = SoFar(c.left) + Size(a)
      BY <1>1, <2>3, SuffixSize
    <3> HIDE DEF d
    <3>4. Adds(d)
      BY <2>1, <2>2, <3>1, <3>2, <3>3 DEF Adds
    <3> QED
      BY <3>1, <3>4
  <2>4. CASE last /\ c.kind = "calibration"
    <3> DEFINE d == [pc |-> "save", at |-> time', of |-> Calibration(found)]
    <3>1. calls' = [calls EXCEPT ![w] = d]
      BY <1>5, <2>4 DEF ReadPredictions, found
    <3>2. d.pc = "save"
      OBVIOUS
    <3> HIDE DEF d
    <3>3. Adds(d)
      BY <3>2 DEF Adds
    <3> QED
      BY <3>1, <3>3
  <2>5. CASE last /\ c.kind # "calibration" /\ c.kind = "summary" /\ DisagreementRaises(c.seen)
    <3>1. calls' = [calls EXCEPT ![w] = [pc |-> "idle", answer |-> Nothing("unnamed")]]
      BY <1>5, <2>5 DEF ReadPredictions, Returns
    <3> QED
      BY <3>1, NothingAdds
  <2>6. CASE last /\ c.kind # "calibration" /\ ~(c.kind = "summary" /\ DisagreementRaises(c.seen))
    <3> DEFINE d == [c EXCEPT !.pc = "records", !.left = AgentOrder, !.predictions = found]
    <3>1. calls' = [calls EXCEPT ![w].pc = "records", ![w].left = AgentOrder, ![w].predictions = found]
      BY <1>5, <2>6 DEF ReadPredictions, found
    <3>2. calls' = [calls EXCEPT ![w] = d]
      BY <3>1 DEF Shape
    <3>3. d.pc = "records" /\ d.predictions = found /\ d.evaluated = c.evaluated /\ d.left = AgentOrder
      BY <1>1 DEF ReadCall
    <3>4. Yet(AgentOrder) = SoFar(c.left) + Size(a) /\ SoFar(c.left) \in Nat /\ Size(a) \in Nat
      BY <1>1, <2>6, SuffixSize
    <3> HIDE DEF d
    <3>5. Adds(d)
      BY <2>1, <2>2, <3>3, <3>4 DEF Adds
    <3> QED
      BY <3>2, <3>5
  <2> QED
    BY <2>3, <2>4, <2>5, <2>6
<1>6. CASE ReadRecords(w)
  <2> DEFINE counted == c.evaluated + Cardinality(History(a))
             answer == Answer(c.kind, Cardinality(c.predictions), counted, Performance(c.seen))
  <2>1. Cardinality(c.predictions) <= c.evaluated + Yet(c.left)
    BY <1>2, <1>6 DEF Adds, ReadRecords
  <2>2. counted = c.evaluated + Size(a) /\ Yet(c.left) \in Nat /\ Size(a) \in Nat
    BY <1>1, SuffixSize DEF Size
  <2>3. CASE Len(c.left) = 1
    <3>1. calls' = [calls EXCEPT ![w] = [pc |-> "idle", answer |-> answer]]
      BY <1>6, <2>3 DEF ReadRecords, Returns
    <3>2. answer.samples = Cardinality(c.predictions) /\ answer.evaluated = counted
      BY DEF Answer
    <3>3. Yet(c.left) = Size(a)
      BY <1>1, <2>3, SuffixSize
    <3> HIDE DEF answer, counted
    <3>4. Adds([pc |-> "idle", answer |-> answer])
      BY <2>1, <2>2, <3>2, <3>3 DEF Adds
    <3> QED
      BY <3>1, <3>4
  <2>4. CASE Len(c.left) # 1
    <3> DEFINE d == [c EXCEPT !.left = Tail(@), !.evaluated = counted]
    <3>1. calls' = [calls EXCEPT ![w] = d] /\ c.pc = "records"
      BY <1>6, <2>4 DEF ReadRecords, Shape
    <3> HIDE DEF counted
    <3>2. d.pc = c.pc /\ d.predictions = c.predictions /\ d.evaluated = counted /\ d.left = Tail(c.left)
      BY <1>1 DEF ReadCall
    <3>3. Yet(c.left) = Size(a) + Yet(Tail(c.left)) /\ Yet(Tail(c.left)) \in Nat
      BY <1>1, <2>4, SuffixSize, SuffixType
    <3> HIDE DEF d
    <3>4. Adds(d)
      BY <1>1, <1>3, <2>1, <2>2, <3>1, <3>2, <3>3 DEF Adds
    <3> QED
      BY <3>1, <3>4
  <2> QED
    BY <2>3, <2>4
<1> QED
    BY <1>4, <1>5, <1>6

LEMMA CallAdds ==
    ASSUME Shape, Summing, NEW w \in Workers,
           \/ Evaluate(w) \/ UpsertTradeRecord(w) \/ UpsertEvaluation(w)
           \/ UpsertAgentPerformance(w) \/ Quiet(w)
    PROVE  \E d : calls' = [calls EXCEPT ![w] = d] /\ Adds(d)
<1>1. ASSUME NEW kind, Returns(w, Nothing(kind))
      PROVE  \E d : calls' = [calls EXCEPT ![w] = d] /\ Adds(d)
    BY <1>1, NothingAdds DEF Returns
<1>2. ASSUME NEW d, calls' = [calls EXCEPT ![w] = d], d.pc \in {"evaluate", "save"}
      PROVE  \E x : calls' = [calls EXCEPT ![w] = x] /\ Adds(x)
  <2>1. Adds(d)
    BY <1>2 DEF Adds
  <2> QED
    BY <1>2, <2>1
<1>3. CASE Evaluate(w)
  <2>1. calls'[w].pc = "evaluate" /\ \A v \in Workers \ {w} : calls'[v] = calls[v]
    BY <1>3, EvaluateShape DEF EvalCall, EvalFields
  <2>2. calls' \in [Workers -> Calls] /\ calls \in [Workers -> Calls]
    BY <1>3, EvaluateShape DEF Shape, Calls
  <2>3. PICK d : d = calls'[w]
    OBVIOUS
  <2>4. calls' = [calls EXCEPT ![w] = d]
    BY <2>1, <2>2, <2>3
  <2> QED
    BY <1>2, <2>1, <2>3, <2>4
<1>4. ASSUME NEW T, Upserts(w, T)
      PROVE  \E d : calls' = [calls EXCEPT ![w] = d] /\ Adds(d)
  <2>1. CASE Len(calls[w].left) = 1
    BY <1>1, <1>4, <2>1 DEF Upserts
  <2>2. CASE Len(calls[w].left) # 1
    <3> DEFINE d == [calls[w] EXCEPT !.left = Tail(@)]
    <3>1. calls' = [calls EXCEPT ![w] = d] /\ calls[w].pc = "evaluate"
      BY <1>4, <2>2 DEF Upserts, Shape
    <3>2. calls[w] \in EvalFields
      BY <1>4, UpsertsShape DEF EvalCall
    <3>3. d.pc = "evaluate"
      BY <3>1, <3>2 DEF EvalFields
    <3> HIDE DEF d
    <3> QED
      BY <1>2, <3>1, <3>3
  <2> QED
    BY <2>1, <2>2
<1>5. ASSUME NEW kind, NEW S, NEW q
      PROVE  Adds(Reading(kind, S, q)) /\ Adds([Reading(kind, S, q) EXCEPT !.pc = "latest"])
  <2>1. Cardinality({}) = 0 /\ SoFar(AgentOrder) = 0
    BY EmptyPredictions, SuffixSize DEF Suffixes
  <2> QED
    BY <2>1 DEF Adds, Reading
<1>6. CASE Recompute(w)
    BY <1>5, <1>6 DEF Recompute
<1>7. CASE Summarize(w)
    BY <1>1, <1>5, <1>7 DEF Summarize
<1>8. CASE FindContext(w)
  <2>1. PICK q \in Queries :
          \/ Returns(w, Nothing("raised"))
          \/ Returns(w, Nothing("empty"))
          \/ calls' = [calls EXCEPT ![w] =
                [Reading("context", MostSimilar(q, AllTrades, q.k), q) EXCEPT !.pc = "latest"]]
    BY <1>8 DEF FindContext
  <2> QED
    BY <1>1, <1>5, <2>1
<1>9. CASE SaveCalibration(w)
    BY <1>1, <1>9 DEF SaveCalibration
<1> QED
    BY <1>3, <1>4, <1>6, <1>7, <1>8, <1>9, ReadAdds
       DEF Quiet, UpsertTradeRecord, UpsertEvaluation, UpsertAgentPerformance

LEMMA StepSumming == ASSUME IInv, Summing, [Next]_vars PROVE Summing'
<1>1. ASSUME NEW c \in Calls, Adds(c) PROVE Adds(c)'
  <2>1. /\ SoFar(c.left) \in Nat /\ SoFar(c.left)' \in Nat /\ SoFar(c.left) <= SoFar(c.left)'
        /\ Yet(c.left) \in Nat /\ Yet(c.left)' \in Nat /\ Yet(c.left) <= Yet(c.left)'
    BY Grows
  <2>2. CASE c \in ReadCall
    <3>1. c.left \in Suffixes /\ c.predictions \in PredictionSets /\ c.evaluated \in Nat
          /\ c.pc \in {"predictions", "latest", "records"}
      BY <2>2 DEF ReadCall
    <3>2. Cardinality(c.predictions) \in Nat
      BY <3>1, EmptyPredictions, PredictionUnion
    <3> QED
      BY <1>1, <2>1, <3>1, <3>2 DEF Adds
  <2>3. CASE c \notin ReadCall
    <3>1. c.pc \notin {"predictions", "latest", "records"}
      BY <2>3 DEF Calls, IdleCall, EvalCall, EvalFields, SaveCall
    <3> QED
      BY <1>1, <3>1 DEF Adds
  <2> QED
    BY <2>2, <2>3
<1>2. Shape /\ Shape' /\ calls \in [Workers -> Calls] /\ calls' \in [Workers -> Calls]
    BY Step DEF IInv, Shape, Calls
<1>3. ASSUME NEW v \in Workers, NEW c \in Calls, c = calls'[v] PROVE Adds(c)
  <2>1. CASE calls'[v] = calls[v]
    BY <1>3, <2>1 DEF Summing
  <2>2. CASE Crash
    BY <1>3, <2>2, NothingAdds DEF Crash
  <2>3. ASSUME NEW w \in Workers, Evaluate(w) \/ UpsertTradeRecord(w) \/ UpsertEvaluation(w)
                                    \/ UpsertAgentPerformance(w) \/ Quiet(w)
        PROVE  Adds(c)
    <3>1. PICK d : calls' = [calls EXCEPT ![w] = d] /\ Adds(d)
      BY <1>2, <2>3, CallAdds
    <3> QED
      BY <1>2, <1>3, <2>1, <3>1
  <2> QED
    BY <2>1, <2>2, <2>3, NextCases DEF vars
<1>4. ASSUME NEW v \in Workers, NEW c \in Calls, c = calls'[v] PROVE Adds(c)'
    BY <1>1, <1>3, <1>4
<1> QED
    BY <1>4 DEF Summing

(* A summary rests on at most as many opinions as it counts records of     *)
(* agents, whatever is evaluated between the two readings.                 *)
THEOREM OpinionsHaveRecords == Spec => []SummariesAddUp
<1>1. Init => Summing
  <2>1. ASSUME Init, NEW w \in Workers PROVE Adds(calls[w])
    BY <2>1, NothingAdds DEF Init
  <2> QED
    BY <2>1 DEF Summing
<1>2. ASSUME IInv, Summing PROVE SummariesAddUp
  <2>1. ASSUME NEW w \in Workers PROVE Adds(calls[w])
    BY <1>2, <2>1 DEF Summing, IInv, Shape, Calls
  <2> QED
    BY <2>1 DEF SummariesAddUp, Adds
<1> QED
    BY <1>1, <1>2, StepSumming, Invariance, PTL DEF Spec

(* A defect, shown in full: each trade counted was won or lost, and the    *)
(* break-evens that analytics.py:535 counts and models.py:426 shows are    *)
(* none, whatever was evaluated, a profit of zero being stored as NULL     *)
(* (CountedTradesWonOrLost).                                               *)
THEOREM CountsWonAndLost == Spec => []CountedTradesWonOrLost
<1>1. ASSUME NEW S \in Sets
      PROVE  LET all == Performance(S).all IN all.count = all.wins + all.losses
  <2> DEFINE done == Completed(S)
             wins == {t \in done : t.pnl > 0}
             losses == {t \in done : t.pnl < 0}
  <2>1. Performance(S).all = [count |-> Cardinality(done), wins |-> Cardinality(wins),
                              losses |-> Cardinality(losses)]
    BY DEF Performance
  <2>2. IsFiniteSet(done) /\ done \subseteq TradeRow /\ \A t \in done : t.pnl # None
    BY FS_Subset DEF Sets, Completed, IsComplete
  <2>3. \A t \in done : t.pnl \in Int /\ t.pnl # 0
    BY <2>2 DEF TradeRow, Numbers
  <2>4. wins \cup losses = done /\ wins \cap losses = {}
    BY <2>3
  <2>5. IsFiniteSet(wins) /\ IsFiniteSet(losses)
    BY <2>2, FS_Subset
  <2> HIDE DEF done, wins, losses
  <2>6. Cardinality(done) = Cardinality(wins) + Cardinality(losses) - Cardinality({})
    BY <2>4, <2>5, FS_Union
  <2>7. Cardinality({}) = 0 /\ Cardinality(wins) \in Nat /\ Cardinality(losses) \in Nat
    BY <2>5, FS_EmptySet, FS_CardinalityType
  <2> QED
    BY <2>1, <2>6, <2>7
<1>2. ASSUME Shape, NEW w \in Workers, calls[w].pc = "idle"
      PROVE  \E S \in Sets : calls[w].answer.performance = Performance(S)
  <2>1. calls[w] \in IdleCall
    BY <1>2 DEF Shape, EvalCall, EvalFields, ReadCall, SaveCall
  <2> QED
    BY <2>1 DEF IdleCall, Answers
<1>3. IInv => CountedTradesWonOrLost
    BY <1>1, <1>2 DEF IInv, CountedTradesWonOrLost
<1> QED
    BY <1>3, Invariance, PTL

---------------------------------------------------------------------------
(* The calibration, of any set of predictions.                             *)

(* A bucket's gap is at most one for each of its predictions. *)
LEMMA GapBounded ==
    ASSUME NEW P \in PredictionSets
    PROVE  Magnitude(Gap(P)) \in Int /\ 0 <= Magnitude(Gap(P)) /\ Magnitude(Gap(P)) <= 1000 * Cardinality(P)
<1> DEFINE g == [p \in P |-> p.confidence - (IF p.right THEN 1000 ELSE 0)]
           n == Cardinality(P)
           s == SumFunctionOnSet(g, P)
<1>1. IsFiniteSet(P) /\ n \in Nat
    BY FS_CardinalityType DEF PredictionSets
<1>2. ASSUME NEW p \in P PROVE g[p] \in Int /\ -1000 <= g[p] /\ g[p] <= 1000
  <2> DEFINE c == p.confidence
  <2>1. c \in Int /\ 0 <= c /\ c <= 1000
    BY DEF PredictionSets, Prediction, Confidences
  <2> HIDE DEF c
  <2>2. c - (IF p.right THEN 1000 ELSE 0) \in Int
        /\ -1000 <= c - (IF p.right THEN 1000 ELSE 0) /\ c - (IF p.right THEN 1000 ELSE 0) <= 1000
    BY <2>1
  <2> QED
    BY <2>2 DEF c
<1>3. Gap(P) = s
    BY DEF Gap, SumFunction, SumFunctionOnSet, FoldFunction
<1> HIDE DEF g
<1>4. s \in Int
    BY <1>1, <1>2, SumType
<1>5. s <= 1000 * n
    BY <1>1, <1>2, SumAtMost
<1>6. -1000 * n <= s
  <2>1. -1000 \in Int
    OBVIOUS
  <2> QED
    BY <1>1, <1>2, <2>1, SumAtLeast
<1> HIDE DEF s, n
<1> DEFINE m == 1000 * n
<1>7. m \in Int /\ s <= m /\ -m <= s
    BY <1>1, <1>4, <1>5, <1>6
<1> HIDE DEF m
<1>8. Magnitude(s) \in Int /\ 0 <= Magnitude(s) /\ Magnitude(s) <= m
    BY <1>4, <1>7 DEF Magnitude
<1> QED
    BY <1>3, <1>8 DEF m, n

(* A sum over the buckets has five terms. *)
LEMMA FiveBuckets ==
    ASSUME NEW f, \A low \in BucketLows : f[low] \in Int
    PROVE  SumFunctionOnSet(f, BucketLows) = f[500] + (f[600] + (f[700] + (f[800] + f[900])))
<1> DEFINE T(S) == SumFunctionOnSet(f, S)
           S1 == {} \cup {900}
           S2 == S1 \cup {800}
           S3 == S2 \cup {700}
           S4 == S3 \cup {600}
           S5 == S4 \cup {500}
           Joins(x, S) == IsFiniteSet(S \cup {x}) /\ T(S \cup {x}) = f[x] + T(S)
<1>1. S5 = BucketLows
    BY DEF BucketLows
<1>2. /\ S1 \subseteq BucketLows /\ S2 \subseteq BucketLows /\ S3 \subseteq BucketLows /\ S4 \subseteq BucketLows
      /\ 500 \in BucketLows /\ 600 \in BucketLows /\ 700 \in BucketLows /\ 800 \in BucketLows /\ 900 \in BucketLows
    BY DEF BucketLows
<1>3. 900 \notin {} /\ 800 \notin S1 /\ 700 \notin S2 /\ 600 \notin S3 /\ 500 \notin S4
    OBVIOUS
<1>4. ASSUME NEW S \in SUBSET BucketLows, IsFiniteSet(S), NEW x \in BucketLows, x \notin S PROVE Joins(x, S)
  <2>1. \A y \in S \cup {x} : f[y] \in Int
    OBVIOUS
  <2>2. IsFiniteSet(S \cup {x})
    BY <1>4, FS_AddElement
  <2> QED
    BY <1>4, <2>1, <2>2, SumAdded
<1>5. T({}) = 0 /\ IsFiniteSet({})
    BY SumEmpty, FS_EmptySet
<1> HIDE DEF T, S1, S2, S3, S4, S5
<1>6. IsFiniteSet(S1) /\ T(S1) = f[900] + T({})
    BY <1>2, <1>3, <1>4, <1>5 DEF S1
<1>7. IsFiniteSet(S2) /\ T(S2) = f[800] + T(S1)
    BY <1>2, <1>3, <1>4, <1>6 DEF S2
<1>8. IsFiniteSet(S3) /\ T(S3) = f[700] + T(S2)
    BY <1>2, <1>3, <1>4, <1>7 DEF S3
<1>9. IsFiniteSet(S4) /\ T(S4) = f[600] + T(S3)
    BY <1>2, <1>3, <1>4, <1>8 DEF S4
<1>10. T(S5) = f[500] + T(S4)
    BY <1>2, <1>3, <1>4, <1>9 DEF S5
<1>11. T(S1) = f[900]
    BY <1>2, <1>5, <1>6
<1> QED
    BY <1>1, <1>7, <1>8, <1>9, <1>10, <1>11 DEF T

LEMMA ApartAdds ==
    ASSUME NEW A, NEW B, IsFiniteSet(A), IsFiniteSet(B), A \cap B = {}
    PROVE  /\ IsFiniteSet(A \cup B) /\ Cardinality(A) \in Nat /\ Cardinality(B) \in Nat
           /\ Cardinality(A \cup B) = Cardinality(A) + Cardinality(B)
<1>1. Cardinality(A \cap B) = 0
    BY FS_EmptySet
<1>2. Cardinality(A) \in Nat /\ Cardinality(B) \in Nat
    BY FS_CardinalityType
<1>3. IsFiniteSet(A \cup B) /\ Cardinality(A \cup B) = Cardinality(A) + Cardinality(B) - Cardinality(A \cap B)
    BY FS_Union
<1> QED
    BY <1>1, <1>2, <1>3

(* The buckets share nothing, and are all of the predictions of one half   *)
(* and more.                                                               *)
LEMMA BucketsPartition ==
    ASSUME NEW P \in PredictionSets
    PROVE  LET n(low) == Cardinality(Bucket(P, low))
               half == {p \in P : p.confidence >= 500}
           IN /\ \A low \in BucketLows : Bucket(P, low) \in PredictionSets /\ n(low) \in Nat
              /\ n(500) + (n(600) + (n(700) + (n(800) + n(900)))) = Cardinality(half)
              /\ Cardinality(half) \in Nat /\ Cardinality(half) <= Cardinality(P) /\ Cardinality(P) \in Nat
<1> DEFINE half == {p \in P : p.confidence >= 500}
           B5 == Bucket(P, 500)
           B6 == Bucket(P, 600)
           B7 == Bucket(P, 700)
           B8 == Bucket(P, 800)
           B9 == Bucket(P, 900)
<1>1. IsFiniteSet(P) /\ \A p \in P : p.confidence \in Int /\ p.confidence <= 1000
    BY DEF PredictionSets, Prediction, Confidences
<1>2. ASSUME NEW low \in BucketLows
      PROVE  Bucket(P, low) \in PredictionSets /\ IsFiniteSet(Bucket(P, low)) /\ Cardinality(Bucket(P, low)) \in Nat
  <2>1. Bucket(P, low) \in SUBSET P
    BY DEF Bucket
  <2>2. IsFiniteSet(Bucket(P, low))
    BY <1>1, <2>1, FS_Subset
  <2> QED
    BY <2>1, <2>2, FS_CardinalityType DEF PredictionSets
<1>3. half \in SUBSET P
    OBVIOUS
<1>4. Cardinality(half) \in Nat /\ Cardinality(half) <= Cardinality(P) /\ Cardinality(P) \in Nat
  <2> HIDE DEF half
  <2> QED
    BY <1>1, <1>3, FS_Subset, FS_CardinalityType
<1>5. /\ B5 = {p \in P : 500 <= p.confidence /\ p.confidence < 600}
      /\ B6 = {p \in P : 600 <= p.confidence /\ p.confidence < 700}
      /\ B7 = {p \in P : 700 <= p.confidence /\ p.confidence < 800}
      /\ B8 = {p \in P : 800 <= p.confidence /\ p.confidence < 900}
      /\ B9 = {p \in P : 900 <= p.confidence /\ p.confidence <= 1000}
    BY DEF Bucket
<1>6. half = B5 \cup (B6 \cup (B7 \cup (B8 \cup B9)))
    BY <1>1, <1>5
<1>7. /\ B8 \cap B9 = {} /\ B7 \cap (B8 \cup B9) = {} /\ B6 \cap (B7 \cup (B8 \cup B9)) = {}
      /\ B5 \cap (B6 \cup (B7 \cup (B8 \cup B9))) = {}
    BY <1>1, <1>5
<1>8. IsFiniteSet(B5) /\ IsFiniteSet(B6) /\ IsFiniteSet(B7) /\ IsFiniteSet(B8) /\ IsFiniteSet(B9)
    BY <1>2 DEF BucketLows
<1> HIDE DEF half, B5, B6, B7, B8, B9
<1>9. IsFiniteSet(B8 \cup B9) /\ Cardinality(B8 \cup B9) = Cardinality(B8) + Cardinality(B9)
    BY <1>7, <1>8, ApartAdds
<1>10. IsFiniteSet(B7 \cup (B8 \cup B9))
       /\ Cardinality(B7 \cup (B8 \cup B9)) = Cardinality(B7) + Cardinality(B8 \cup B9)
    BY <1>7, <1>8, <1>9, ApartAdds
<1>11. IsFiniteSet(B6 \cup (B7 \cup (B8 \cup B9)))
       /\ Cardinality(B6 \cup (B7 \cup (B8 \cup B9))) = Cardinality(B6) + Cardinality(B7 \cup (B8 \cup B9))
    BY <1>7, <1>8, <1>10, ApartAdds
<1>12. Cardinality(half) = Cardinality(B5) + Cardinality(B6 \cup (B7 \cup (B8 \cup B9)))
    BY <1>6, <1>7, <1>8, <1>11, ApartAdds
<1>13. Cardinality(half)
         = Cardinality(B5) + (Cardinality(B6) + (Cardinality(B7) + (Cardinality(B8) + Cardinality(B9))))
    BY <1>9, <1>10, <1>11, <1>12
<1> QED
    BY <1>2, <1>4, <1>13 DEF half, B5, B6, B7, B8, B9

(* A mean of at most 1000 is at most 1000, rounded up. *)
LEMMA MeanBounded ==
    ASSUME NEW G \in Int, NEW n \in Int, 0 <= G, 0 < n, G <= 1000 * n
    PROVE  /\ -((-G) \div n) \in Int
           /\ 0 <= -((-G) \div n) /\ -((-G) \div n) <= 1000
<1> DEFINE d == (-G) \div n
<1>1. d \in Int /\ n * d <= -G /\ -G < n * d + n
    OBVIOUS
<1> HIDE DEF d
<1>2. d <= 0
  <2> SUFFICES ASSUME d >= 1 PROVE FALSE
    BY <1>1
  <2>1. n * d >= n
    BY <1>1
  <2> QED
    BY <1>1, <2>1
<1>3. d >= -1000
  <2> SUFFICES ASSUME d + 1 <= -1000 PROVE FALSE
    BY <1>1
  <2>1. n * (d + 1) = n * d + n
    BY <1>1
  <2>2. n * (d + 1) <= n * (-1000)
    BY <1>1
  <2>3. n * (-1000) = -(1000 * n)
    OBVIOUS
  <2> DEFINE p == n * d
             q == 1000 * n
  <2>4. p + n <= -q /\ -G < p + n /\ G <= q /\ p \in Int /\ q \in Int
    BY <1>1, <2>1, <2>2, <2>3
  <2> HIDE DEF p, q
  <2> QED
    BY <2>4
<1>4. -d \in Int /\ 0 <= -d /\ -d <= 1000
    BY <1>1, <1>2, <1>3
<1> QED
    BY <1>4 DEF d

(* Neither the sum of the gaps nor the sizes of the buckets exceed what    *)
(* the predictions allow.                                                  *)
LEMMA CalibrationBounded ==
    ASSUME NEW P \in PredictionSets, Cardinality(P) >= MinSamples
    PROVE  /\ Calibration(P).bucketed = Cardinality({p \in P : p.confidence >= 500})
           /\ Calibration(P).error = None \/ Calibration(P).error \in 1..1000
<1> DEFINE N == Cardinality(P)
           n(low) == Cardinality(Bucket(P, low))
           m(low) == Magnitude(Gap(Bucket(P, low)))
           sizes == [low \in BucketLows |-> n(low)]
           gaps == [low \in BucketLows |-> m(low)]
           half == {p \in P : p.confidence >= 500}
           H == Cardinality(half)
           G == SumFunctionOnSet(gaps, BucketLows)
           e == -((-G) \div N)
<1>1. N \in Int /\ N > 0 /\ N >= MinSamples
  <2>1. MinSamples \in Nat \ {0} /\ N \in Nat
    BY SampleAssumption, FS_CardinalityType DEF PredictionSets
  <2> HIDE DEF N
  <2> QED
    BY <2>1 DEF N
<1>2. /\ H \in Nat /\ H <= N /\ n(500) + (n(600) + (n(700) + (n(800) + n(900)))) = H
      /\ \A low \in BucketLows : n(low) \in Nat /\ Bucket(P, low) \in PredictionSets
    BY BucketsPartition
<1>3. \A low \in BucketLows : m(low) \in Int /\ 0 <= m(low) /\ m(low) <= 1000 * n(low)
    BY <1>2, GapBounded
<1>4. /\ 500 \in BucketLows /\ 600 \in BucketLows /\ 700 \in BucketLows /\ 800 \in BucketLows /\ 900 \in BucketLows
    BY DEF BucketLows
<1>5. Calibration(P) = [samples |-> N, bucketed |-> SumFunctionOnSet(sizes, BucketLows),
                        error |-> Stored(e), insight |-> Insight(P)]
  <2>1. ~(N < MinSamples)
    BY <1>1, SampleAssumption
  <2>2. SumFunction(sizes) = SumFunctionOnSet(sizes, BucketLows) /\ SumFunction(gaps) = G
    BY DEF SumFunction, SumFunctionOnSet, FoldFunction
  <2>3. ExpectedError(P) = e
    BY <2>2 DEF ExpectedError
  <2> QED
    BY <2>1, <2>2, <2>3 DEF Calibration
<1>6. \A low \in BucketLows : sizes[low] = n(low) /\ gaps[low] = m(low)
    OBVIOUS
<1> HIDE DEF n, m, sizes, gaps, half, N, e
<1>7. SumFunctionOnSet(sizes, BucketLows) = H
  <2>1. SumFunctionOnSet(sizes, BucketLows)
          = sizes[500] + (sizes[600] + (sizes[700] + (sizes[800] + sizes[900])))
    BY <1>2, <1>6, FiveBuckets
  <2> QED
    BY <1>2, <1>4, <1>6, <2>1
<1>8. G \in Int /\ 0 <= G /\ G <= 1000 * N
  <2>1. G = gaps[500] + (gaps[600] + (gaps[700] + (gaps[800] + gaps[900])))
    BY <1>3, <1>6, FiveBuckets
  <2>2. G = m(500) + (m(600) + (m(700) + (m(800) + m(900))))
    BY <1>4, <1>6, <2>1
  <2> HIDE DEF G, H
  <2>3. /\ m(500) \in Int /\ 0 <= m(500) /\ m(500) <= 1000 * n(500) /\ n(500) \in Nat
        /\ m(600) \in Int /\ 0 <= m(600) /\ m(600) <= 1000 * n(600) /\ n(600) \in Nat
        /\ m(700) \in Int /\ 0 <= m(700) /\ m(700) <= 1000 * n(700) /\ n(700) \in Nat
        /\ m(800) \in Int /\ 0 <= m(800) /\ m(800) <= 1000 * n(800) /\ n(800) \in Nat
        /\ m(900) \in Int /\ 0 <= m(900) /\ m(900) <= 1000 * n(900) /\ n(900) \in Nat
    BY <1>2, <1>3, <1>4
  <2> QED
    BY <1>1, <1>2, <2>2, <2>3
<1> HIDE DEF G, H
<1>9. e \in Int /\ 0 <= e /\ e <= 1000
    BY <1>1, <1>8, MeanBounded DEF e
<1>10. Stored(e) = None \/ Stored(e) \in 1..1000
  <2>1. CASE e = 0
    BY <2>1 DEF Stored, Given
  <2>2. CASE e # 0
    <3>1. e \in 1..1000 /\ e # None
      BY <1>9, <2>2, NoneAssumption
    <3>2. Stored(e) = e
      BY <2>2, <3>1 DEF Stored, Given
    <3> QED
      BY <3>1, <3>2
  <2> QED
    BY <2>1, <2>2
<1>11. Calibration(P).bucketed = H /\ Calibration(P).error = Stored(e)
    BY <1>5, <1>7
<1> QED
    BY <1>10, <1>11 DEF H, half

(* Each opinion ever stored of a confidence of one half or more is in one  *)
(* bucket of the calibration, and its expected error is at most one:       *)
(* CalibrationIsSound.                                                     *)
THEOREM CalibrationSound == Spec => []CalibrationIsSound
<1>1. ASSUME Shape PROVE UNION {PredictionsOf(a) : a \in Agents} \in PredictionSets
  <2> DEFINE S == {PredictionsOf(a) : a \in Agents}
             Q == PredictionsOf("QUANT")
             B == PredictionsOf("BULL")
             R == PredictionsOf("BEAR")
             T == PredictionsOf("REGIME")
  <2>1. Q \in PredictionSets /\ B \in PredictionSets /\ R \in PredictionSets /\ T \in PredictionSets
    BY <1>1, PredictionType DEF Agents
  <2>2. UNION S = (Q \cup B) \cup (R \cup T)
    BY DEF Agents
  <2> HIDE DEF S, Q, B, R, T
  <2>3. Q \cup B \in PredictionSets /\ R \cup T \in PredictionSets
    BY <2>1, PredictionUnion
  <2>4. UNION S \in PredictionSets
    BY <2>2, <2>3, PredictionUnion
  <2> QED
    BY <2>4 DEF S
<1>2. IInv => CalibrationIsSound
  <2> SUFFICES ASSUME IInv PROVE CalibrationIsSound
    OBVIOUS
  <2> DEFINE P == UNION {PredictionsOf(a) : a \in Agents}
  <2>1. P \in PredictionSets
    BY <1>1 DEF IInv
  <2> HIDE DEF P
  <2>2. Cardinality(P) >= MinSamples =>
          /\ Calibration(P).bucketed = Cardinality({p \in P : p.confidence >= 500})
          /\ Calibration(P).error = None \/ Calibration(P).error \in 1..1000
    BY <2>1, CalibrationBounded
  <2> QED
    BY <2>2 DEF CalibrationIsSound, P
<1> QED
    BY <1>2, Invariance, PTL

---------------------------------------------------------------------------
(* The summaries that are not given.  The one way to lose a summary is a   *)
(* trade whose committee was unanimous: as long as every committee         *)
(* disagrees a little, each trade has a bucket of DisagreementBucket.      *)

CommitteesDisagree == \A e \in Evidence : e.committee # None => e.committee.disagreement # "NONE"

Named(t) == t.disagreement \in BucketNames \cup {None}

Gives(c) ==
    /\ c.pc = "idle" => c.answer.kind # "unnamed"
    /\ c.pc = "evaluate" => Named(c.trade)
    /\ c.pc \in {"predictions", "latest", "records"} => \A t \in c.seen : Named(t)

Bucketed ==
    /\ \A p \in Positions : trades[p] # None => Named(trades[p])
    /\ \A w \in Workers : Gives(calls[w])

LEMMA RecordNamed ==
    ASSUME CommitteesDisagree, NEW e \in Evidence, NEW at, NEW created, NEW version
    PROVE  Named(TradeRecord(e, at, created, version))
<1>1. e.committee # None => e.committee.disagreement \in BucketNames
    BY EvidenceAssumption DEF CommitteesDisagree, SeverityOrder, BucketNames
<1>2. TradeRecord(e, at, created, version).disagreement =
        IF e.committee = None THEN None ELSE e.committee.disagreement
    BY DEF TradeRecord
<1> QED
    BY <1>1, <1>2 DEF Named

LEMMA AllNamed == ASSUME Bucketed PROVE \A t \in AllTrades : Named(t)
BY DEF Bucketed, AllTrades

LEMMA OtherCalls ==
    ASSUME Shape, Bucketed, NEW w \in Workers, NEW d, Gives(d),
           calls' = [calls EXCEPT ![w] = d]
    PROVE  \A v \in Workers : Gives(calls'[v])
BY DEF Shape, Bucketed

LEMMA NothingGiven ==
    ASSUME NEW kind, kind # "unnamed"
    PROVE  Gives([pc |-> "idle", answer |-> Nothing(kind)]) /\ Gives(Idle)
BY DEF Gives, Nothing, Answer, Idle

LEMMA ReadingGiven ==
    ASSUME NEW kind, NEW S, \A t \in S : Named(t), NEW q
    PROVE  Gives(Reading(kind, S, q)) /\ Gives([Reading(kind, S, q) EXCEPT !.pc = "latest"])
BY DEF Gives, Reading

LEMMA UpsertGiven ==
    ASSUME Shape, Bucketed, NEW w \in Workers, NEW T, Upserts(w, T)
    PROVE  \A v \in Workers : Gives(calls'[v])
<1>1. CASE Len(calls[w].left) = 1
    BY <1>1, NothingGiven, OtherCalls DEF Upserts, Returns
<1>2. CASE Len(calls[w].left) # 1
  <2> DEFINE d == [calls[w] EXCEPT !.left = Tail(@)]
  <2>1. calls' = [calls EXCEPT ![w] = d] /\ calls[w].pc = "evaluate"
    BY <1>2 DEF Upserts, Shape
  <2>2. calls[w] \in EvalFields
    BY UpsertsShape DEF EvalCall
  <2>3. d.pc = "evaluate" /\ d.trade = calls[w].trade
    BY <2>1, <2>2 DEF EvalFields
  <2>4. Named(calls[w].trade)
    BY <2>1 DEF Bucketed, Gives
  <2> HIDE DEF d
  <2>5. Gives(d)
    BY <2>3, <2>4 DEF Gives
  <2> QED
    BY <2>1, <2>5, OtherCalls
<1> QED
    BY <1>1, <1>2

LEMMA ReadGiven ==
    ASSUME Shape, Bucketed, NEW w \in Workers, ReadLatest(w) \/ ReadPredictions(w) \/ ReadRecords(w)
    PROVE  \A v \in Workers : Gives(calls'[v])
<1> DEFINE c == calls[w]
<1>1. c \in ReadCall /\ c.kind # "unnamed" /\ \A t \in c.seen : Named(t)
  <2>1. c \in ReadCall
    BY ReadParts DEF ReadLatest, ReadPredictions, ReadRecords
  <2> QED
    BY <2>1 DEF ReadCall, Bucketed, Gives
<1>2. ASSUME NEW d, calls' = [calls EXCEPT ![w] = d],
             d.pc \in {"predictions", "latest", "records"}, d.seen = c.seen
      PROVE  \A v \in Workers : Gives(calls'[v])
  <2>1. Gives(d)
    BY <1>1, <1>2 DEF Gives
  <2> QED
    BY <1>2, <2>1, OtherCalls
<1>3. CASE ReadLatest(w)
  <2> DEFINE d == [c EXCEPT !.pc = "records"]
  <2>1. calls' = [calls EXCEPT ![w] = d]
    BY <1>3 DEF ReadLatest, Shape
  <2>2. d.pc = "records" /\ d.seen = c.seen
    BY <1>1 DEF ReadCall
  <2> HIDE DEF d
  <2> QED
    BY <1>2, <2>1, <2>2
<1>4. CASE ReadPredictions(w)
  <2> DEFINE found == c.predictions \cup PredictionsOf(Head(c.left))
             last == Len(c.left) = 1
  <2>1. CASE ~last
    <3> DEFINE d == [c EXCEPT !.left = Tail(@), !.predictions = found]
    <3>1. calls' = [calls EXCEPT ![w] = d] /\ c.pc = "predictions"
      BY <1>4, <2>1 DEF ReadPredictions, Shape, found
    <3>2. d.pc = c.pc /\ d.seen = c.seen
      BY <1>1 DEF ReadCall
    <3> HIDE DEF d
    <3> QED
      BY <1>2, <3>1, <3>2
  <2>2. CASE last /\ c.kind = "calibration"
    <3> DEFINE d == [pc |-> "save", at |-> time', of |-> Calibration(found)]
    <3>1. calls' = [calls EXCEPT ![w] = d]
      BY <1>4, <2>2 DEF ReadPredictions, found
    <3>2. Gives(d)
      BY DEF Gives
    <3> HIDE DEF d
    <3> QED
      BY <3>1, <3>2, OtherCalls
  <2>3. ~DisagreementRaises(c.seen)
    BY <1>1 DEF DisagreementRaises, Completed, Named
  <2>4. CASE last /\ c.kind # "calibration"
    <3> DEFINE d == [c EXCEPT !.pc = "records", !.left = AgentOrder, !.predictions = found]
    <3>1. calls' = [calls EXCEPT ![w].pc = "records", ![w].left = AgentOrder, ![w].predictions = found]
      BY <1>4, <2>3, <2>4 DEF ReadPredictions, found
    <3>2. calls' = [calls EXCEPT ![w] = d]
      BY <3>1 DEF Shape
    <3>3. d.pc = "records" /\ d.seen = c.seen
      BY <1>1 DEF ReadCall
    <3> HIDE DEF d
    <3> QED
      BY <1>2, <3>2, <3>3
  <2> QED
    BY <2>1, <2>2, <2>4
<1>5. CASE ReadRecords(w)
  <2> DEFINE counted == c.evaluated + Cardinality(History(Head(c.left)))
             answer == Answer(c.kind, Cardinality(c.predictions), counted, Performance(c.seen))
  <2>1. CASE Len(c.left) = 1
    <3>1. calls' = [calls EXCEPT ![w] = [pc |-> "idle", answer |-> answer]]
      BY <1>5, <2>1 DEF ReadRecords, Returns
    <3>2. answer.kind # "unnamed"
      BY <1>1 DEF Answer
    <3> HIDE DEF answer
    <3>3. Gives([pc |-> "idle", answer |-> answer])
      BY <3>2 DEF Gives
    <3> QED
      BY <3>1, <3>3, OtherCalls
  <2>2. CASE Len(c.left) # 1
    <3> DEFINE d == [c EXCEPT !.left = Tail(@), !.evaluated = counted]
    <3>1. calls' = [calls EXCEPT ![w] = d] /\ c.pc = "records"
      BY <1>5, <2>2 DEF ReadRecords, Shape
    <3> HIDE DEF counted
    <3>2. d.pc = c.pc /\ d.seen = c.seen
      BY <1>1 DEF ReadCall
    <3> HIDE DEF d
    <3> QED
      BY <1>2, <3>1, <3>2
  <2> QED
    BY <2>1, <2>2
<1> QED
    BY <1>3, <1>4, <1>5

LEMMA StepBucketed == ASSUME CommitteesDisagree, Shape, Bucketed, [Next]_vars PROVE Bucketed'
<1>1. ASSUME NEW v, Gives(calls'[v]) PROVE Gives(calls[v])'
    BY <1>1 DEF Gives, Named
<1>2. ASSUME UNCHANGED trades, \A v \in Workers : Gives(calls'[v]) PROVE Bucketed'
    BY <1>1, <1>2 DEF Bucketed, Named
<1>3. ASSUME NEW w \in Workers, Evaluate(w) PROVE Bucketed'
  <2>1. PICK e \in Evidence :
          /\ calls' = [calls EXCEPT ![w] =
               [pc |-> "evaluate", e |-> e, at |-> time', left |-> Targets(e),
                trade |-> IF trades[e.position.id] = None THEN TradeRecord(e, time', time', 1)
                          ELSE TradeRecord(e, time', trades[e.position.id].created,
                                           trades[e.position.id].version + 2)]]
          /\ UNCHANGED trades
    BY <1>3 DEF Evaluate
  <2> DEFINE trade == IF trades[e.position.id] = None THEN TradeRecord(e, time', time', 1)
                      ELSE TradeRecord(e, time', trades[e.position.id].created,
                                       trades[e.position.id].version + 2)
             d == [pc |-> "evaluate", e |-> e, at |-> time', left |-> Targets(e), trade |-> trade]
  <2>2. Named(trade)
    <3> DEFINE created == trades[e.position.id].created
               version == trades[e.position.id].version + 2
    <3>1. Named(TradeRecord(e, time', time', 1)) /\ Named(TradeRecord(e, time', created, version))
      BY RecordNamed
    <3> QED
      BY <3>1
  <2>3. d.pc = "evaluate" /\ d.trade = trade /\ calls' = [calls EXCEPT ![w] = d]
    BY <2>1
  <2> HIDE DEF d, trade
  <2>4. Gives(d)
    BY <2>2, <2>3 DEF Gives
  <2> QED
    BY <1>2, <2>1, <2>3, <2>4, OtherCalls
<1>4. ASSUME NEW w \in Workers, UpsertTradeRecord(w) PROVE Bucketed'
  <2> DEFINE p == calls[w].e.position.id
             new == calls[w].trade
  <2>1. Upserts(w, {"trade"}) /\ trades' = [trades EXCEPT ![p] = Merged(@, new)]
    BY <1>4 DEF UpsertTradeRecord
  <2>2. p \in Positions /\ new \in TradeRow /\ Named(new)
    <3>1. calls[w] \in EvalCall
      BY <2>1, UpsertsShape
    <3> QED
      BY <3>1, EvalParts DEF Bucketed, Gives
  <2>3. \A v \in Workers : Gives(calls'[v])
    BY <2>1, UpsertGiven
  <2> HIDE DEF p, new
  <2>4. Merged(trades[p], new).disagreement = new.disagreement
    BY <2>2 DEF Merged, TradeRow
  <2>5. \A r \in Positions : trades'[r] # None => Named(trades'[r])
    BY <2>1, <2>2, <2>4 DEF Shape, Bucketed, Named
  <2> QED
    BY <1>1, <2>3, <2>5 DEF Bucketed, Named
<1>5. ASSUME NEW w \in Workers, UpsertEvaluation(w) \/ UpsertAgentPerformance(w) PROVE Bucketed'
    BY <1>2, <1>5, UpsertGiven DEF UpsertEvaluation, UpsertAgentPerformance
<1>6. ASSUME NEW w \in Workers, Recompute(w) \/ Summarize(w) \/ FindContext(w) \/ SaveCalibration(w)
      PROVE  Bucketed'
  <2>1. CASE Recompute(w)
    <3>1. Gives(Reading("calibration", {}, None))
      BY ReadingGiven
    <3> QED
      BY <1>2, <2>1, <3>1, OtherCalls DEF Recompute
  <2>2. CASE Summarize(w)
    <3>1. Gives(Reading("summary", AllTrades, None))
      BY AllNamed, ReadingGiven
    <3>2. Gives([pc |-> "idle", answer |-> Nothing("empty")])
      BY NothingGiven
    <3>3. \A v \in Workers : Gives(calls'[v])
      BY <2>2, <3>1, <3>2, OtherCalls DEF Summarize, Returns
    <3> QED
      BY <1>2, <2>2, <3>3 DEF Summarize
  <2>3. CASE FindContext(w)
    <3>1. PICK q \in Queries :
            IF SimilarityRaises(q, AllTrades) THEN Returns(w, Nothing("raised"))
            ELSE IF MostSimilar(q, AllTrades, q.k) = {} THEN Returns(w, Nothing("empty"))
            ELSE calls' = [calls EXCEPT ![w] =
                   [Reading("context", MostSimilar(q, AllTrades, q.k), q) EXCEPT !.pc = "latest"]]
      BY <2>3 DEF FindContext
    <3> DEFINE S == MostSimilar(q, AllTrades, q.k)
    <3>2. \A t \in S : Named(t)
      BY AllNamed DEF MostSimilar, Completed
    <3> HIDE DEF S
    <3>3. Gives([Reading("context", S, q) EXCEPT !.pc = "latest"])
      BY <3>2, ReadingGiven
    <3>4. Gives([pc |-> "idle", answer |-> Nothing("empty")])
          /\ Gives([pc |-> "idle", answer |-> Nothing("raised")])
      BY NothingGiven
    <3>5. \A v \in Workers : Gives(calls'[v])
      BY <3>1, <3>3, <3>4, OtherCalls DEF Returns, S
    <3> QED
      BY <1>2, <2>3, <3>5 DEF FindContext
  <2>4. CASE SaveCalibration(w)
    <3>1. Gives([pc |-> "idle", answer |-> Nothing("none")])
      BY NothingGiven
    <3> QED
      BY <1>2, <2>4, <3>1, OtherCalls DEF SaveCalibration, Returns
  <2> QED
    BY <1>6, <2>1, <2>2, <2>3, <2>4
<1>7. ASSUME NEW w \in Workers, ReadLatest(w) \/ ReadPredictions(w) \/ ReadRecords(w) PROVE Bucketed'
    BY <1>2, <1>7, ReadGiven DEF ReadLatest, ReadPredictions, ReadRecords
<1>8. CASE Crash
  <2>1. \A v \in Workers : Gives(calls'[v])
    BY <1>8, NothingGiven DEF Crash
  <2> QED
    BY <1>2, <1>8, <2>1 DEF Crash
<1>9. CASE UNCHANGED vars
    BY <1>2, <1>9 DEF vars, Bucketed
<1> QED
    BY <1>3, <1>4, <1>5, <1>6, <1>7, <1>8, <1>9 DEF Next

(* Every summary asked for is given unless the committee of some trade was *)
(* unanimous: nothing else takes an answer away, whatever is evaluated     *)
(* while the summary is made, and however often the process dies.          *)
THEOREM SummariesGiven ==
    ASSUME CommitteesDisagree
    PROVE  Spec => []SummariesAreGiven
<1>1. Init => Bucketed
  <2>1. Gives(Idle)
    BY DEF Gives, Idle, Nothing, Answer
  <2> QED
    BY <2>1 DEF Init, Bucketed
<1>2. IInv /\ Bucketed /\ [Next]_vars => Bucketed'
    BY StepBucketed DEF IInv
<1>3. Bucketed => SummariesAreGiven
    BY DEF Bucketed, Gives, SummariesAreGiven
<1> QED
    BY <1>1, <1>2, <1>3, Invariance, PTL DEF Spec
=============================================================================
