-------------------------------- MODULE Sums --------------------------------
(***************************************************************************)
(* What the proofs need of sums over finite sets (SumFunctionOnSet of the  *)
(* community module Functions, a fold).  To the provers a recursive        *)
(* function is a CHOOSE, so that its equation is proved before it is used; *)
(* induction over the subsets of a finite set is the choice of a smallest  *)
(* counterexample (Minimal).                                               *)
(***************************************************************************)
EXTENDS Integers, FiniteSets, Functions, FiniteSetTheorems, WellFoundedInduction, TLAPS

(* Of the members of a family of subsets of a finite set one contains no   *)
(* other.                                                                  *)
LEMMA Minimal ==
  ASSUME NEW S, IsFiniteSet(S), NEW F \in SUBSET (SUBSET S), F # {}
  PROVE  \E X \in F : \A Y \in F : Y \subseteq X => Y = X
<1> DEFINE R == StrictSubsetOrdering(S)
<1>1. IsWellFoundedOn(R, SUBSET S)
  BY FS_StrictSubsetOrderingWellFounded, FS_FiniteSubsetsOfFinite
<1>2. \E X \in F : \A Y \in F : ~(<<Y, X>> \in R)
  <2> HIDE DEF R
  <2> QED BY <1>1, WFMin
<1>3. PICK X \in F : \A Y \in F : ~(<<Y, X>> \in R)
  BY <1>2
<1>4. ASSUME NEW Y \in F, Y \subseteq X PROVE Y = X
  BY <1>3, <1>4 DEF StrictSubsetOrdering
<1> QED BY <1>3, <1>4

(* The element a sum takes first, and the function it recurs in. *)
AnyOf(S) == CHOOSE x \in S : TRUE
Recursion(g, f, S) ==
  g = [T \in SUBSET S |-> IF T = {} THEN 0 ELSE f[AnyOf(T)] + g[T \ {AnyOf(T)}]]

(* It is an element. *)
LEMMA AnyOfIn == ASSUME NEW T, T # {} PROVE AnyOf(T) \in T /\ T \ {AnyOf(T)} # T
BY DEF AnyOf

(* The fold, with all that it is defined by unfolded. *)
LEMMA SumIsRecursive ==
  ASSUME NEW f, NEW S
  PROVE  SumFunctionOnSet(f, S) = (CHOOSE g : Recursion(g, f, S))[S]
BY DEF SumFunctionOnSet, FoldFunctionOnSet, MapThenFoldSet, Recursion, AnyOf

(* The recursion has one solution at most. *)
LEMMA RecursionOnce ==
  ASSUME NEW f, NEW S, IsFiniteSet(S), NEW g, NEW h, Recursion(g, f, S), Recursion(h, f, S)
  PROVE  g = h
<1> DEFINE F == {T \in SUBSET S : g[T] # h[T]}
<1>1. F = {}
  <2> SUFFICES ASSUME F # {} PROVE FALSE
    OBVIOUS
  <2>1. PICK X \in F : \A Y \in F : Y \subseteq X => Y = X
    <3> HIDE DEF F
    <3>1. F \in SUBSET (SUBSET S)
      BY DEF F
    <3> QED BY <3>1, Minimal
  <2>2. X # {}
    BY <2>1 DEF Recursion
  <2> DEFINE Y == X \ {AnyOf(X)}
  <2>3. Y \in SUBSET S /\ Y \subseteq X /\ Y # X
    BY <2>1, <2>2, AnyOfIn
  <2>4. g[Y] = h[Y]
    BY <2>1, <2>3
  <2>5. g[X] = f[AnyOf(X)] + g[Y] /\ h[X] = f[AnyOf(X)] + h[Y]
    BY <2>1, <2>2 DEF Recursion
  <2> QED BY <2>1, <2>4, <2>5
<1>2. g = [T \in SUBSET S |-> g[T]] /\ h = [T \in SUBSET S |-> h[T]]
  BY DEF Recursion
<1> QED BY <1>1, <1>2

(* The equation of the definition. *)
LEMMA SumEquation ==
  ASSUME NEW f, NEW S, IsFiniteSet(S)
  PROVE  SumFunctionOnSet(f, S) =
           IF S = {} THEN 0 ELSE f[AnyOf(S)] + SumFunctionOnSet(f, S \ {AnyOf(S)})
<1> DEFINE Rhs(T) == IF T = {} THEN 0 ELSE f[AnyOf(T)] + SumFunctionOnSet(f, T \ {AnyOf(T)})
           F == {T \in SUBSET S : SumFunctionOnSet(f, T) # Rhs(T)}
<1>1. F = {}
  <2> SUFFICES ASSUME F # {} PROVE FALSE
    OBVIOUS
  <2>1. PICK X \in F : \A Y \in F : Y \subseteq X => Y = X
    <3> HIDE DEF F
    <3>1. F \in SUBSET (SUBSET S)
      BY DEF F
    <3> QED BY <3>1, Minimal
  <2> DEFINE G == [T \in SUBSET X |-> Rhs(T)]
  <2>2. ASSUME NEW T \in SUBSET X, T # X PROVE SumFunctionOnSet(f, T) = Rhs(T)
    BY <2>1, <2>2
  <2>3. Recursion(G, f, X)
    <3>1. ASSUME NEW T \in SUBSET X
          PROVE  Rhs(T) = IF T = {} THEN 0 ELSE f[AnyOf(T)] + G[T \ {AnyOf(T)}]
      <4>1. CASE T = {}
        BY <4>1
      <4>2. CASE T # {}
        <5> DEFINE Y == T \ {AnyOf(T)}
        <5>1. Y \in SUBSET X /\ Y # X
          BY <4>2, AnyOfIn
        <5>2. G[Y] = Rhs(Y)
          <6> HIDE DEF Rhs
          <6> QED BY <5>1
        <5>3. SumFunctionOnSet(f, Y) = Rhs(Y)
          BY <5>1, <2>2
        <5> HIDE DEF G
        <5> QED BY <4>2, <5>2, <5>3
      <4> QED BY <4>1, <4>2
    <3> HIDE DEF Rhs
    <3>2. G = [T \in SUBSET X |-> IF T = {} THEN 0 ELSE f[AnyOf(T)] + G[T \ {AnyOf(T)}]]
      BY <3>1
    <3> QED BY <3>2 DEF Recursion
  <2>4. X \in SUBSET S /\ IsFiniteSet(X)
    BY <2>1, FS_Subset
  <2>5. (CHOOSE g : Recursion(g, f, X)) = G
    <3> HIDE DEF G
    <3>1. Recursion(CHOOSE g : Recursion(g, f, X), f, X)
      BY <2>3
    <3> DEFINE H == CHOOSE g : Recursion(g, f, X)
    <3> HIDE DEF H
    <3> QED BY <2>3, <2>4, <3>1, RecursionOnce DEF H
  <2>6. SumFunctionOnSet(f, X) = G[X]
    <3> HIDE DEF G
    <3> QED BY <2>5, SumIsRecursive
  <2>7. G[X] = Rhs(X)
    <3> HIDE DEF Rhs
    <3> QED OBVIOUS
  <2> QED BY <2>1, <2>6, <2>7
<1> QED BY <1>1

(* Nothing adds up to nothing. *)
LEMMA SumEmpty ==
  ASSUME NEW f
  PROVE  SumFunctionOnSet(f, {}) = 0
BY SumEquation, FS_EmptySet

(* Sums of integers are integers. *)
LEMMA SumType ==
  ASSUME NEW f, NEW S, IsFiniteSet(S), \A x \in S : f[x] \in Int
  PROVE  SumFunctionOnSet(f, S) \in Int
<1> DEFINE F == {T \in SUBSET S : SumFunctionOnSet(f, T) \notin Int}
<1> SUFFICES ASSUME F # {} PROVE FALSE
  OBVIOUS
<1>1. PICK X \in F : \A Y \in F : Y \subseteq X => Y = X
  <2> HIDE DEF F
  <2>1. F \in SUBSET (SUBSET S)
    BY DEF F
  <2> QED BY <2>1, Minimal
<1>2. X # {}
  <2>1. SumFunctionOnSet(f, {}) = 0
    BY SumEmpty
  <2>2. SumFunctionOnSet(f, X) \notin Int
    BY <1>1
  <2> QED BY <2>1, <2>2
<1> DEFINE Y == X \ {AnyOf(X)}
<1>3. Y \in SUBSET S /\ Y \subseteq X /\ Y # X /\ AnyOf(X) \in S
  BY <1>1, <1>2, AnyOfIn
<1>4. SumFunctionOnSet(f, Y) \in Int
  BY <1>1, <1>3
<1>5. IsFiniteSet(X)
  BY <1>1, FS_Subset
<1>6. SumFunctionOnSet(f, X) = f[AnyOf(X)] + SumFunctionOnSet(f, Y)
  BY <1>2, <1>5, SumEquation
<1>7. f[AnyOf(X)] \in Int
  BY <1>3
<1>8. SumFunctionOnSet(f, X) \in Int
  BY <1>4, <1>6, <1>7
<1> QED BY <1>1, <1>8

(* Whichever element is taken first. *)
LEMMA SumElement ==
  ASSUME NEW f, NEW S, IsFiniteSet(S), \A y \in S : f[y] \in Int, NEW x \in S
  PROVE  SumFunctionOnSet(f, S) = f[x] + SumFunctionOnSet(f, S \ {x})
<1> DEFINE Splits(T) == \A y \in T : SumFunctionOnSet(f, T) = f[y] + SumFunctionOnSet(f, T \ {y})
           F == {T \in SUBSET S : ~Splits(T)}
<1>1. F = {}
  <2> SUFFICES ASSUME F # {} PROVE FALSE
    OBVIOUS
  <2>1. PICK X \in F : \A Y \in F : Y \subseteq X => Y = X
    <3> HIDE DEF F
    <3>1. F \in SUBSET (SUBSET S)
      BY DEF F
    <3> QED BY <3>1, Minimal
  <2>2. PICK y \in X : SumFunctionOnSet(f, X) # f[y] + SumFunctionOnSet(f, X \ {y})
    BY <2>1
  <2> DEFINE c == AnyOf(X)
  <2>3. c \in X /\ X \in SUBSET S /\ IsFiniteSet(X)
    BY <2>1, <2>2, AnyOfIn, FS_Subset
  <2> HIDE DEF c
  <2>4. SumFunctionOnSet(f, X) = f[c] + SumFunctionOnSet(f, X \ {c})
    BY <2>2, <2>3, SumEquation DEF c
  <2>5. c # y
    BY <2>2, <2>4
  <2> DEFINE C == X \ {c}
             Y == X \ {y}
             B == X \ {c, y}
  <2>6. Splits(C) /\ Splits(Y)
    <3>1. C \in SUBSET S /\ C \subseteq X /\ C # X /\ Y \in SUBSET S /\ Y \subseteq X /\ Y # X
      BY <2>2, <2>3
    <3> HIDE DEF Splits
    <3> QED BY <2>1, <3>1
  <2>7. y \in C /\ c \in Y /\ C \ {y} = B /\ Y \ {c} = B
    BY <2>2, <2>3, <2>5
  <2> HIDE DEF C, Y, B
  <2>8. SumFunctionOnSet(f, C) = f[y] + SumFunctionOnSet(f, B)
    BY <2>6, <2>7
  <2>9. SumFunctionOnSet(f, Y) = f[c] + SumFunctionOnSet(f, B)
    BY <2>6, <2>7
  <2>10. IsFiniteSet(B) /\ (\A z \in B : f[z] \in Int) /\ f[c] \in Int /\ f[y] \in Int
    BY <2>2, <2>3, FS_Subset DEF B
  <2>11. SumFunctionOnSet(f, B) \in Int
    BY <2>10, SumType
  <2>12. SumFunctionOnSet(f, X) = f[c] + (f[y] + SumFunctionOnSet(f, B))
    BY <2>4, <2>8 DEF C
  <2>13. SumFunctionOnSet(f, X) # f[y] + (f[c] + SumFunctionOnSet(f, B))
    BY <2>2, <2>9 DEF Y
  <2> QED BY <2>10, <2>11, <2>12, <2>13
<1>2. Splits(S)
  BY <1>1
<1> QED BY <1>2

(* An element more. *)
LEMMA SumAdded ==
  ASSUME NEW f, NEW S, IsFiniteSet(S), NEW x, x \notin S, \A y \in S \cup {x} : f[y] \in Int
  PROVE  SumFunctionOnSet(f, S \cup {x}) = f[x] + SumFunctionOnSet(f, S)
<1>1. IsFiniteSet(S \cup {x})
  BY FS_AddElement
<1>2. (S \cup {x}) \ {x} = S
  OBVIOUS
<1> QED BY <1>1, <1>2, SumElement

(* Equal terms have equal sums. *)
LEMMA SumSame ==
  ASSUME NEW f, NEW g, NEW S, IsFiniteSet(S), \A x \in S : f[x] = g[x]
  PROVE  SumFunctionOnSet(f, S) = SumFunctionOnSet(g, S)
<1> DEFINE F == {T \in SUBSET S : SumFunctionOnSet(f, T) # SumFunctionOnSet(g, T)}
<1> SUFFICES ASSUME F # {} PROVE FALSE
  OBVIOUS
<1>1. PICK X \in F : \A Y \in F : Y \subseteq X => Y = X
  <2> HIDE DEF F
  <2>1. F \in SUBSET (SUBSET S)
    BY DEF F
  <2> QED BY <2>1, Minimal
<1>2. X # {}
  BY <1>1, SumEmpty
<1> DEFINE Y == X \ {AnyOf(X)}
<1>3. Y \in SUBSET S /\ Y \subseteq X /\ Y # X /\ AnyOf(X) \in S /\ IsFiniteSet(X)
  BY <1>1, <1>2, AnyOfIn, FS_Subset
<1>4. SumFunctionOnSet(f, Y) = SumFunctionOnSet(g, Y)
  BY <1>1, <1>3
<1>5. SumFunctionOnSet(f, X) = f[AnyOf(X)] + SumFunctionOnSet(f, Y)
  BY <1>2, <1>3, SumEquation
<1>6. SumFunctionOnSet(g, X) = g[AnyOf(X)] + SumFunctionOnSet(g, Y)
  BY <1>2, <1>3, SumEquation
<1>7. SumFunctionOnSet(f, X) = SumFunctionOnSet(g, X)
  BY <1>3, <1>4, <1>5, <1>6
<1> QED BY <1>1, <1>7

(* A sum of terms of at most c each. *)
LEMMA SumAtMost ==
  ASSUME NEW f, NEW S, IsFiniteSet(S), NEW c \in Int, \A x \in S : f[x] \in Int /\ f[x] <= c
  PROVE  SumFunctionOnSet(f, S) <= c * Cardinality(S)
<1> DEFINE F == {T \in SUBSET S : ~(SumFunctionOnSet(f, T) <= c * Cardinality(T))}
<1> SUFFICES ASSUME F # {} PROVE FALSE
  OBVIOUS
<1>1. PICK X \in F : \A Y \in F : Y \subseteq X => Y = X
  <2> HIDE DEF F
  <2>1. F \in SUBSET (SUBSET S)
    BY DEF F
  <2> QED BY <2>1, Minimal
<1>2. X # {}
  <2>1. Cardinality({}) = 0 /\ c * 0 = 0 /\ SumFunctionOnSet(f, {}) = 0
    BY FS_EmptySet, SumEmpty
  <2>2. ~(SumFunctionOnSet(f, X) <= c * Cardinality(X))
    BY <1>1
  <2> QED BY <2>1, <2>2
<1> DEFINE x == AnyOf(X)
           Y == X \ {x}
<1>3. Y \in SUBSET S /\ Y \subseteq X /\ Y # X /\ x \in S /\ x \in X /\ IsFiniteSet(X)
  BY <1>1, <1>2, AnyOfIn, FS_Subset
<1>4. SumFunctionOnSet(f, Y) <= c * Cardinality(Y)
  BY <1>1, <1>3
<1>5. SumFunctionOnSet(f, X) = f[x] + SumFunctionOnSet(f, Y)
  BY <1>2, <1>3, SumEquation
<1>6. IsFiniteSet(Y) /\ Cardinality(Y) = Cardinality(X) - 1 /\ Cardinality(X) \in Nat
  BY <1>3, FS_RemoveElement, FS_CardinalityType
<1>7. SumFunctionOnSet(f, Y) \in Int /\ f[x] \in Int /\ f[x] <= c
  BY <1>3, <1>6, SumType
<1>8. c * (Cardinality(X) - 1) = c * Cardinality(X) - c
  BY <1>6
<1>9. SumFunctionOnSet(f, X) <= c * Cardinality(X)
  <2> DEFINE n == Cardinality(X)
             p == c * n
             q == SumFunctionOnSet(f, Y)
             v == f[x]
  <2>1. q <= p - c
    BY <1>4, <1>6, <1>8
  <2>2. p \in Int /\ q \in Int /\ v \in Int /\ v <= c
    BY <1>6, <1>7
  <2> HIDE DEF p, q, v
  <2>3. v + q <= p
    BY <2>1, <2>2
  <2> QED BY <1>5, <2>3 DEF p, q, v
<1> QED BY <1>1, <1>9

(* A sum of terms of at least c each. *)
LEMMA SumAtLeast ==
  ASSUME NEW f, NEW S, IsFiniteSet(S), NEW c \in Int, \A x \in S : f[x] \in Int /\ c <= f[x]
  PROVE  c * Cardinality(S) <= SumFunctionOnSet(f, S)
<1> DEFINE F == {T \in SUBSET S : ~(c * Cardinality(T) <= SumFunctionOnSet(f, T))}
<1> SUFFICES ASSUME F # {} PROVE FALSE
  OBVIOUS
<1>1. PICK X \in F : \A Y \in F : Y \subseteq X => Y = X
  <2> HIDE DEF F
  <2>1. F \in SUBSET (SUBSET S)
    BY DEF F
  <2> QED BY <2>1, Minimal
<1>2. X # {}
  <2>1. Cardinality({}) = 0 /\ c * 0 = 0 /\ SumFunctionOnSet(f, {}) = 0
    BY FS_EmptySet, SumEmpty
  <2>2. ~(c * Cardinality(X) <= SumFunctionOnSet(f, X))
    BY <1>1
  <2> QED BY <2>1, <2>2
<1> DEFINE x == AnyOf(X)
           Y == X \ {x}
<1>3. Y \in SUBSET S /\ Y \subseteq X /\ Y # X /\ x \in S /\ x \in X /\ IsFiniteSet(X)
  BY <1>1, <1>2, AnyOfIn, FS_Subset
<1>4. c * Cardinality(Y) <= SumFunctionOnSet(f, Y)
  BY <1>1, <1>3
<1>5. SumFunctionOnSet(f, X) = f[x] + SumFunctionOnSet(f, Y)
  BY <1>2, <1>3, SumEquation
<1>6. IsFiniteSet(Y) /\ Cardinality(Y) = Cardinality(X) - 1 /\ Cardinality(X) \in Nat
  BY <1>3, FS_RemoveElement, FS_CardinalityType
<1>7. SumFunctionOnSet(f, Y) \in Int /\ f[x] \in Int /\ c <= f[x]
  BY <1>3, <1>6, SumType
<1>8. c * (Cardinality(X) - 1) = c * Cardinality(X) - c
  BY <1>6
<1>9. c * Cardinality(X) <= SumFunctionOnSet(f, X)
  <2> DEFINE n == Cardinality(X)
             p == c * n
             q == SumFunctionOnSet(f, Y)
             v == f[x]
  <2>1. p - c <= q
    BY <1>4, <1>6, <1>8
  <2>2. p \in Int /\ q \in Int /\ v \in Int /\ c <= v
    BY <1>6, <1>7
  <2> HIDE DEF p, q, v
  <2>3. p <= v + q
    BY <2>1, <2>2
  <2> QED BY <1>5, <2>3 DEF p, q, v
<1> QED BY <1>1, <1>9
=============================================================================
