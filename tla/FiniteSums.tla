---------------------------- MODULE FiniteSums ----------------------------
(***************************************************************************)
(* Facts about sums over finite sets, as SumFunctionOnSet of the community *)
(* modules computes them: the sum does not depend on the order in which    *)
(* CHOOSE takes the elements, and changes with one element as a sum should.*)
(*                                                                         *)
(* The operator is a recursive function on subsets, so these are           *)
(* inductions over data.  The induction principles are stated with a set C *)
(* in the place of a predicate and follow from the minimal element of a    *)
(* well-founded ordering (WFMin).                                          *)
(***************************************************************************)
EXTENDS Integers, FiniteSetsExt, FiniteSetTheorems, TLAPS

(* Induction over a finite set, one element more at a time.                *)
LEMMA FiniteSetsByStages ==
    ASSUME NEW S, IsFiniteSet(S), NEW C, {} \in C,
           \A T \in SUBSET S : \A x \in S \ T : T \in C => T \cup {x} \in C
    PROVE  S \in C
<1> DEFINE D == {T \in SUBSET S : T \notin C}
<1>1. SUFFICES ASSUME D # {} PROVE FALSE
  OBVIOUS
<1>2. D \subseteq FiniteSubsetsOf(S)
  BY FS_FiniteSubsetsOfFinite
<1>3. PICK T \in D : \A U \in D : ~ (<<U, T>> \in StrictSubsetOrdering(S))
  <2> HIDE DEF D
  <2> QED
    BY <1>1, <1>2, WFMin, FS_StrictSubsetOrderingWellFounded, Zenon
<1>4. PICK x \in T : TRUE
  OBVIOUS
<1>5. T \ {x} \notin D
  BY <1>3, <1>4 DEF StrictSubsetOrdering
<1>6. T = (T \ {x}) \cup {x}
  BY <1>4
<1> QED
  BY <1>4, <1>5, <1>6

(* Induction over the natural numbers.                                     *)
LEMMA NaturalsByStages ==
    ASSUME NEW C, 0 \in C, \A n \in Nat : n \in C => n + 1 \in C, NEW n \in Nat
    PROVE  n \in C
<1> DEFINE D == {T \in SUBSET (1..n) : Cardinality(T) \in C}
<1>1. IsFiniteSet(1..n) /\ Cardinality(1..n) = n
  BY FS_Interval
<1>2. {} \in D
  BY FS_EmptySet
<1>3. ASSUME NEW T \in SUBSET (1..n), NEW x \in (1..n) \ T, T \in D
      PROVE  T \cup {x} \in D
  <2>1. IsFiniteSet(T) /\ Cardinality(T) \in Nat
    BY <1>1, FS_Subset, FS_CardinalityType
  <2>2. Cardinality(T \cup {x}) = Cardinality(T) + 1
    BY <2>1, <1>3, FS_AddElement
  <2> QED
    BY <1>3, <2>1, <2>2
<1>4. 1..n \in D
  <2> HIDE DEF D
  <2> QED
    BY <1>1, <1>2, <1>3, FiniteSetsByStages
<1> QED
  BY <1>1, <1>4

(***************************************************************************)
(* Recursion over the subsets of a finite set: g is determined by what it  *)
(* makes of the empty set and of a chosen element and the rest.            *)
(***************************************************************************)
Folds(g, S, b, choice, G) ==
    \A s \in SUBSET S :
        g[s] = IF s = {} THEN b ELSE G[choice[s]][g[s \ {choice[s]}]]

(* A subset without one of its elements is one smaller.                    *)
LEMMA SmallerSubset ==
    ASSUME NEW S, IsFiniteSet(S), NEW s \in SUBSET S, NEW x \in s
    PROVE  /\ s \ {x} \in SUBSET S
           /\ Cardinality(s) \in Nat /\ Cardinality(s \ {x}) \in Nat
           /\ Cardinality(s) = Cardinality(s \ {x}) + 1
<1>1. IsFiniteSet(s) /\ IsFiniteSet(s \ {x})
  BY FS_Subset
<1>2. Cardinality(s) \in Nat /\ Cardinality(s \ {x}) \in Nat
  BY <1>1, FS_CardinalityType
<1>3. Cardinality(s \ {x}) = Cardinality(s) - 1
  BY <1>1, FS_RemoveElement
<1> QED
  BY <1>2, <1>3

(* Such a recursion has a solution.                                        *)
LEMMA FoldExists ==
    ASSUME NEW S, IsFiniteSet(S), NEW V, NEW b \in V,
           NEW choice, \A s \in SUBSET S : s # {} => choice[s] \in s,
           NEW G, \A x \in S : G[x] \in [V -> V]
    PROVE  \E g \in [SUBSET S -> V] : Folds(g, S, b, choice, G)
<1> DEFINE Step(g, s) == IF s = {} THEN b ELSE G[choice[s]][g[s \ {choice[s]}]]
           Upto(n) == {s \in SUBSET S : Cardinality(s) <= n}
           Reached == {n \in Nat : \E g \in [SUBSET S -> V] :
                                      \A s \in Upto(n) : g[s] = Step(g, s)}
<1>1. 0 \in Reached
  <2>1. [s \in SUBSET S |-> b] \in [SUBSET S -> V]
    OBVIOUS
  <2>2. ASSUME NEW s \in Upto(0) PROVE s = {}
    <3>1. IsFiniteSet(s)
      BY FS_Subset
    <3>2. Cardinality(s) \in Nat /\ Cardinality(s) <= 0
      BY <3>1, FS_CardinalityType
    <3>3. Cardinality(s) = 0
      BY ONLY <3>2
    <3> QED
      BY <3>1, <3>3, FS_EmptySet
  <2> QED
    BY <2>1, <2>2
<1>2. ASSUME NEW n \in Nat, n \in Reached PROVE n + 1 \in Reached
  <2>1. PICK g \in [SUBSET S -> V] : \A s \in Upto(n) : g[s] = Step(g, s)
    BY <1>2
  <2> DEFINE h == [s \in SUBSET S |-> IF s \in Upto(n) THEN g[s] ELSE Step(g, s)]
  <2>2. ASSUME NEW s \in SUBSET S PROVE Step(g, s) \in V
    BY <2>1
  <2>3. h \in [SUBSET S -> V]
    BY <2>1, <2>2
  <2>4. ASSUME NEW s \in Upto(n + 1) PROVE h[s] = Step(h, s)
    <3>1. CASE s = {}
      BY <2>1, <3>1
    <3>2. CASE s # {}
      <4>1. choice[s] \in s
        BY <3>2
      <4>2. s \ {choice[s]} \in Upto(n)
        <5>1. s \in SUBSET S /\ Cardinality(s) <= n + 1
          OBVIOUS
        <5>2. /\ s \ {choice[s]} \in SUBSET S
              /\ Cardinality(s) \in Nat /\ Cardinality(s \ {choice[s]}) \in Nat
              /\ Cardinality(s) = Cardinality(s \ {choice[s]}) + 1
          BY <4>1, <5>1, SmallerSubset
        <5>3. Cardinality(s \ {choice[s]}) <= n
          BY ONLY n \in Nat, <5>1, <5>2
        <5> QED
          BY <5>2, <5>3
      <4>3. h[s \ {choice[s]}] = g[s \ {choice[s]}]
        BY <4>2
      <4>4. h[s] = Step(g, s)
        BY <2>1
      <4> QED
        BY <4>3, <4>4
    <3> QED
      BY <3>1, <3>2
  <2>5. n + 1 \in Nat
    BY ONLY n \in Nat
  <2> QED
    BY <2>3, <2>4, <2>5
<1>3. Cardinality(S) \in Reached
  <2>1. Cardinality(S) \in Nat
    BY FS_CardinalityType
  <2> HIDE DEF Reached
  <2> QED
    BY <1>1, <1>2, <2>1, NaturalsByStages
<1>4. \A s \in SUBSET S : s \in Upto(Cardinality(S))
  BY FS_Subset
<1> QED
  BY <1>3, <1>4 DEF Folds

(* Two functions that agree on a set whenever they do on what is left of   *)
(* it without its chosen element agree on all of it.                       *)
Alike(g, h, s) == g[s] = h[s]
AlikeByStages(g, h, S, choice) ==
    /\ \A s \in SUBSET S : s # {} => choice[s] \in s
    /\ Alike(g, h, {})
    /\ \A s \in SUBSET S : s # {} /\ Alike(g, h, s \ {choice[s]}) => Alike(g, h, s)

LEMMA FoldsAgree ==
    ASSUME NEW S, IsFiniteSet(S), NEW choice, NEW g, NEW h,
           AlikeByStages(g, h, S, choice)
    PROVE  Alike(g, h, S)
<1> USE DEF AlikeByStages
<1> DEFINE Agreed == {n \in Nat : \A s \in SUBSET S : Cardinality(s) = n => Alike(g, h, s)}
<1>1. 0 \in Agreed
  <2>1. \A s \in SUBSET S : Cardinality(s) = 0 => s = {}
    BY FS_EmptySet, FS_Subset
  <2> QED
    BY <2>1
<1>2. ASSUME NEW n \in Nat, n \in Agreed PROVE n + 1 \in Agreed
  <2>1. ASSUME NEW s \in SUBSET S, Cardinality(s) = n + 1 PROVE Alike(g, h, s)
    <3>1. s # {}
      <4>1. Cardinality({}) = 0
        BY FS_EmptySet
      <4>2. n + 1 # 0
        BY ONLY n \in Nat
      <4> QED
        BY <2>1, <4>1, <4>2
    <3>2. choice[s] \in s
      BY <3>1
    <3>3. s \ {choice[s]} \in SUBSET S /\ Cardinality(s \ {choice[s]}) = n
      <4>1. /\ s \ {choice[s]} \in SUBSET S
            /\ Cardinality(s) \in Nat /\ Cardinality(s \ {choice[s]}) \in Nat
            /\ Cardinality(s) = Cardinality(s \ {choice[s]}) + 1
        BY <3>2, SmallerSubset
      <4> QED
        BY ONLY <2>1, <4>1, n \in Nat
    <3> QED
      BY <1>2, <3>1, <3>3
  <2> QED
    BY <2>1
<1>3. Cardinality(S) \in Agreed
  <2>1. Cardinality(S) \in Nat
    BY FS_CardinalityType
  <2> HIDE DEF Agreed
  <2> QED
    BY <1>1, <1>2, <2>1, NaturalsByStages
<1> QED
  BY <1>3

(* Its solutions on a set and on a larger one agree.                       *)
LEMMA FoldUnique ==
    ASSUME NEW S, IsFiniteSet(S), NEW T, NEW b, NEW choice, NEW G,
           \A s \in SUBSET S : s # {} => choice[s] \in s,
           S \subseteq T,
           NEW g, Folds(g, S, b, choice, G), NEW h, Folds(h, T, b, choice, G)
    PROVE  g[S] = h[S]
<1>1. \A s \in SUBSET S : s \in SUBSET T
  OBVIOUS
<1>2. Alike(g, h, {})
  BY <1>1 DEF Folds, Alike
<1>3. \A s \in SUBSET S : s # {} /\ Alike(g, h, s \ {choice[s]}) => Alike(g, h, s)
  BY <1>1 DEF Folds, Alike
<1>4. AlikeByStages(g, h, S, choice)
  BY <1>2, <1>3 DEF AlikeByStages
<1> QED
  BY <1>4, FoldsAgree DEF Alike

(***************************************************************************)
(* The sum of the values of F over S, as SumFunctionOnSet computes it:     *)
(* whichever element is taken first.                                       *)
(***************************************************************************)
IntegersOn(F, U) == \A x \in U : F[x] \in Int

Taking(U) == [s \in SUBSET U |-> CHOOSE x \in s : TRUE]
Adding(F, U) == [x \in U |-> [v \in Int |-> F[x] + v]]

FoldsTo(F, U, S, total) ==
    \E g \in [SUBSET S -> Int] :
        Folds(g, S, 0, Taking(U), Adding(F, U)) /\ g[S] = total

(* The sum is the value of the recursion that takes elements by CHOOSE.    *)
LEMMA SumIsFold ==
    ASSUME NEW U, NEW F, IntegersOn(F, U), NEW S \in SUBSET U, IsFiniteSet(S)
    PROVE  FoldsTo(F, U, S, SumFunctionOnSet(F, S))
<1> DEFINE Equation(g) ==
             g = [s \in SUBSET S |->
                    IF s = {} THEN 0
                    ELSE F[CHOOSE x \in s : TRUE] + g[s \ {CHOOSE x \in s : TRUE}]]
           first(s) == CHOOSE x \in s : TRUE
<1>1. SumFunctionOnSet(F, S) = (CHOOSE g : Equation(g))[S]
  BY DEF SumFunctionOnSet, FoldFunctionOnSet, MapThenFoldSet
<1>2. \A s \in SUBSET S : /\ Taking(U)[s] = first(s)
                          /\ s # {} => first(s) \in s
  BY DEF Taking
<1>3. \A x \in S : Adding(F, U)[x] \in [Int -> Int]
  BY DEF Adding, IntegersOn
<1>4. PICK g \in [SUBSET S -> Int] : Folds(g, S, 0, Taking(U), Adding(F, U))
  <2>1. \A s \in SUBSET S : s # {} => Taking(U)[s] \in s
    BY <1>2
  <2>2. 0 \in Int
    OBVIOUS
  <2> QED
    BY <1>3, <2>1, <2>2, FoldExists, Zenon
<1>5. \A s \in SUBSET S : g[s] = IF s = {} THEN 0 ELSE F[first(s)] + g[s \ {first(s)}]
  <2>1. ASSUME NEW s \in SUBSET S, s # {}
        PROVE  g[s] = F[first(s)] + g[s \ {first(s)}]
    <3>1. first(s) \in U /\ g[s \ {first(s)}] \in Int
      BY <1>2, <2>1
    <3>2. g[s] = Adding(F, U)[first(s)][g[s \ {first(s)}]]
      BY <1>2, <1>4, <2>1 DEF Folds
    <3> QED
      BY <3>1, <3>2 DEF Adding
  <2> QED
    BY <1>4, <2>1 DEF Folds
<1>6. Equation(g)
  BY <1>5
<1>7. ASSUME NEW h, Equation(h) PROVE h[S] = g[S]
  <2>1. \A s \in SUBSET S : h[s] = IF s = {} THEN 0 ELSE F[first(s)] + h[s \ {first(s)}]
    BY <1>7
  <2>2. Alike(g, h, {})
    BY <1>5, <2>1 DEF Alike
  <2>3. \A s \in SUBSET S : s # {} => Taking(U)[s] \in s
    BY <1>2
  <2>4. \A s \in SUBSET S : s # {} /\ Alike(g, h, s \ {Taking(U)[s]}) => Alike(g, h, s)
    <3> HIDE DEF first
    <3>1. ASSUME NEW s \in SUBSET S, s # {}, Alike(g, h, s \ {Taking(U)[s]})
          PROVE  Alike(g, h, s)
      <4>1. g[s] = F[first(s)] + g[s \ {first(s)}]
        BY <1>5, <3>1
      <4>2. h[s] = F[first(s)] + h[s \ {first(s)}]
        BY <2>1, <3>1
      <4>3. g[s \ {first(s)}] = h[s \ {first(s)}]
        BY <1>2, <3>1 DEF Alike
      <4> QED
        BY <4>1, <4>2, <4>3, Zenon DEF Alike
    <3> QED
      BY <3>1
  <2>5. AlikeByStages(g, h, S, Taking(U))
    BY <2>2, <2>3, <2>4 DEF AlikeByStages
  <2> QED
    BY <2>5, FoldsAgree DEF Alike
<1>8. Equation(CHOOSE h : Equation(h))
  <2> HIDE DEF Equation
  <2> QED
    BY <1>6
<1>9. (CHOOSE h : Equation(h))[S] = g[S]
  <2> HIDE DEF Equation
  <2> QED
    BY <1>7, <1>8
<1> QED
  BY <1>1, <1>4, <1>9 DEF FoldsTo

(* Nothing adds up to zero.                                                *)
LEMMA SumEmpty ==
    ASSUME NEW F
    PROVE  SumFunctionOnSet(F, {}) = 0
<1>1. \A h : h = [s \in SUBSET {} |-> IF s = {} THEN 0
                    ELSE F[CHOOSE x \in s : TRUE] + h[s \ {CHOOSE x \in s : TRUE}]]
             <=> h = [s \in {{}} |-> 0]
  OBVIOUS
<1> QED
  BY <1>1 DEF SumFunctionOnSet, FoldFunctionOnSet, MapThenFoldSet

(* Integers add up to an integer.                                          *)
LEMMA SumType ==
    ASSUME NEW U, NEW F, IntegersOn(F, U), NEW S \in SUBSET U, IsFiniteSet(S)
    PROVE  SumFunctionOnSet(F, S) \in Int
<1>1. FoldsTo(F, U, S, SumFunctionOnSet(F, S))
  BY SumIsFold
<1> QED
  BY <1>1 DEF FoldsTo

(* One element is taken out, the one that is chosen first.                 *)
LEMMA SumFirst ==
    ASSUME NEW U, NEW F, IntegersOn(F, U), NEW S \in SUBSET U, IsFiniteSet(S), S # {}
    PROVE  LET x == CHOOSE x \in S : TRUE
           IN  SumFunctionOnSet(F, S) = F[x] + SumFunctionOnSet(F, S \ {x})
<1> DEFINE x == CHOOSE x \in S : TRUE
           T == S \ {x}
<1>1. x \in S /\ x \in U /\ Taking(U)[S] = x
  BY DEF Taking
<1>2. T \in SUBSET U /\ T \in SUBSET S /\ IsFiniteSet(T)
  BY FS_Subset
<1>3. PICK g \in [SUBSET S -> Int] : /\ Folds(g, S, 0, Taking(U), Adding(F, U))
                                     /\ SumFunctionOnSet(F, S) = g[S]
  <2>1. FoldsTo(F, U, S, SumFunctionOnSet(F, S))
    BY SumIsFold
  <2> QED
    BY <2>1 DEF FoldsTo
<1>4. PICK h \in [SUBSET T -> Int] : /\ Folds(h, T, 0, Taking(U), Adding(F, U))
                                     /\ SumFunctionOnSet(F, T) = h[T]
  <2>1. FoldsTo(F, U, T, SumFunctionOnSet(F, T))
    BY <1>2, SumIsFold
  <2> QED
    BY <2>1 DEF FoldsTo
<1>5. h[T] = g[T]
  <2>1. \A s \in SUBSET T : s # {} => Taking(U)[s] \in s
    BY <1>2 DEF Taking
  <2> HIDE DEF T
  <2> QED
    BY <1>2, <1>3, <1>4, <2>1, FoldUnique
<1>6. g[S] = Adding(F, U)[x][g[T]] /\ g[T] \in Int
  BY <1>1, <1>2, <1>3 DEF Folds
<1>7. g[S] = F[x] + g[T]
  BY <1>1, <1>6 DEF Adding
<1> QED
  BY <1>3, <1>4, <1>5, <1>7

Takes(F, s) ==
    \A x \in s : SumFunctionOnSet(F, s) = F[x] + SumFunctionOnSet(F, s \ {x})

(* Any element may be taken out first.                                     *)
LEMMA SumTakesAny ==
    ASSUME NEW U, NEW F, IntegersOn(F, U), NEW S \in SUBSET U, IsFiniteSet(S)
    PROVE  Takes(F, S)
<1> DEFINE Fine == {n \in Nat : \A s \in SUBSET S : Cardinality(s) = n => Takes(F, s)}
<1>1. 0 \in Fine
  <2>1. \A s \in SUBSET S : Cardinality(s) = 0 => s = {}
    BY FS_EmptySet, FS_Subset
  <2> QED
    BY <2>1 DEF Takes
<1>2. ASSUME NEW n \in Nat, n \in Fine PROVE n + 1 \in Fine
  <2>1. ASSUME NEW s \in SUBSET S, Cardinality(s) = n + 1, NEW x \in s
        PROVE  SumFunctionOnSet(F, s) = F[x] + SumFunctionOnSet(F, s \ {x})
    <3> DEFINE y == CHOOSE z \in s : TRUE
               rest == (s \ {x}) \ {y}
    <3>1. y \in s /\ s # {} /\ s \in SUBSET U /\ IsFiniteSet(s)
      BY <2>1, FS_Subset
    <3>2. SumFunctionOnSet(F, s) = F[y] + SumFunctionOnSet(F, s \ {y})
      BY <3>1, SumFirst
    <3>3. CASE x = y
      BY <3>2, <3>3
    <3>4. CASE x # y
      <4> HIDE DEF y
      <4>1. ASSUME NEW z \in s PROVE s \ {z} \in SUBSET S /\ Takes(F, s \ {z})
        <5>1. /\ s \ {z} \in SUBSET S
              /\ Cardinality(s) \in Nat /\ Cardinality(s \ {z}) \in Nat
              /\ Cardinality(s) = Cardinality(s \ {z}) + 1
          BY SmallerSubset
        <5>2. Cardinality(s \ {z}) = n
          BY ONLY <2>1, <5>1, n \in Nat
        <5> QED
          BY <1>2, <5>1, <5>2
      <4>2. SumFunctionOnSet(F, s \ {y}) = F[x] + SumFunctionOnSet(F, (s \ {y}) \ {x})
        BY <3>1, <3>4, <4>1 DEF Takes
      <4>3. SumFunctionOnSet(F, s \ {x}) = F[y] + SumFunctionOnSet(F, rest)
        BY <3>1, <3>4, <4>1 DEF Takes
      <4>4. (s \ {y}) \ {x} = rest
        OBVIOUS
      <4>5. SumFunctionOnSet(F, rest) \in Int
        <5>1. rest \in SUBSET U /\ IsFiniteSet(rest)
          BY <3>1, FS_Subset
        <5> HIDE DEF rest
        <5> QED
          BY <5>1, SumType
      <4>6. F[x] \in Int /\ F[y] \in Int
        BY <3>1 DEF IntegersOn
      <4> HIDE DEF rest
      <4>7. SumFunctionOnSet(F, s) = F[y] + (F[x] + SumFunctionOnSet(F, rest))
        BY <3>2, <4>2, <4>4
      <4>8. F[y] + (F[x] + SumFunctionOnSet(F, rest)) = F[x] + (F[y] + SumFunctionOnSet(F, rest))
        BY ONLY <4>5, <4>6
      <4> QED
        BY <4>3, <4>7, <4>8
    <3> QED
      BY <3>3, <3>4
  <2> QED
    BY <2>1 DEF Takes
<1>3. Cardinality(S) \in Fine
  <2>1. Cardinality(S) \in Nat
    BY FS_CardinalityType
  <2> HIDE DEF Fine
  <2> QED
    BY <1>1, <1>2, <2>1, NaturalsByStages
<1> QED
  BY <1>3

(* The sum of a set is an element of it and the sum of the rest.           *)
LEMMA SumTakeOne ==
    ASSUME NEW U, NEW F, IntegersOn(F, U), NEW S \in SUBSET U, IsFiniteSet(S), NEW x \in S
    PROVE  /\ SumFunctionOnSet(F, S) = F[x] + SumFunctionOnSet(F, S \ {x})
           /\ SumFunctionOnSet(F, S) \in Int /\ SumFunctionOnSet(F, S \ {x}) \in Int
           /\ F[x] \in Int
<1>1. S \ {x} \in SUBSET U /\ IsFiniteSet(S \ {x})
  BY FS_Subset
<1>2. SumFunctionOnSet(F, S) \in Int /\ SumFunctionOnSet(F, S \ {x}) \in Int
  BY <1>1, SumType
<1>3. Takes(F, S)
  BY SumTakesAny
<1>4. F[x] \in Int
  BY DEF IntegersOn
<1> QED
  BY <1>2, <1>3, <1>4 DEF Takes

(* The sum of a set with an element more.                                  *)
LEMMA SumAddOne ==
    ASSUME NEW S, IsFiniteSet(S), NEW x, x \notin S, NEW F, IntegersOn(F, S \cup {x})
    PROVE  /\ SumFunctionOnSet(F, S \cup {x}) = SumFunctionOnSet(F, S) + F[x]
           /\ SumFunctionOnSet(F, S) \in Int /\ F[x] \in Int
           /\ IsFiniteSet(S \cup {x})
<1> DEFINE U == S \cup {x}
<1>1. U \in SUBSET U /\ U \ {x} = S /\ IsFiniteSet(U) /\ x \in U
  BY FS_AddElement
<1>2. /\ SumFunctionOnSet(F, U) = F[x] + SumFunctionOnSet(F, U \ {x})
      /\ SumFunctionOnSet(F, U \ {x}) \in Int
      /\ F[x] \in Int
  <2> HIDE DEF U
  <2> QED
    BY <1>1, SumTakeOne
<1>3. SumFunctionOnSet(F, S) \in Int /\ F[x] \in Int
  BY <1>1, <1>2, Zenon
<1>4. F[x] + SumFunctionOnSet(F, S) = SumFunctionOnSet(F, S) + F[x]
  BY ONLY <1>3
<1> QED
  BY <1>1, <1>2, <1>4, Zenon

(* Sums compare as their summands do.                                      *)
Below(F, G, S) == \A x \in S : F[x] <= G[x]
Same(F, G, S) == \A x \in S : F[x] = G[x]

(* Sums compare as their summands do.                                      *)
LEMMA SumCompare ==
    ASSUME NEW S, IsFiniteSet(S), NEW F, IntegersOn(F, S), NEW G, IntegersOn(G, S)
    PROVE  /\ Below(F, G, S) => SumFunctionOnSet(F, S) <= SumFunctionOnSet(G, S)
           /\ Same(F, G, S) => SumFunctionOnSet(F, S) = SumFunctionOnSet(G, S)
<1> DEFINE C == {T \in SUBSET S :
                   /\ Below(F, G, S) => SumFunctionOnSet(F, T) <= SumFunctionOnSet(G, T)
                   /\ Same(F, G, S) => SumFunctionOnSet(F, T) = SumFunctionOnSet(G, T)}
<1>1. {} \in C
  BY SumEmpty
<1>2. ASSUME NEW T \in SUBSET S, NEW x \in S \ T, T \in C PROVE T \cup {x} \in C
  <2>1. /\ IsFiniteSet(T) /\ x \notin T
        /\ IntegersOn(F, T \cup {x}) /\ IntegersOn(G, T \cup {x})
    BY FS_Subset DEF IntegersOn
  <2>2. /\ SumFunctionOnSet(F, T \cup {x}) = SumFunctionOnSet(F, T) + F[x]
        /\ SumFunctionOnSet(F, T) \in Int /\ F[x] \in Int
    BY <2>1, SumAddOne
  <2>3. /\ SumFunctionOnSet(G, T \cup {x}) = SumFunctionOnSet(G, T) + G[x]
        /\ SumFunctionOnSet(G, T) \in Int /\ G[x] \in Int
    BY <2>1, SumAddOne
  <2>5. ASSUME Below(F, G, S)
        PROVE  SumFunctionOnSet(F, T \cup {x}) <= SumFunctionOnSet(G, T \cup {x})
    BY <1>2, <2>2, <2>3, <2>5 DEF Below
  <2>6. ASSUME Same(F, G, S)
        PROVE  SumFunctionOnSet(F, T \cup {x}) = SumFunctionOnSet(G, T \cup {x})
    BY <1>2, <2>2, <2>3, <2>6 DEF Same
  <2> QED
    BY <2>5, <2>6
<1>3. S \in C
  <2> HIDE DEF C
  <2> QED
    BY <1>1, <1>2, FiniteSetsByStages
<1> QED
  BY <1>3

(* A sum changes by what one of its summands changes.                      *)
LEMMA SumChangesWithOne ==
    ASSUME NEW S, IsFiniteSet(S), NEW F, IntegersOn(F, S), NEW G, IntegersOn(G, S),
           NEW x \in S, Same(F, G, S \ {x})
    PROVE  /\ SumFunctionOnSet(G, S) = SumFunctionOnSet(F, S) + (G[x] - F[x])
           /\ SumFunctionOnSet(F, S) \in Int
<1>1. /\ IsFiniteSet(S \ {x}) /\ S \in SUBSET S
      /\ IntegersOn(F, S \ {x}) /\ IntegersOn(G, S \ {x})
  BY FS_Subset DEF IntegersOn
<1>2. SumFunctionOnSet(F, S \ {x}) = SumFunctionOnSet(G, S \ {x})
  BY <1>1, SumCompare
<1>3. /\ SumFunctionOnSet(F, S) = F[x] + SumFunctionOnSet(F, S \ {x})
      /\ SumFunctionOnSet(F, S) \in Int /\ SumFunctionOnSet(F, S \ {x}) \in Int
      /\ F[x] \in Int
  BY <1>1, SumTakeOne
<1>4. /\ SumFunctionOnSet(G, S) = G[x] + SumFunctionOnSet(G, S \ {x})
      /\ G[x] \in Int
  BY <1>1, SumTakeOne
<1> QED
  BY <1>2, <1>3, <1>4

(* Zeros add up to zero.                                                   *)
LEMMA SumOfZeros ==
    ASSUME NEW S, IsFiniteSet(S), NEW F, \A x \in S : F[x] = 0
    PROVE  SumFunctionOnSet(F, S) = 0
<1> DEFINE C == {T \in SUBSET S : SumFunctionOnSet(F, T) = 0}
<1>1. {} \in C
  BY SumEmpty
<1>2. ASSUME NEW T \in SUBSET S, NEW x \in S \ T, T \in C PROVE T \cup {x} \in C
  <2>1. IsFiniteSet(T) /\ x \notin T /\ IntegersOn(F, T \cup {x}) /\ F[x] = 0
    BY FS_Subset DEF IntegersOn
  <2>2. SumFunctionOnSet(F, T \cup {x}) = SumFunctionOnSet(F, T) + F[x]
    BY <2>1, SumAddOne
  <2> QED
    BY <1>2, <2>1, <2>2
<1>3. S \in C
  <2> HIDE DEF C
  <2> QED
    BY <1>1, <1>2, FiniteSetsByStages
<1> QED
  BY <1>3

(* Natural numbers add up to a natural number.                             *)
LEMMA SumOfNaturals ==
    ASSUME NEW S, IsFiniteSet(S), NEW F, \A x \in S : F[x] \in Nat
    PROVE  SumFunctionOnSet(F, S) \in Nat
<1> DEFINE C == {T \in SUBSET S : SumFunctionOnSet(F, T) \in Nat}
<1>1. {} \in C
  BY SumEmpty
<1>2. ASSUME NEW T \in SUBSET S, NEW x \in S \ T, T \in C PROVE T \cup {x} \in C
  <2>1. IsFiniteSet(T) /\ x \notin T /\ IntegersOn(F, T \cup {x}) /\ F[x] \in Nat
    BY FS_Subset DEF IntegersOn
  <2>2. SumFunctionOnSet(F, T \cup {x}) = SumFunctionOnSet(F, T) + F[x]
    BY <2>1, SumAddOne
  <2> QED
    BY <1>2, <2>1, <2>2
<1>3. S \in C
  <2> HIDE DEF C
  <2> QED
    BY <1>1, <1>2, FiniteSetsByStages
<1> QED
  BY <1>3

(* The sum over an initial segment grows by the value that is appended.    *)
LEMMA SumAppend ==
    ASSUME NEW n \in Nat, NEW F, IntegersOn(F, 1..n), NEW G, IntegersOn(G, 1..(n + 1)),
           Same(F, G, 1..n)
    PROVE  /\ SumFunctionOnSet(G, 1..(n + 1)) = SumFunctionOnSet(F, 1..n) + G[n + 1]
           /\ SumFunctionOnSet(F, 1..n) \in Int
<1> DEFINE T == 1..n
           x == n + 1
<1>1. IsFiniteSet(T)
  BY FS_Interval
<1>2. x \notin T /\ 1..x = T \cup {x}
  OBVIOUS
<1>3. /\ IntegersOn(G, T \cup {x}) /\ IntegersOn(G, T)
      /\ IntegersOn(F, T) /\ Same(F, G, T)
  BY <1>2 DEF IntegersOn
<1>4. /\ SumFunctionOnSet(G, T \cup {x}) = SumFunctionOnSet(G, T) + G[x]
      /\ SumFunctionOnSet(G, T) \in Int
  <2> HIDE DEF T, x
  <2> QED
    BY <1>1, <1>2, <1>3, SumAddOne
<1>5. SumFunctionOnSet(F, T) = SumFunctionOnSet(G, T)
  <2> HIDE DEF T, x
  <2> QED
    BY <1>1, <1>3, SumCompare
<1> QED
  BY <1>2, <1>4, <1>5, Zenon
=============================================================================
