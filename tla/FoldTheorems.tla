---------------------------- MODULE FoldTheorems ----------------------------
(***************************************************************************)
(* What a fold over a finite set computes.  FoldFunction is defined by a   *)
(* recursive function on the subsets of the domain; these theorems show    *)
(* that this function exists, for any operator and base (the constants),   *)
(* so that what a fold returns can be shown by a least counterexample.     *)
(***************************************************************************)
EXTENDS Integers, Functions, FiniteSets, FiniteSetTheorems, WellFoundedInduction,
        TLAPS

CONSTANTS op(_, _), base

(* Every nonempty set of naturals has a least element. *)
LEMMA LeastElement ==
  ASSUME NEW N \in SUBSET Nat, N # {}
  PROVE  \E n \in N : \A k \in N : n <= k
  <1> DEFINE R == OpToRel(<, Nat)
  <1>1. IsWellFoundedOn(R, Nat)
    BY NatLessThanWellFounded
  <1>2. \A k, n \in Nat : <<k, n>> \in R <=> k < n
    BY DEF OpToRel
  <1> HIDE DEF R
  <1>3. N \subseteq Nat
    OBVIOUS
  <1>4. PICK n \in N : \A k \in N : ~(<<k, n>> \in R)
    BY <1>1, <1>3, WFMin, Zenon
  <1>5. \A k \in N : ~(k < n)
    BY <1>2, <1>3, <1>4, Zenon
  <1> QED BY <1>3, <1>5

(* The element of s that is folded first, and the rest. *)
Picked(s) == CHOOSE x \in s : TRUE
Others(s) == s \ {Picked(s)}

(* g[s] is the fold of f over s, for the sets s in S. *)
Unfolds(g, f, S) ==
  g = [s \in S |-> IF s = {} THEN base ELSE op(f[Picked(s)], g[Others(s)])]

(* A nonempty set has an element to pick, and one element less without it. *)
LEMMA PickedType ==
  ASSUME NEW S, IsFiniteSet(S)
  PROVE  /\ \A s \in SUBSET S : Cardinality(s) \in Nat
         /\ \A s \in SUBSET S : s # {} => /\ Picked(s) \in s
                                     /\ Others(s) \in SUBSET S
                                     /\ Cardinality(Others(s)) = Cardinality(s) - 1
         /\ Cardinality({}) = 0
         /\ \A s \in SUBSET S : Cardinality(s) = 0 => s = {}
  <1>1. \A s \in SUBSET S : IsFiniteSet(s) /\ Cardinality(s) \in Nat
    BY FS_Subset, FS_CardinalityType
  <1>2. \A s \in SUBSET S : s # {} => Picked(s) \in s
    BY DEF Picked
  <1>3. \A s \in SUBSET S : s # {} => /\ Others(s) \in SUBSET S
                                     /\ Cardinality(Others(s)) = Cardinality(s) - 1
    BY <1>1, <1>2, FS_RemoveElement DEF Others
  <1>4. Cardinality({}) = 0 /\ \A s \in SUBSET S : Cardinality(s) = 0 => s = {}
    BY <1>1, FS_EmptySet
  <1> QED BY <1>1, <1>2, <1>3, <1>4

(* A set of subsets that has the empty set, and every set that it has      *)
(* without its first element, has them all.                                *)
LEMMA SubsetInduction ==
  ASSUME NEW S, IsFiniteSet(S), NEW Q \in SUBSET SUBSET S,
         {} \in Q,
         \A s \in SUBSET S : s # {} /\ Others(s) \in Q => s \in Q
  PROVE  Q = SUBSET S
  <1> DEFINE size(s) == Cardinality(s)
             N == {size(s) : s \in (SUBSET S) \ Q}
  <1>1. /\ \A s \in SUBSET S : size(s) \in Nat
        /\ \A s \in SUBSET S : s # {} => /\ Picked(s) \in s
                                         /\ Others(s) \in SUBSET S
                                         /\ size(Others(s)) = size(s) - 1
    BY PickedType
  <1> HIDE DEF size
  <1>2. SUFFICES ASSUME N # {} PROVE FALSE
    OBVIOUS
  <1>3. PICK n \in N : \A k \in N : n <= k
    <2>1. N \in SUBSET Nat
      BY <1>1
    <2> HIDE DEF N
    <2> QED BY <1>2, <2>1, LeastElement
  <1>4. PICK s \in (SUBSET S) \ Q : size(s) = n
    OBVIOUS
  <1>5. s # {} /\ Others(s) \in (SUBSET S) \ Q
    BY <1>1
  <1>6. size(Others(s)) \in N /\ size(Others(s)) = n - 1 /\ n \in Nat
    BY <1>1, <1>4, <1>5
  <1> QED BY <1>3, <1>6

(* The fold of a function with a finite domain is what the recursion says:  *)
(* by a least size of sets for which the recursive function did not exist. *)
THEOREM FoldUnfolds ==
  ASSUME NEW S, IsFiniteSet(S), NEW f, DOMAIN f = S
  PROVE  \E g : Unfolds(g, f, SUBSET S) /\ FoldFunction(op, base, f) = g[S]
  <1> DEFINE iter == CHOOSE g : Unfolds(g, f, SUBSET S)
             Small(n) == {s \in SUBSET S : Cardinality(s) <= n}
             Good(n) == \E g : Unfolds(g, f, Small(n))
             Bad == {n \in Nat : ~Good(n)}
  <1>1. FoldFunction(op, base, f) = iter[S]
    BY DEF FoldFunction, FoldFunctionOnSet, MapThenFoldSet, Unfolds, Picked, Others
  <1>2. Bad = {}
    <2> SUFFICES ASSUME Bad # {} PROVE FALSE
      OBVIOUS
    <2>1. PICK n \in Bad : \A k \in Bad : n <= k
      BY LeastElement
    <2>0. n \in Nat /\ ~Good(n)
      BY <2>1
    <2>2. CASE n = 0
      <3> DEFINE g == [s \in Small(0) |-> base]
      <3>1. \A s \in Small(0) : s = {}
        BY PickedType
      <3>2. Unfolds(g, f, Small(0))
        BY <3>1 DEF Unfolds
      <3>3. Good(0)
        BY <3>2
      <3> HIDE DEF Good
      <3> QED BY <2>2, <2>0, <3>3
    <2>3. CASE n # 0
      <3>1. n - 1 \in Nat /\ Good(n - 1)
        <4> HIDE DEF Good
        <4>1. n - 1 \in Nat
          BY <2>0, <2>3
        <4>2. ~(n <= n - 1)
          BY <2>0
        <4> QED BY <2>1, <4>1, <4>2
      <3>2. PICK g : Unfolds(g, f, Small(n - 1))
        BY <3>1
      <3> DEFINE Step(x, s) == IF s = {} THEN base ELSE op(f[Picked(s)], x[Others(s)])
                 h == [s \in Small(n) |-> Step(g, s)]
      <3>3. \A s \in Small(n - 1) : s \in Small(n)
        BY <2>0, <3>1, PickedType
      <3>4. \A s \in Small(n) : s # {} => Others(s) \in Small(n - 1)
        BY <2>0, <3>1, PickedType
      <3> HIDE DEF Small
      <3>5. \A s \in Small(n - 1) : g[s] = Step(g, s)
        BY <3>2 DEF Unfolds
      <3>6. \A s \in Small(n) : Step(g, s) = Step(h, s)
        <4> TAKE s \in Small(n)
        <4>1. CASE s = {}
          BY <4>1
        <4>2. CASE s # {}
          <5> DEFINE r == Others(s)
          <5>1. r \in Small(n - 1) /\ r \in Small(n)
            BY <4>2, <3>3, <3>4
          <5>2. h[r] = g[r]
            BY <5>1, <3>5
          <5> HIDE DEF r, h
          <5> QED BY <4>2, <5>2 DEF r
        <4> QED BY <4>1, <4>2
      <3>7. Unfolds(h, f, Small(n))
        <4>1. h = [s \in Small(n) |-> h[s]] /\ \A s \in Small(n) : h[s] = Step(g, s)
          OBVIOUS
        <4> HIDE DEF h, Step
        <4>2. h = [s \in Small(n) |-> Step(h, s)]
          BY <4>1, <3>6
        <4> QED BY <4>2 DEF Unfolds, Step
      <3>8. Good(n)
        BY <3>7
      <3> HIDE DEF Good
      <3> QED BY <2>0, <3>8
    <2> QED BY <2>2, <2>3
  <1>3. Unfolds(iter, f, SUBSET S)
    <2> DEFINE n == Cardinality(S)
    <2>1. n \in Nat /\ Small(n) = SUBSET S
      BY FS_Subset, FS_CardinalityType
    <2>2. Good(n)
      BY <1>2, <2>1
    <2> QED BY <2>1, <2>2
  <1> QED BY <1>1, <1>3
=============================================================================
