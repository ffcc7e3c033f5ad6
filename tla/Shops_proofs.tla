---------------------------- MODULE Shops_proofs ----------------------------
(* Theorems about the shops of players, for any number of players, kinds   *)
(* of items, slots and amounts, however lists age, carts are read again    *)
(* and scripts take things.                                                *)
EXTENDS Shops, FiniteSetTheorems, TLAPS

(* Sums over finite sets. *)
Plus(x, y) == x + y
Additive == INSTANCE FoldTheorems WITH op <- Plus, base <- 0

(* A sum is unfolded one summand at a time. *)
LEMMA SumUnfolds ==
  ASSUME NEW S, IsFiniteSet(S), NEW f, DOMAIN f = S
  PROVE  \E g : Additive!Unfolds(g, f, SUBSET S) /\ Sum(f) = g[S]
  <1>1. Additive!IsFiniteSet(S)
    BY DEF Additive!IsFiniteSet, IsFiniteSet
  <1>2. \E g : Additive!Unfolds(g, f, SUBSET S) /\ Additive!FoldFunction(Plus, 0, f) = g[S]
    BY <1>1, Additive!FoldUnfolds
  <1>3. Additive!FoldFunction(Plus, 0, f) = FoldFunction(Plus, 0, f)
    BY DEF Additive!FoldFunction, Additive!FoldFunctionOnSet, Additive!MapThenFoldSet, FoldFunction,
       FoldFunctionOnSet, MapThenFoldSet
  <1>4. FoldFunction(Plus, 0, f) = Sum(f)
    BY DEF Sum, Plus
  <1> QED BY <1>2, <1>3, <1>4

(* A sum of natural numbers is a natural number. *)
LEMMA SumType ==
  ASSUME NEW S, IsFiniteSet(S), NEW f \in [S -> Nat]
  PROVE  Sum(f) \in Nat
  <1>1. PICK g : Additive!Unfolds(g, f, SUBSET S) /\ Sum(f) = g[S]
    BY SumUnfolds
  <1>2. Additive!IsFiniteSet(S)
    BY DEF Additive!IsFiniteSet, IsFiniteSet
  <1> DEFINE Q == {s \in SUBSET S : g[s] \in Nat}
  <1>3. {} \in Q
    BY <1>1 DEF Additive!Unfolds
  <1>4. ASSUME NEW s \in SUBSET S, s # {}, Additive!Others(s) \in Q PROVE s \in Q
    <2>1. Additive!Picked(s) \in S
      BY <1>2, <1>4, Additive!PickedType
    <2>2. g[s] = f[Additive!Picked(s)] + g[Additive!Others(s)]
      BY <1>1, <1>4 DEF Additive!Unfolds, Plus
    <2> QED BY <1>4, <2>1, <2>2
  <1> HIDE DEF Q
  <1>5. Q = SUBSET S
    <2>1. Q \in SUBSET SUBSET S
      BY DEF Q
    <2> QED BY <1>3, <1>4, <2>1, <1>2, Additive!SubsetInduction
  <1> QED BY <1>1, <1>5 DEF Q

(* The sum over one thing, or over nothing. *)
LEMMA SumOfFew ==
  ASSUME NEW S, NEW x, S \subseteq {x}, NEW f \in [S -> Nat]
  PROVE  /\ S = {} => Sum(f) = 0
         /\ x \in S => Sum(f) = f[x]
  <1>0. IsFiniteSet(S)
    BY FS_EmptySet, FS_AddElement, FS_Subset
  <1>1. PICK g : Additive!Unfolds(g, f, SUBSET S) /\ Sum(f) = g[S]
    BY <1>0, SumUnfolds
  <1>2. g[{}] = 0
    BY <1>1 DEF Additive!Unfolds
  <1>3. ASSUME x \in S PROVE Sum(f) = f[x]
    <2>1. S = {x} /\ Additive!Picked(S) = x /\ Additive!Others(S) = {}
      BY <1>3 DEF Additive!Picked, Additive!Others
    <2>2. g[S] = f[x] + g[{}]
      BY <1>1, <2>1 DEF Additive!Unfolds, Plus
    <2>3. f[x] \in Nat
      BY <1>3
    <2> QED BY <1>1, <1>2, <2>2, <2>3
  <1> QED BY <1>1, <1>2, <1>3

-----------------------------------------------------------------------------
(* Numbers in order. *)
LEMMA FirstIsIn ==
  ASSUME NEW S \in SUBSET Nat, S # {}
  PROVE  First(S) \in S /\ \A i \in S : First(S) <= i
  <1>1. \E i \in S : \A j \in S : i <= j
    BY Additive!LeastElement
  <1> QED BY <1>1 DEF First

(* First of a set with one number in it. *)
LEMMA FirstOfOne ==
  ASSUME NEW S \in SUBSET Nat, NEW x \in S, \A y \in S : y = x
  PROVE  First(S) = x
  BY FirstIsIn

LEMMA PartFinite ==
  ASSUME NEW N \in Nat, NEW S \in SUBSET (1 .. N)
  PROVE  IsFiniteSet(S) /\ Cardinality(S) \in Nat
  <1>1. IsFiniteSet(1 .. N)
    BY FS_Interval
  <1> QED BY <1>1, FS_Subset, FS_CardinalityType

Ordered(f, S) == /\ f \in [1 .. Cardinality(S) -> S]
                 /\ \A i, j \in 1 .. Cardinality(S) : i < j => f[i] < f[j]

(* A finite set of numbers has a greatest one. *)
LEMMA Greatest ==
  ASSUME NEW N \in Nat, NEW S \in SUBSET (1 .. N), S # {}
  PROVE  \E m \in S : \A i \in S : i <= m
  <1> DEFINE D == {N - i : i \in S}
  <1>1. D \in SUBSET Nat /\ D # {}
    <2>1. \A i \in S : N - i \in Nat
      OBVIOUS
    <2>2. PICK i \in S : TRUE
      OBVIOUS
    <2>3. N - i \in D
      BY <2>2
    <2> QED BY <2>1, <2>3
  <1> HIDE DEF D
  <1>2. PICK d \in D : \A k \in D : d <= k
    BY <1>1, Additive!LeastElement
  <1>3. PICK m \in S : d = N - m
    BY <1>2 DEF D
  <1>4. ASSUME NEW i \in S PROVE i <= m
    <2>1. N - i \in D
      BY DEF D
    <2>2. N - m <= N - i
      BY <1>2, <1>3, <2>1
    <2> QED BY <2>2
  <1> QED BY <1>4

(* Every finite set of numbers can be put in order: a least set that could *)
(* not, without its greatest number, could.                                *)
LEMMA OrderExists ==
  ASSUME NEW N \in Nat, NEW T \in SUBSET (1 .. N)
  PROVE  \E f : Ordered(f, T)
  <1> DEFINE Bad == {S \in SUBSET (1 .. N) : ~ \E f : Ordered(f, S)}
             Sizes == {Cardinality(S) : S \in Bad}
  <1>1. \A S \in SUBSET (1 .. N) : IsFiniteSet(S) /\ Cardinality(S) \in Nat
    BY PartFinite
  <1>2. SUFFICES ASSUME Bad # {} PROVE FALSE
    OBVIOUS
  <1>3. PICK n \in Sizes : \A k \in Sizes : n <= k
    <2>1. Sizes \in SUBSET Nat /\ Sizes # {}
      BY <1>1, <1>2
    <2> HIDE DEF Sizes
    <2> QED BY <2>1, Additive!LeastElement
  <1>4. PICK S \in Bad : Cardinality(S) = n
    OBVIOUS
  <1>5. S \in SUBSET (1 .. N) /\ IsFiniteSet(S) /\ n \in Nat
    BY <1>1, <1>4
  <1>6. CASE S = {}
    <2>1. Cardinality(S) = 0
      BY <1>6, FS_EmptySet
    <2>2. Ordered([i \in 1 .. 0 |-> 0], S)
      BY <2>1 DEF Ordered
    <2> QED BY <1>4, <2>2
  <1>7. CASE S # {}
    <2>1. PICK m \in S : \A i \in S : i <= m
      BY <1>5, <1>7, Greatest
    <2> DEFINE R == S \ {m}
    <2>2. Cardinality(R) = n - 1 /\ R \in SUBSET (1 .. N) /\ n - 1 \in Nat
      <3>1. Cardinality(R) = n - 1
        BY <1>4, <1>5, <2>1, FS_RemoveElement
      <3>2. R \in SUBSET (1 .. N)
        BY <1>5
      <3>3. Cardinality(R) \in Nat
        BY <1>1, <3>2
      <3> QED BY <3>1, <3>2, <3>3
    <2>3. R \notin Bad
      <3>1. ASSUME R \in Bad PROVE FALSE
        <4>1. n - 1 \in Sizes
          BY <2>2, <3>1
        <4>2. n <= n - 1
          BY <1>3, <4>1
        <4> QED BY <1>5, <4>2
      <3> QED BY <3>1
    <2>4. PICK f : Ordered(f, R)
      BY <2>2, <2>3
    <2> DEFINE g == [i \in 1 .. n |-> IF i = n THEN m ELSE f[i]]
    <2>5. \A i \in 1 .. n : i # n => f[i] \in R /\ f[i] < m
      <3>1. \A i \in 1 .. n : i # n => i \in 1 .. (n - 1)
        BY <1>5
      <3>2. \A i \in 1 .. (n - 1) : f[i] \in R
        BY <2>2, <2>4 DEF Ordered
      <3>3. \A i \in R : i < m
        BY <1>5, <2>1
      <3> QED BY <3>1, <3>2, <3>3
    <2>6. g \in [1 .. n -> S]
      BY <2>1, <2>5
    <2>7. ASSUME NEW i \in 1 .. n, NEW j \in 1 .. n, i < j PROVE g[i] < g[j]
      <3>1. i # n /\ i \in 1 .. (n - 1)
        BY <1>5, <2>7
      <3>2. CASE j = n
        BY <2>5, <3>1, <3>2
      <3>3. CASE j # n
        <4>1. j \in 1 .. (n - 1)
          BY <1>5, <3>3
        <4>2. f[i] < f[j]
          BY <2>2, <2>4, <2>7, <3>1, <4>1 DEF Ordered
        <4> QED BY <3>1, <3>3, <4>2
      <3> QED BY <3>2, <3>3
    <2> HIDE DEF g
    <2>8. Ordered(g, S)
      BY <1>4, <2>6, <2>7 DEF Ordered
    <2> QED BY <1>4, <2>8
  <1> QED BY <1>6, <1>7

LEMMA InOrderFacts ==
  ASSUME NEW N \in Nat, NEW S \in SUBSET (1 .. N)
  PROVE  /\ IsFiniteSet(S) /\ Cardinality(S) \in Nat
         /\ InOrder(S) \in [1 .. Cardinality(S) -> S]
         /\ \A i, j \in 1 .. Cardinality(S) : i # j => InOrder(S)[i] # InOrder(S)[j]
  <1>1. IsFiniteSet(S) /\ Cardinality(S) \in Nat
    BY PartFinite
  <1>2. PICK f : Ordered(f, S)
    BY OrderExists
  <1> DEFINE F == InOrder(S)
  <1>3. Ordered(F, S)
    BY <1>2 DEF InOrder, Ordered
  <1> HIDE DEF F
  <1>4. ASSUME NEW i \in 1 .. Cardinality(S), NEW j \in 1 .. Cardinality(S), i # j PROVE F[i] # F[j]
    <2>1. i < j \/ j < i
      BY <1>1, <1>4
    <2>2. F[i] \in Nat /\ F[j] \in Nat
      <3>1. F[i] \in S /\ F[j] \in S
        BY <1>3 DEF Ordered
      <3>2. \A x \in S : x \in Nat
        OBVIOUS
      <3> QED BY <3>1, <3>2
    <2>3. i < j => F[i] < F[j]
      BY <1>3 DEF Ordered
    <2>4. j < i => F[j] < F[i]
      BY <1>3 DEF Ordered
    <2> QED BY <2>1, <2>2, <2>3, <2>4
  <1>5. F \in [1 .. Cardinality(S) -> S]
    BY <1>3 DEF Ordered
  <1> QED BY <1>1, <1>4, <1>5 DEF F

(* Numbers in order are all of them. *)
LEMMA InOrderOnto ==
  ASSUME NEW N \in Nat, NEW S \in SUBSET (1 .. N), NEW x \in S
  PROVE  \E m \in 1 .. Cardinality(S) : InOrder(S)[m] = x
  <1> DEFINE M == Cardinality(S)
             O == InOrder(S)
  <1>1. /\ IsFiniteSet(S) /\ M \in Nat /\ O \in [1 .. M -> S]
        /\ \A i, j \in 1 .. M : i # j => O[i] # O[j]
    BY InOrderFacts
  <1> HIDE DEF O
  <1>2. O \in Injection(1 .. M, S)
    <2> HIDE DEF M
    <2> QED BY <1>1 DEF Injection, IsInjective
  <1>3. Cardinality(1 .. M) = M
    <2>1. PICK a \in Int : a = 1
      OBVIOUS
    <2> HIDE DEF M
    <2>2. Cardinality(a .. M) = IF a > M THEN 0 ELSE M - a + 1
      BY <1>1, FS_Interval
    <2> QED BY <1>1, <2>1, <2>2
  <1>4. O \in Surjection(1 .. M, S)
    BY <1>1, <1>2, <1>3, FS_Injection
  <1> QED BY <1>4 DEF Surjection, O

-----------------------------------------------------------------------------
(* Inventories and carts with N slots. *)
Bags(N) == [1 .. N -> ItemIn(Kinds)]

LEMMA ItemFacts ==
  ASSUME ShopConstantsOK, NEW x \in ItemIn(Kinds)
  PROVE  /\ x.kind \in Kinds \cup {Void} /\ x.amount \in 0 .. MaxAmount
         /\ x.amount \in Nat /\ MaxAmount \in Nat
         /\ x = Nothing <=> x.kind = Void
         /\ x = Nothing <=> x.amount = 0
         /\ x # Nothing => /\ x.kind \in Kinds /\ x.amount \in 1 .. MaxAmount
                           /\ 1 \in 1 .. MaxAmount
  <1>1. Void \notin Kinds /\ MaxAmount \in Nat
    BY DEF ShopConstantsOK
  <1>2. CASE x = Nothing
    BY <1>1, <1>2 DEF Nothing
  <1>3. CASE x \in [kind : Kinds, amount : 1 .. MaxAmount]
    <2>1. x.kind \in Kinds /\ x.amount \in 1 .. MaxAmount
      BY <1>3
    <2>2. x # Nothing
      BY <1>1, <2>1 DEF Nothing
    <2> QED BY <1>1, <2>1, <2>2
  <1> QED BY <1>2, <1>3 DEF ItemIn

LEMMA MakesItem ==
  ASSUME NEW k \in Kinds, NEW n \in 1 .. MaxAmount
  PROVE  [kind |-> k, amount |-> n] \in ItemIn(Kinds)
  BY DEF ItemIn

(* n pieces of k go into slot j: a free one, or the one with this kind. *)
Into(N, inv, k, n, new, j) ==
  /\ inv[j] = Nothing \/ inv[j].kind = k
  /\ inv[j].amount + n \in 1 .. MaxAmount
  /\ k \in Stackable => \A i \in 1 .. N : inv[i].kind = k => inv[j].kind = k
  /\ new = [inv EXCEPT ![j] = [kind |-> k, amount |-> inv[j].amount + n]]
Grown(N, inv, k, n, new) == new = inv \/ \E j \in 1 .. N : Into(N, inv, k, n, new, j)

(* additem of what is not too heavy. *)
Put(inv, k, n) ==
  LET stack == StackOf(inv, k) IN
  IF stack # {}
  THEN IF n > MaxAmount - inv[First(stack)].amount THEN inv
       ELSE [inv EXCEPT ![First(stack)].amount = @ + n]
  ELSE IF FreeSlots(inv) = {} THEN inv
       ELSE [inv EXCEPT ![First(FreeSlots(inv))] = [kind |-> k, amount |-> n]]

LEMMA PutGrows ==
  ASSUME ShopConstantsOK, NEW N \in Nat, NEW inv \in Bags(N), NEW k \in Kinds, NEW n \in 1 .. MaxAmount
  PROVE  Grown(N, inv, k, n, Put(inv, k, n))
  <1> DEFINE stack == StackOf(inv, k)
             free == FreeSlots(inv)
  <1>1. \A i \in 1 .. N : inv[i] \in ItemIn(Kinds)
    BY DEF Bags
  <1>2. DOMAIN inv = 1 .. N /\ stack \in SUBSET (1 .. N) /\ free \in SUBSET (1 .. N)
    BY DEF Bags, StackOf, FreeSlots
  <1>3. stack \in SUBSET Nat /\ free \in SUBSET Nat
    BY <1>2
  <1>4. MaxAmount \in Nat /\ n \in Nat /\ n >= 1
    BY DEF ShopConstantsOK
  <1>5. CASE stack # {}
    <2> DEFINE j == First(stack)
    <2>1. j \in stack
      BY <1>3, <1>5, FirstIsIn
    <2>2. j \in 1 .. N /\ inv[j].kind = k
      BY <2>1, <1>2 DEF StackOf
    <2>3. inv[j] \in ItemIn(Kinds) /\ inv[j] # Nothing
      BY <1>1, <2>2 DEF Nothing, ShopConstantsOK
    <2>4. inv[j] = [kind |-> k, amount |-> inv[j].amount] /\ inv[j].amount \in 1 .. MaxAmount
      BY <2>2, <2>3 DEF ItemIn
    <2>5. Put(inv, k, n) = IF n > MaxAmount - inv[j].amount THEN inv
                           ELSE [inv EXCEPT ![j].amount = @ + n]
      BY <1>5 DEF Put
    <2> HIDE DEF j
    <2>6. CASE n > MaxAmount - inv[j].amount
      BY <2>5, <2>6 DEF Grown
    <2>7. CASE ~(n > MaxAmount - inv[j].amount)
      <3>1. Put(inv, k, n) = [inv EXCEPT ![j].amount = @ + n]
        BY <2>5, <2>7
      <3>2. [inv EXCEPT ![j].amount = @ + n] = [inv EXCEPT ![j] = [kind |-> k, amount |-> inv[j].amount + n]]
        <4> DEFINE x == inv[j]
        <4>1. x \in [kind : Kinds, amount : 1 .. MaxAmount] /\ x.kind = k
          BY <2>2, <2>3 DEF ItemIn
        <4>2. [x EXCEPT !.amount = @ + n] = [kind |-> k, amount |-> x.amount + n]
          <5> HIDE DEF x
          <5> QED BY <4>1
        <4>3. [inv EXCEPT ![j].amount = @ + n] = [inv EXCEPT ![j] = [x EXCEPT !.amount = @ + n]]
          OBVIOUS
        <4> QED BY <4>2, <4>3
      <3>3. inv[j].amount + n \in 1 .. MaxAmount
        BY <1>4, <2>4, <2>7
      <3>4. Into(N, inv, k, n, Put(inv, k, n), j)
        BY <2>2, <3>1, <3>2, <3>3 DEF Into
      <3> QED BY <2>2, <3>4 DEF Grown
    <2> QED BY <2>6, <2>7
  <1>6. CASE stack = {} /\ free = {}
    BY <1>6 DEF Put, Grown
  <1>7. CASE stack = {} /\ free # {}
    <2> DEFINE j == First(free)
    <2>1. j \in free
      BY <1>3, <1>7, FirstIsIn
    <2>2. j \in 1 .. N /\ inv[j] = Nothing
      BY <2>1, <1>2 DEF FreeSlots
    <2>3. inv[j].amount = 0
      BY <2>2 DEF Nothing
    <2>4. Put(inv, k, n) = [inv EXCEPT ![j] = [kind |-> k, amount |-> n]]
      BY <1>7 DEF Put
    <2>5. k \in Stackable => \A i \in 1 .. N : inv[i].kind # k
      BY <1>2, <1>7 DEF StackOf
    <2> HIDE DEF j
    <2>6. inv[j].amount + n = n
      BY <1>4, <2>3
    <2>7. Into(N, inv, k, n, Put(inv, k, n), j)
      BY <2>2, <2>4, <2>5, <2>6 DEF Into
    <2> QED BY <2>2, <2>7 DEF Grown
  <1> QED BY <1>5, <1>6, <1>7

LEMMA GrownType ==
  ASSUME ShopConstantsOK, NEW N \in Nat, NEW inv \in Bags(N), NEW k \in Kinds, NEW n \in 1 .. MaxAmount,
         NEW new, Grown(N, inv, k, n, new)
  PROVE  /\ new \in Bags(N)
         /\ Stacked(inv) => Stacked(new)
  <1>1. CASE new = inv
    BY <1>1
  <1>2. ASSUME NEW j \in 1 .. N, Into(N, inv, k, n, new, j)
        PROVE  new \in Bags(N) /\ (Stacked(inv) => Stacked(new))
    <2> DEFINE y == [kind |-> k, amount |-> inv[j].amount + n]
    <2>1. y \in ItemIn(Kinds) /\ y.kind = k
      BY <1>2, MakesItem DEF Into
    <2>2. new = [inv EXCEPT ![j] = y]
      BY <1>2 DEF Into
    <2> HIDE DEF y
    <2>3. new \in Bags(N) /\ new[j] = y /\ \A i \in 1 .. N \ {j} : new[i] = inv[i]
      BY <2>1, <2>2 DEF Bags
    <2>5. DOMAIN inv = 1 .. N /\ DOMAIN new = 1 .. N
      BY <2>3 DEF Bags
    <2>4. ASSUME Stacked(inv), NEW x \in Stackable, NEW a \in 1 .. N, NEW b \in 1 .. N,
                 new[a].kind = x, new[b].kind = x
          PROVE  a = b
      <3>1. \A i \in 1 .. N : new[i].kind = x => (i = j /\ x = k) \/ inv[i].kind = x
        BY <2>1, <2>3, <2>4
      <3>2. \A c, d \in 1 .. N : inv[c].kind = x /\ inv[d].kind = x => c = d
        BY <2>4, <2>5 DEF Stacked
      <3>3. \A i \in 1 .. N : x = k /\ inv[i].kind = x => i = j
        BY <1>2, <2>4, <3>2 DEF Into
      <3> QED BY <2>1, <2>3, <2>4, <3>1, <3>2, <3>3
    <2> QED BY <2>3, <2>4, <2>5 DEF Stacked
  <1> QED BY <1>1, <1>2 DEF Grown

(* n pieces leave slot i, if they are there. *)
LEMMA DeletedType ==
  ASSUME ShopConstantsOK, NEW N \in Nat, NEW inv \in Bags(N), NEW i \in 1 .. N, NEW n \in Nat
  PROVE  /\ delitem(inv, i, n) \in Bags(N)
         /\ \A j \in 1 .. N \ {i} : delitem(inv, i, n)[j] = inv[j]
         /\ \/ inv[i].amount < n /\ delitem(inv, i, n)[i] = inv[i]
            \/ inv[i].amount = n /\ delitem(inv, i, n)[i] = Nothing
            \/ inv[i].amount > n /\ delitem(inv, i, n)[i] = [kind |-> inv[i].kind, amount |-> inv[i].amount - n]
         /\ delitem(inv, i, n)[i] \in {Nothing} \cup {x \in ItemIn(Kinds) : x.kind = inv[i].kind}
         /\ Stacked(inv) => Stacked(delitem(inv, i, n))
  <1>1. inv[i] \in ItemIn(Kinds)
    BY DEF Bags
  <1>2. /\ inv[i].amount \in Nat /\ MaxAmount \in Nat
        /\ inv[i] # Nothing => inv[i].kind \in Kinds /\ inv[i].amount \in 1 .. MaxAmount
        /\ inv[i] = Nothing => inv[i].amount = 0
    BY <1>1, ItemFacts
  <1> DEFINE y == CASE inv[i].amount < n -> inv[i]
                    [] inv[i].amount = n -> Nothing
                    [] OTHER -> [kind |-> inv[i].kind, amount |-> inv[i].amount - n]
             new == delitem(inv, i, n)
  <1>3. new = [inv EXCEPT ![i] = y]
    BY DEF delitem
  <1>4. \/ inv[i].amount < n /\ y = inv[i]
        \/ inv[i].amount = n /\ y = Nothing
        \/ inv[i].amount > n /\ y = [kind |-> inv[i].kind, amount |-> inv[i].amount - n]
    <2>1. CASE inv[i].amount < n
      BY <2>1
    <2>2. CASE inv[i].amount = n
      BY <1>2, <2>2
    <2>3. CASE inv[i].amount > n
      <3>1. inv[i] # Nothing
        BY <1>2, <2>3
      <3>2. y = [kind |-> inv[i].kind, amount |-> inv[i].amount - n]
        BY <1>2, <2>3
      <3> HIDE DEF y
      <3> QED BY <2>3, <3>2
    <2> HIDE DEF y
    <2> QED BY <1>2, <2>1, <2>2, <2>3
  <1> HIDE DEF y, new
  <1>5. y \in ItemIn(Kinds) /\ (y = Nothing \/ y.kind = inv[i].kind)
    <2>1. CASE inv[i].amount > n /\ y = [kind |-> inv[i].kind, amount |-> inv[i].amount - n]
      <3>1. inv[i].kind \in Kinds /\ inv[i].amount - n \in 1 .. MaxAmount
        BY <1>2, <2>1
      <3> QED BY <2>1, <3>1, MakesItem
    <2>2. Nothing \in ItemIn(Kinds)
      BY DEF ItemIn
    <2> QED BY <1>1, <1>4, <2>1, <2>2
  <1>6. new \in Bags(N) /\ new[i] = y /\ \A j \in 1 .. N \ {i} : new[j] = inv[j]
    BY <1>3, <1>5 DEF Bags
  <1>7. ASSUME Stacked(inv) PROVE Stacked(new)
    <2>1. \A x \in Stackable : x # Void
      BY DEF ShopConstantsOK
    <2>2. \A x \in Stackable, j \in 1 .. N : new[j].kind = x => inv[j].kind = x
      BY <1>5, <1>6, <1>7, <2>1 DEF Nothing
    <2>3. DOMAIN inv = 1 .. N /\ DOMAIN new = 1 .. N
      BY <1>6 DEF Bags
    <2> QED BY <1>7, <2>2, <2>3 DEF Stacked
  <1>8. /\ \/ inv[i].amount < n /\ new[i] = inv[i]
           \/ inv[i].amount = n /\ new[i] = Nothing
           \/ inv[i].amount > n /\ new[i] = [kind |-> inv[i].kind, amount |-> inv[i].amount - n]
        /\ new[i] \in {Nothing} \cup {x \in ItemIn(Kinds) : x.kind = inv[i].kind}
    BY <1>4, <1>5, <1>6
  <1> QED BY <1>6, <1>7, <1>8 DEF new

-----------------------------------------------------------------------------
(* What the receiver of an order gets, one line after the other. *)
AddOne(p, i, o) == additem(i, o.kind, o.amount, WeightIn(i) + Weight[o.kind] * o.amount > max_weight[p])

(* A fold over a sequence is what its recursive function says of the       *)
(* numbers of its entries; the function exists for all sets of them.       *)
Step(p, inv, order, g, s) ==
  IF s = {} THEN inv ELSE AddOne(p, g[s \ {Max(s)}], order[Max(s)])
Folds(p, inv, order, g, S) == g = [s \in S |-> Step(p, inv, order, g, s)]

LEMMA MaxFacts ==
  ASSUME NEW N \in Nat, NEW s \in SUBSET (1 .. N), s # {}
  PROVE  Max(s) \in s /\ \A y \in s : y <= Max(s)
  <1>1. PICK m \in s : \A i \in s : i <= m
    BY Greatest
  <1>2. m \in s /\ \A i \in s : m >= i
    BY <1>1
  <1>3. Max(s) \in s /\ \A y \in s : Max(s) >= y
    BY <1>2 DEF Max
  <1>4. \A y \in s : y \in Int
    OBVIOUS
  <1> QED BY <1>3, <1>4

LEMMA FoldExists ==
  ASSUME NEW p, NEW inv, NEW order, NEW M \in Nat
  PROVE  \E g : Folds(p, inv, order, g, SUBSET (1 .. M))
  <1> DEFINE Good(n) == \E g : Folds(p, inv, order, g, SUBSET (1 .. n))
             Bad == {n \in 0 .. M : ~Good(n)}
  <1>1. SUFFICES ASSUME Bad # {} PROVE FALSE
    OBVIOUS
  <1>2. PICK n \in Bad : \A k \in Bad : n <= k
    <2>1. Bad \in SUBSET Nat
      OBVIOUS
    <2> HIDE DEF Bad
    <2> QED BY <1>1, <2>1, Additive!LeastElement
  <1>3. n \in 0 .. M /\ ~Good(n)
    BY <1>2
  <1>4. CASE n = 0
    <2> DEFINE g == [s \in SUBSET (1 .. 0) |-> inv]
    <2>1. \A s \in SUBSET (1 .. 0) : s = {}
      OBVIOUS
    <2>2. Folds(p, inv, order, g, SUBSET (1 .. 0))
      BY <2>1 DEF Folds, Step
    <2> HIDE DEF g
    <2>3. Good(0)
      BY <2>2
    <2> HIDE DEF Good
    <2> QED BY <1>3, <1>4, <2>3
  <1>5. CASE n # 0
    <2>1. n - 1 \in 0 .. M /\ Good(n - 1)
      <3> HIDE DEF Good
      <3>1. n - 1 \in 0 .. M /\ ~(n <= n - 1)
        BY <1>3, <1>5
      <3> QED BY <1>2, <3>1
    <2>2. PICK g : Folds(p, inv, order, g, SUBSET (1 .. (n - 1)))
      BY <2>1
    <2> DEFINE h == [s \in SUBSET (1 .. n) |-> Step(p, inv, order, g, s)]
    <2>3. \A s \in SUBSET (1 .. n) : s # {} => s \ {Max(s)} \in SUBSET (1 .. (n - 1))
      <3> SUFFICES ASSUME NEW s \in SUBSET (1 .. n), s # {}, NEW y \in s, y # Max(s)
                   PROVE  y \in 1 .. (n - 1)
        OBVIOUS
      <3>1. n \in Nat
        BY <1>3
      <3>2. Max(s) \in 1 .. n /\ y \in 1 .. n /\ y <= Max(s)
        BY <3>1, MaxFacts
      <3> QED BY <3>1, <3>2
    <2>4. \A s \in SUBSET (1 .. (n - 1)) : h[s] = g[s]
      <3> SUFFICES ASSUME NEW s \in SUBSET (1 .. (n - 1)) PROVE h[s] = g[s]
        OBVIOUS
      <3>1. s \in SUBSET (1 .. n)
        BY <1>3
      <3>2. g[s] = Step(p, inv, order, g, s)
        BY <2>2 DEF Folds
      <3> QED BY <3>1, <3>2
    <2>5. h = [s \in SUBSET (1 .. n) |-> h[s]] /\ \A s \in SUBSET (1 .. n) : h[s] = Step(p, inv, order, g, s)
      OBVIOUS
    <2> HIDE DEF h
    <2>6. \A s \in SUBSET (1 .. n) : h[s] = Step(p, inv, order, h, s)
      <3> SUFFICES ASSUME NEW s \in SUBSET (1 .. n) PROVE h[s] = Step(p, inv, order, h, s)
        OBVIOUS
      <3>1. h[s] = Step(p, inv, order, g, s)
        BY <2>5
      <3>2. CASE s = {}
        BY <3>1, <3>2 DEF Step
      <3>3. CASE s # {}
        <4>1. h[s \ {Max(s)}] = g[s \ {Max(s)}]
          BY <2>3, <2>4, <3>3
        <4> QED BY <3>1, <3>3, <4>1 DEF Step
      <3> QED BY <3>2, <3>3
    <2>7. Folds(p, inv, order, h, SUBSET (1 .. n))
      BY <2>5, <2>6 DEF Folds
    <2>8. Good(n)
      BY <2>7
    <2> HIDE DEF Good
    <2> QED BY <1>3, <2>8
  <1> QED BY <1>4, <1>5

(* F is the inventory after each line of an order. *)
Fills(p, inv, order, M, F) ==
  /\ F[0] = inv /\ F[M] = Received(p, inv, order)
  /\ \A m \in 1 .. M : F[m] = AddOne(p, F[m - 1], order[m])

LEMMA ReceivedSteps ==
  ASSUME NEW p, NEW inv, NEW order, NEW M \in Nat, DOMAIN order = 1 .. M
  PROVE  \E F : Fills(p, inv, order, M, F)
  <1>1. \E g : Folds(p, inv, order, g, SUBSET (1 .. M))
    BY FoldExists
  <1> DEFINE g == CHOOSE g : Folds(p, inv, order, g, SUBSET (1 .. M))
             F == [m \in 0 .. M |-> g[1 .. m]]
  <1>2. Received(p, inv, order) = g[1 .. M]
    BY DEF Received, FoldLeft, MapThenFoldSet, Folds, Step, AddOne
  <1>3. Folds(p, inv, order, g, SUBSET (1 .. M))
    BY <1>1
  <1> HIDE DEF g
  <1>4. \A s \in SUBSET (1 .. M) : g[s] = Step(p, inv, order, g, s)
    BY <1>3 DEF Folds
  <1>5. F[0] = inv
    <2>1. (1 .. 0) = {} /\ {} \in SUBSET (1 .. M) /\ 0 \in 0 .. M
      OBVIOUS
    <2>2. F[0] = g[{}]
      BY <2>1
    <2> QED BY <1>4, <2>1, <2>2 DEF Step
  <1>6. F[M] = g[1 .. M]
    OBVIOUS
  <1>7. ASSUME NEW m \in 1 .. M PROVE F[m] = AddOne(p, F[m - 1], order[m])
    <2> DEFINE s == 1 .. m
    <2>0. m \in Nat /\ m \in 0 .. M /\ m - 1 \in 0 .. M /\ m \in s
      OBVIOUS
    <2>1. s \in SUBSET (1 .. M) /\ s # {}
      <3>1. \A x \in s : x \in 1 .. M
        OBVIOUS
      <3> HIDE DEF s
      <3> QED BY <2>0, <3>1
    <2>2. Max(s) = m
      <3>1. Max(s) \in s /\ m <= Max(s)
        BY <2>0, <2>1, MaxFacts
      <3>2. Max(s) \in Nat /\ Max(s) <= m
        BY <3>1
      <3> QED BY <2>0, <3>1, <3>2
    <2>3. s \ {m} = 1 .. (m - 1)
      OBVIOUS
    <2>4. F[m] = g[s] /\ F[m - 1] = g[1 .. (m - 1)]
      BY <2>0
    <2> HIDE DEF s, F
    <2> QED BY <1>4, <2>1, <2>2, <2>3, <2>4 DEF Step
  <1> HIDE DEF F
  <1>8. Fills(p, inv, order, M, F)
    BY <1>2, <1>5, <1>6, <1>7 DEF Fills
  <1> QED BY <1>8

LEMMA AddOneGrows ==
  ASSUME ShopConstantsOK, NEW N \in Nat, NEW inv \in Bags(N), NEW p,
         NEW o \in [kind : Kinds, amount : 1 .. MaxAmount]
  PROVE  Grown(N, inv, o.kind, o.amount, AddOne(p, inv, o))
  <1>1. AddOne(p, inv, o) = inv \/ AddOne(p, inv, o) = Put(inv, o.kind, o.amount)
    BY DEF AddOne, additem, Put
  <1>2. Grown(N, inv, o.kind, o.amount, Put(inv, o.kind, o.amount))
    BY PutGrows
  <1> QED BY <1>1, <1>2 DEF Grown

Orders(M) == [1 .. M -> [kind : Kinds, amount : 1 .. MaxAmount]]

LEMMA ReceivedType ==
  ASSUME ShopConstantsOK, NEW inv \in Bags(Slots), Stacked(inv), NEW p, NEW M \in Nat, NEW order \in Orders(M)
  PROVE  Received(p, inv, order) \in Bags(Slots) /\ Stacked(Received(p, inv, order))
  <1>0. PICK F : Fills(p, inv, order, M, F)
    <2>1. DOMAIN order = 1 .. M
      BY DEF Orders
    <2> QED BY <2>1, ReceivedSteps
  <1>1. /\ F[0] = inv /\ F[M] = Received(p, inv, order)
        /\ \A m \in 1 .. M : F[m] = AddOne(p, F[m - 1], order[m])
    BY <1>0 DEF Fills
  <1> DEFINE Good(m) == F[m] \in Bags(Slots) /\ Stacked(F[m])
             Bad == {m \in 0 .. M : ~Good(m)}
  <1>2. SUFFICES ASSUME Bad # {} PROVE FALSE
    BY <1>1
  <1>3. PICK m \in Bad : \A k \in Bad : m <= k
    <2>1. Bad \in SUBSET Nat
      OBVIOUS
    <2> HIDE DEF Bad
    <2> QED BY <1>2, <2>1, Additive!LeastElement
  <1>4. m \in 1 .. M
    <2>1. m \in 0 .. M /\ m # 0
      BY <1>1, <1>3
    <2> QED BY <2>1
  <1>5. Good(m - 1)
    <2> HIDE DEF Good
    <2>1. m - 1 \in 0 .. M /\ ~(m <= m - 1)
      BY <1>4
    <2> QED BY <1>3, <2>1
  <1> DEFINE i == F[m - 1]
             o == order[m]
  <1>6. o \in [kind : Kinds, amount : 1 .. MaxAmount] /\ F[m] = AddOne(p, i, o) /\ Slots \in Nat
    BY <1>1, <1>4 DEF Orders, ShopConstantsOK
  <1>7. i \in Bags(Slots) /\ Stacked(i)
    BY <1>5
  <1> HIDE DEF i, o
  <1>8. Grown(Slots, i, o.kind, o.amount, F[m])
    BY <1>6, <1>7, AddOneGrows
  <1>9. o.kind \in Kinds /\ o.amount \in 1 .. MaxAmount
    BY <1>6
  <1>10. F[m] \in Bags(Slots) /\ Stacked(F[m])
    BY <1>6, <1>7, <1>8, <1>9, GrownType
  <1> QED BY <1>3, <1>10

-----------------------------------------------------------------------------
(* The inductive invariant.  A list is one of slots of the cart or of      *)
(* kinds that are wanted, each at most once, and what a visitor has seen   *)
(* of the shop that is still open has every line that is left of it.       *)
VendingLine == [index : 1 .. CartSlots, amount : 0 .. MaxAmount, value : Nat]
StoreLine == [kind : Wanted, amount : 0 .. MaxAmount, price : Nat]
IsVending(l) == /\ \E n \in Nat : l \in [1 .. n -> VendingLine]
                /\ \A i, j \in DOMAIN l : l[i].index = l[j].index => i = j
IsStore(l) == /\ \E n \in Nat : l \in [1 .. n -> StoreLine]
              /\ \A i, j \in DOMAIN l : l[i].kind = l[j].kind => i = j
Fits(kind, l) == /\ kind = "vending" => IsVending(l)
                 /\ kind = "buyingstore" => IsStore(l)
                 /\ kind = "none" => l = <<>>
LeftOf(l, m) == \A i \in DOMAIN l : \E j \in DOMAIN m : l[i].index = m[j].index /\ l[i].value = m[j].value

Flags ==
  /\ online \subseteq Players
  /\ shop \in [Players -> {"none", "vending", "buyingstore"}]
  /\ prevend \in [Players -> {"no", "wait", "window"}]
  /\ uid \in [Players -> 0 .. nextid] /\ nextid \in 0 .. MaxEvents
  /\ zenylimit \in [Players -> 0 .. MaxZeny]
  /\ autotrade \in [Players -> BOOLEAN]
  /\ max_weight \in [Players -> {Strong, Weak}]
  /\ events \in 0 .. MaxEvents
Owned ==
  /\ zeny \in [Players -> 0 .. MaxZeny]
  /\ inventory \in [Players -> Bags(Slots)] /\ \A p \in Players : Stacked(inventory[p])
  /\ cart \in [Players -> Bags(CartSlots)]
Replies == {Saved} \cup {Loaded(c) : c \in Bags(CartSlots)}
Stores == stored \in [Players -> Bags(CartSlots)] /\ reply \in [Players -> Seq(Replies)]
Lists == list = [p \in Players |-> list[p]] /\ \A p \in Players : Fits(shop[p], list[p])
Open(v) == shop[v.owner] # "none" /\ uid[v.owner] = v.uid
View(b, v) ==
  v # NotSeen =>
    /\ v.owner \in Players \ {b} /\ v.uid \in 0 .. nextid
    /\ IsVending(v.list) \/ IsStore(v.list)
    /\ Open(v) /\ shop[v.owner] = "vending" => IsVending(v.list) /\ LeftOf(list[v.owner], v.list)
Views == seen = [b \in Players |-> seen[b]] /\ \A b \in Players : View(b, seen[b])
ShopInv == Flags /\ Owned /\ Stores /\ Lists /\ Views

LEMMA TypesHold == ASSUME ShopInv, ShopConstantsOK PROVE ShopTypes
  <1>1. \A p \in Players : uid[p] \in 0 .. MaxEvents
    BY DEF ShopInv, Flags, ShopConstantsOK
  <1>2. ASSUME NEW p \in Players, NEW j \in DOMAIN list[p] PROVE list[p][j].amount \in 0 .. MaxAmount
    <2>1. Fits(shop[p], list[p]) /\ shop[p] \in {"none", "vending", "buyingstore"}
      BY DEF ShopInv, Lists, Flags
    <2>2. CASE shop[p] = "vending"
      BY <1>2, <2>1, <2>2 DEF Fits, IsVending, VendingLine
    <2>3. CASE shop[p] = "buyingstore"
      BY <1>2, <2>1, <2>3 DEF Fits, IsStore, StoreLine
    <2>4. CASE shop[p] = "none"
      BY <1>2, <2>1, <2>4 DEF Fits
    <2> QED BY <2>1, <2>2, <2>3, <2>4
  <1> QED BY <1>1, <1>2 DEF ShopInv, Flags, Owned, Bags, ShopTypes

LEMMA ShopFirst == ASSUME ShopConstantsOK, ShopInit PROVE ShopInv
  <1>1. Flags
    BY DEF ShopInit, Flags, ShopConstantsOK
  <1>2. Owned
    BY DEF ShopInit, Owned, Bags, ShopConstantsOK
  <1>3. Stores
    <2>1. <<>> \in Seq(Replies)
      OBVIOUS
    <2> QED BY <2>1 DEF ShopInit, Stores, Bags, ShopConstantsOK
  <1>4. Lists /\ Views
    BY DEF ShopInit, Lists, Fits, Views, View
  <1> QED BY <1>1, <1>2, <1>3, <1>4 DEF ShopInv

(* Nobody opens, closes or looks at a shop. *)
LEMMA NothingListed ==
  ASSUME Lists, Views, UNCHANGED <<shop, uid, list, seen, nextid>>
  PROVE  Lists' /\ Views'
  BY DEF Lists, Views, View, Open

LEMMA SavesType ==
  ASSUME Stores, NEW p \in Players, cart' \in [Players -> Bags(CartSlots)], Saves(p)
  PROVE  Stores'
  <1>1. Saved \in Replies
    BY DEF Replies
  <1>2. reply' \in [Players -> Seq(Replies)]
    BY <1>1 DEF Stores, Saves
  <1> QED BY <1>2 DEF Stores, Saves

LEMMA ClosedLists ==
  ASSUME Lists, Views, Flags, NEW p \in Players, Closed(p), UNCHANGED <<seen, nextid>>
  PROVE  Lists' /\ Views'
  <1>1. /\ shop' = [shop EXCEPT ![p] = "none"] /\ uid' = [uid EXCEPT ![p] = 0]
        /\ list' = [list EXCEPT ![p] = <<>>]
    BY DEF Closed
  <1>2. DOMAIN list = Players /\ DOMAIN shop = Players /\ DOMAIN uid = Players
    BY DEF Lists, Flags
  <1>3. Lists'
    BY <1>1, <1>2 DEF Lists, Fits
  <1>4. ASSUME NEW b \in Players PROVE View(b, seen[b])'
    <2>0. PICK v : v = seen[b]
      OBVIOUS
    <2>1. View(b, v) /\ seen'[b] = v /\ nextid' = nextid
      BY <2>0 DEF Views
    <2>2. ASSUME v.owner \in Players, v.owner # p
          PROVE  shop'[v.owner] = shop[v.owner] /\ uid'[v.owner] = uid[v.owner] /\ list'[v.owner] = list[v.owner]
      BY <1>1, <1>2, <2>2
    <2>3. v.owner = p => shop'[v.owner] = "none"
      BY <1>1, <1>2
    <2>4. View(b, v)'
      BY <2>1, <2>2, <2>3 DEF View, Open
    <2> QED BY <2>1, <2>4
  <1>5. seen' = [b \in Players |-> seen'[b]]
    BY DEF Views
  <1> QED BY <1>3, <1>4, <1>5 DEF Views

-----------------------------------------------------------------------------
(* Items move, and scripts interfere. *)

(* One piece of k more. *)
LEMMA OneMore ==
  ASSUME ShopConstantsOK, NEW N \in Nat, NEW inv \in Bags(N), NEW k \in Kinds, 1 \in 1 .. MaxAmount,
         NEW new, new = inv \/ new = Put(inv, k, 1)
  PROVE  new \in Bags(N) /\ (Stacked(inv) => Stacked(new))
  <1>1. CASE new = inv
    BY <1>1
  <1>2. CASE new = Put(inv, k, 1)
    <2>1. Grown(N, inv, k, 1, new)
      BY <1>2, PutGrows
    <2> QED BY <2>1, GrownType
  <1> QED BY <1>1, <1>2

(* One piece less, of which there is one at least. *)
LEMMA OneLess ==
  ASSUME ShopConstantsOK, NEW N \in Nat, NEW inv \in Bags(N), NEW i \in 1 .. N
  PROVE  delitem(inv, i, 1) \in Bags(N) /\ (Stacked(inv) => Stacked(delitem(inv, i, 1)))
  <1>1. 1 \in Nat
    OBVIOUS
  <1> QED BY <1>1, DeletedType

LEMMA PutInCart ==
  ASSUME ShopConstantsOK, ShopInv, NEW p \in Players, NEW i \in 1 .. Slots, pc_putitemtocart(p, i)
  PROVE  ShopInv'
  <1> DEFINE k == inventory[p][i].kind
             filled == additem(cart[p], k, 1, FALSE)
             less == delitem(inventory[p], i, 1)
  <1>1. /\ cart' = [cart EXCEPT ![p] = filled] /\ inventory' = [inventory EXCEPT ![p] = less]
        /\ UNCHANGED <<online, stalls, server, seen, max_weight, zeny, nextid, events>>
        /\ inventory[p][i] # Nothing
    BY DEF pc_putitemtocart
  <1>2. Slots \in Nat /\ CartSlots \in Nat
    BY DEF ShopConstantsOK
  <1>3. inventory[p] \in Bags(Slots) /\ cart[p] \in Bags(CartSlots) /\ Stacked(inventory[p])
    BY DEF ShopInv, Owned
  <1>4. k \in Kinds /\ 1 \in 1 .. MaxAmount
    <2>1. inventory[p][i] \in ItemIn(Kinds)
      BY <1>3 DEF Bags
    <2> QED BY <1>1, <2>1, ItemFacts
  <1>5. filled = cart[p] \/ filled = Put(cart[p], k, 1)
    BY DEF additem, Put
  <1> HIDE DEF k, filled, less
  <1>6. filled \in Bags(CartSlots)
    BY <1>2, <1>3, <1>4, <1>5, OneMore
  <1>7. less \in Bags(Slots) /\ Stacked(less)
    BY <1>2, <1>3, OneLess DEF less
  <1>8. Owned'
    BY <1>1, <1>6, <1>7 DEF ShopInv, Owned
  <1>9. Flags' /\ Stores'
    BY <1>1 DEF ShopInv, Flags, Stores, stalls, server
  <1>10. Lists' /\ Views'
    BY <1>1, NothingListed DEF ShopInv, stalls
  <1> QED BY <1>8, <1>9, <1>10 DEF ShopInv

LEMMA GetFromCart ==
  ASSUME ShopConstantsOK, ShopInv, NEW p \in Players, NEW i \in 1 .. CartSlots, pc_getitemfromcart(p, i)
  PROVE  ShopInv'
  <1> DEFINE k == cart[p][i].kind
             filled == additem(inventory[p], k, 1, WeightOf(p) + Weight[k] > max_weight[p])
             less == delitem(cart[p], i, 1)
  <1>1. /\ inventory' = [inventory EXCEPT ![p] = filled] /\ cart' = [cart EXCEPT ![p] = less]
        /\ UNCHANGED <<online, stalls, server, seen, max_weight, zeny, nextid, events>>
        /\ cart[p][i] # Nothing
    BY DEF pc_getitemfromcart
  <1>2. Slots \in Nat /\ CartSlots \in Nat
    BY DEF ShopConstantsOK
  <1>3. inventory[p] \in Bags(Slots) /\ cart[p] \in Bags(CartSlots) /\ Stacked(inventory[p])
    BY DEF ShopInv, Owned
  <1>4. k \in Kinds /\ 1 \in 1 .. MaxAmount
    <2>1. cart[p][i] \in ItemIn(Kinds)
      BY <1>3 DEF Bags
    <2> QED BY <1>1, <2>1, ItemFacts
  <1>5. filled = inventory[p] \/ filled = Put(inventory[p], k, 1)
    BY DEF additem, Put
  <1> HIDE DEF k, filled, less
  <1>6. filled \in Bags(Slots) /\ Stacked(filled)
    BY <1>2, <1>3, <1>4, <1>5, OneMore
  <1>7. less \in Bags(CartSlots)
    BY <1>2, <1>3, OneLess DEF less
  <1>8. Owned'
    BY <1>1, <1>6, <1>7 DEF ShopInv, Owned
  <1>9. Flags' /\ Stores'
    BY <1>1 DEF ShopInv, Flags, Stores, stalls, server
  <1>10. Lists' /\ Views'
    BY <1>1, NothingListed DEF ShopInv, stalls
  <1> QED BY <1>8, <1>9, <1>10 DEF ShopInv

LEMMA InterfereTypes ==
  ASSUME ShopConstantsOK, ShopInv, NEW p \in Players, Interferes(p)
  PROVE  events' \in 0 .. MaxEvents
  BY DEF ShopConstantsOK, ShopInv, Flags, Interferes

LEMMA TakenTypes ==
  ASSUME ShopConstantsOK, ShopInv, NEW p \in Players,
         \/ WeightDrops(p) \/ Costs(p)
         \/ \E i \in 1 .. CartSlots : TakenFromCart(p, i)
         \/ \E i \in 1 .. Slots : TakenFromBackpack(p, i)
  PROVE  ShopInv'
  <1>1. Interferes(p) /\ UNCHANGED <<online, stalls, server, seen, nextid>>
    BY DEF WeightDrops, Costs, TakenFromCart, TakenFromBackpack
  <1>2. max_weight' \in [Players -> {Strong, Weak}]
    BY DEF WeightDrops, Costs, TakenFromCart, TakenFromBackpack, ShopInv, Flags
  <1>3. Flags' /\ Stores' /\ Lists' /\ Views'
    <2>1. Flags' /\ Stores'
      BY <1>1, <1>2, InterfereTypes DEF ShopInv, Flags, Stores, stalls, server
    <2> QED BY <1>1, <2>1, NothingListed DEF ShopInv, stalls
  <1>4. Slots \in Nat /\ CartSlots \in Nat
    BY DEF ShopConstantsOK
  <1>5. Owned
    BY DEF ShopInv
  <1>6. Owned'
    <2>1. CASE WeightDrops(p)
      BY <1>5, <2>1 DEF WeightDrops, Owned, goods
    <2>2. CASE Costs(p)
      <3>1. zeny[p] \in 0 .. MaxZeny /\ MaxZeny \in Nat /\ zeny[p] > 0
        BY <1>5, <2>2 DEF Owned, Costs, ShopConstantsOK
      <3>2. zeny[p] - 1 \in 0 .. MaxZeny
        BY <3>1
      <3>3. zeny' = [zeny EXCEPT ![p] = @ - 1] /\ UNCHANGED <<inventory, cart>>
        BY <2>2 DEF Costs
      <3> QED BY <1>5, <3>2, <3>3 DEF Owned
    <2>3. ASSUME NEW i \in 1 .. CartSlots, TakenFromCart(p, i) PROVE Owned'
      <3> DEFINE less == delitem(cart[p], i, 1)
      <3>1. cart' = [cart EXCEPT ![p] = less] /\ UNCHANGED <<inventory, zeny>>
        BY <2>3 DEF TakenFromCart
      <3>2. cart[p] \in Bags(CartSlots)
        BY <1>5 DEF Owned
      <3>3. less \in Bags(CartSlots)
        BY <1>4, <3>2, OneLess
      <3> HIDE DEF less
      <3> QED BY <1>5, <3>1, <3>3 DEF Owned
    <2>4. ASSUME NEW i \in 1 .. Slots, TakenFromBackpack(p, i) PROVE Owned'
      <3> DEFINE less == delitem(inventory[p], i, 1)
      <3>1. inventory' = [inventory EXCEPT ![p] = less] /\ UNCHANGED <<cart, zeny>>
        BY <2>4 DEF TakenFromBackpack
      <3>2. inventory[p] \in Bags(Slots) /\ Stacked(inventory[p])
        BY <1>5 DEF Owned
      <3>3. less \in Bags(Slots) /\ Stacked(less)
        BY <1>4, <3>2, OneLess
      <3> HIDE DEF less
      <3> QED BY <1>5, <3>1, <3>3 DEF Owned
    <2> QED BY <2>1, <2>2, <2>3, <2>4
  <1> QED BY <1>3, <1>6 DEF ShopInv

-----------------------------------------------------------------------------
(* Carts and the char-server. *)

LEMMA PackedType ==
  ASSUME ShopConstantsOK, NEW c \in Bags(CartSlots)
  PROVE  Packed(c) \in Bags(CartSlots)
  <1> DEFINE S == {i \in 1 .. CartSlots : c[i] # Nothing}
             full == Entries(c, S)
  <1>1. S \in SUBSET (1 .. CartSlots) /\ CartSlots \in Nat
    BY DEF ShopConstantsOK
  <1> HIDE DEF S
  <1>2. Cardinality(S) \in Nat /\ InOrder(S) \in [1 .. Cardinality(S) -> S]
    BY <1>1, InOrderFacts
  <1>3. full = [j \in 1 .. Cardinality(S) |-> c[InOrder(S)[j]]] /\ Len(full) = Cardinality(S)
    BY <1>2 DEF Entries
  <1> HIDE DEF full
  <1>4. \A j \in 1 .. Cardinality(S) : full[j] \in ItemIn(Kinds)
    BY <1>1, <1>2, <1>3 DEF Bags
  <1>5. \A i \in 1 .. CartSlots : (IF i <= Len(full) THEN full[i] ELSE Nothing) \in ItemIn(Kinds)
    BY <1>1, <1>2, <1>3, <1>4 DEF ItemIn
  <1> QED BY <1>5 DEF Packed, Bags, S, full

LEMMA ReplyTypes ==
  ASSUME ShopConstantsOK, ShopInv, NEW p \in Players, ReceiveReply(p)
  PROVE  ShopInv'
  <1> DEFINE r == Head(reply[p])
             packed == Packed(stored[p])
  <1>1. /\ reply[p] # <<>> /\ reply[p] \in Seq(Replies)
        /\ UNCHANGED <<online, shop, uid, list, zenylimit, autotrade, stored, seen, max_weight, inventory, zeny,
                       nextid, events>>
    BY DEF ReceiveReply, ShopInv, Stores
  <1>2. r \in Replies /\ Tail(reply[p]) \in Seq(Replies)
    BY <1>1
  <1>3. r # Saved => r.cart \in Bags(CartSlots)
    BY <1>2 DEF Replies, Loaded
  <1>4. Loaded(packed) \in Replies
    <2>1. stored[p] \in Bags(CartSlots)
      BY DEF ShopInv, Stores
    <2>2. packed \in Bags(CartSlots)
      BY <2>1, PackedType
    <2> HIDE DEF packed
    <2> QED BY <2>2 DEF Replies
  <1>5. Append(Tail(reply[p]), Loaded(packed)) \in Seq(Replies)
    BY <1>2, <1>4
  <1>6. reply' \in [Players -> Seq(Replies)]
    <2>1. \/ reply' = [reply EXCEPT ![p] = Append(Tail(@), Loaded(packed))]
          \/ reply' = [reply EXCEPT ![p] = Tail(@)]
      BY DEF ReceiveReply
    <2> HIDE DEF packed
    <2> QED BY <1>2, <1>5, <2>1 DEF ShopInv, Stores
  <1>7. cart' \in [Players -> Bags(CartSlots)]
    <2>1. cart' = cart \/ (r # Saved /\ cart' = [cart EXCEPT ![p] = r.cart])
      BY DEF ReceiveReply
    <2> QED BY <1>3, <2>1 DEF ShopInv, Owned
  <1>8. prevend' \in [Players -> {"no", "wait", "window"}]
    <2>1. prevend' = prevend \/ prevend' = [prevend EXCEPT ![p] = "window"]
      BY DEF ReceiveReply
    <2> QED BY <2>1 DEF ShopInv, Flags
  <1>9. Flags' /\ Owned' /\ Stores'
    BY <1>1, <1>6, <1>7, <1>8 DEF ShopInv, Flags, Owned, Stores
  <1>10. Lists' /\ Views'
    BY <1>1, NothingListed DEF ShopInv
  <1> QED BY <1>9, <1>10 DEF ShopInv

LEMMA SaveTypes ==
  ASSUME ShopConstantsOK, ShopInv, NEW p \in Players, pc_autosave_cart(p) \/ SkillVending(p)
  PROVE  ShopInv'
  <1>1. /\ UNCHANGED <<online, shop, uid, list, zenylimit, autotrade, seen, max_weight, goods, nextid>>
        /\ Saves(p) \/ UNCHANGED server
    BY DEF pc_autosave_cart, SkillVending, stalls, goods, server
  <1>2. prevend' \in [Players -> {"no", "wait", "window"}]
    BY DEF pc_autosave_cart, SkillVending, ShopInv, Flags, stalls
  <1>3. events' \in 0 .. MaxEvents
    BY InterfereTypes DEF pc_autosave_cart, SkillVending, ShopInv, Flags
  <1>4. Flags' /\ Owned'
    BY <1>1, <1>2, <1>3 DEF ShopInv, Flags, Owned, goods
  <1>5. Stores'
    <2>1. cart' \in [Players -> Bags(CartSlots)]
      BY <1>4 DEF Owned
    <2>2. CASE Saves(p)
      BY <2>1, <2>2, SavesType DEF ShopInv
    <2>3. CASE UNCHANGED server
      BY <2>3 DEF ShopInv, Stores, server
    <2> QED BY <1>1, <2>2, <2>3
  <1>6. Lists' /\ Views'
    BY <1>1, NothingListed DEF ShopInv
  <1> QED BY <1>4, <1>5, <1>6 DEF ShopInv

LEMMA WaitTypes ==
  ASSUME ShopConstantsOK, ShopInv, NEW p \in Players, CancelVending(p) \/ Autotrade(p)
  PROVE  ShopInv'
  <1>1. UNCHANGED <<online, shop, uid, list, zenylimit, server, seen, max_weight, goods, nextid>>
    BY DEF CancelVending, Autotrade
  <1>2. /\ prevend' \in [Players -> {"no", "wait", "window"}]
        /\ autotrade' \in [Players -> BOOLEAN]
    BY DEF CancelVending, Autotrade, ShopInv, Flags
  <1>3. events' \in 0 .. MaxEvents
    BY InterfereTypes DEF CancelVending, Autotrade, ShopInv, Flags
  <1>4. Flags' /\ Owned' /\ Stores'
    BY <1>1, <1>2, <1>3 DEF ShopInv, Flags, Owned, Stores, goods, server
  <1>5. Lists' /\ Views'
    BY <1>1, NothingListed DEF ShopInv
  <1> QED BY <1>4, <1>5 DEF ShopInv

LEMMA ClosedFlags ==
  ASSUME ShopConstantsOK, Flags, NEW p \in Players, Closed(p), UNCHANGED nextid
  PROVE  /\ shop' \in [Players -> {"none", "vending", "buyingstore"}]
         /\ uid' \in [Players -> 0 .. nextid]
         /\ zenylimit' \in [Players -> 0 .. MaxZeny]
  <1>1. 0 \in 0 .. nextid /\ 0 \in 0 .. MaxZeny
    BY DEF ShopConstantsOK, Flags
  <1> QED BY <1>1 DEF Closed, Flags

LEMMA CloseTypes ==
  ASSUME ShopConstantsOK, ShopInv, NEW p \in Players, Close(p) \/ map_quit_shop(p)
  PROVE  ShopInv'
  <1>1. /\ Closed(p) /\ UNCHANGED <<prevend, autotrade, seen, max_weight, goods, nextid>>
        /\ Saves(p) \/ UNCHANGED server
        /\ online' = online \/ online' = online \ {p}
    BY DEF Close, map_quit_shop, goods, server
  <1>2. events' \in 0 .. MaxEvents
    BY InterfereTypes DEF Close, map_quit_shop, ShopInv, Flags
  <1>3. /\ shop' \in [Players -> {"none", "vending", "buyingstore"}]
        /\ uid' \in [Players -> 0 .. nextid]
        /\ zenylimit' \in [Players -> 0 .. MaxZeny]
    BY <1>1, ClosedFlags DEF ShopInv
  <1>4. Flags' /\ Owned'
    BY <1>1, <1>2, <1>3 DEF ShopInv, Flags, Owned, goods
  <1>5. Stores'
    <2>1. cart' \in [Players -> Bags(CartSlots)]
      BY <1>4 DEF Owned
    <2>2. CASE Saves(p)
      BY <2>1, <2>2, SavesType DEF ShopInv
    <2>3. CASE UNCHANGED server
      BY <2>3 DEF ShopInv, Stores, server
    <2> QED BY <1>1, <2>2, <2>3
  <1>6. Lists' /\ Views'
    BY <1>1, ClosedLists DEF ShopInv
  <1> QED BY <1>4, <1>5, <1>6 DEF ShopInv

-----------------------------------------------------------------------------
(* A shop opens: its number is new, so that nobody has seen it.            *)

LEMMA OpensLists ==
  ASSUME ShopConstantsOK, Lists, Views, Flags, NEW p \in Players, NEW kind \in {"vending", "buyingstore"}, NEW lines,
         Fits(kind, lines), Opens(p, kind, lines), UNCHANGED seen
  PROVE  /\ Lists' /\ Views'
         /\ shop' \in [Players -> {"none", "vending", "buyingstore"}]
         /\ uid' \in [Players -> 0 .. nextid'] /\ nextid' \in 0 .. MaxEvents
  <1>1. /\ shop' = [shop EXCEPT ![p] = kind] /\ uid' = [uid EXCEPT ![p] = nextid + 1]
        /\ list' = [list EXCEPT ![p] = lines] /\ nextid' = nextid + 1 /\ nextid + events < MaxEvents
    BY DEF Opens
  <1>2. /\ DOMAIN list = Players /\ DOMAIN shop = Players /\ DOMAIN uid = Players
        /\ nextid \in Nat /\ events \in Nat /\ MaxEvents \in Nat
        /\ uid \in [Players -> 0 .. nextid]
    BY DEF Lists, Flags, ShopConstantsOK
  <1>3. Lists'
    BY <1>1, <1>2 DEF Lists
  <1>4. ASSUME NEW b \in Players PROVE View(b, seen[b])'
    <2>0. PICK v : v = seen[b]
      OBVIOUS
    <2>1. View(b, v) /\ seen'[b] = v
      BY <2>0 DEF Views
    <2>2. ASSUME v.owner \in Players, v.owner # p
          PROVE  shop'[v.owner] = shop[v.owner] /\ uid'[v.owner] = uid[v.owner] /\ list'[v.owner] = list[v.owner]
      BY <1>1, <1>2, <2>2
    <2>3. v.owner = p => uid'[v.owner] = nextid + 1
      BY <1>1, <1>2
    <2>4. v.uid \in 0 .. nextid => v.uid \in 0 .. nextid' /\ v.uid # nextid + 1
      BY <1>1, <1>2
    <2>5. View(b, v)'
      BY <2>1, <2>2, <2>3, <2>4 DEF View, Open
    <2> QED BY <2>1, <2>5
  <1>5. seen' = [b \in Players |-> seen'[b]]
    BY DEF Views
  <1>6. nextid' \in 0 .. MaxEvents /\ nextid + 1 \in 0 .. nextid' /\ \A u \in 0 .. nextid : u \in 0 .. nextid'
    BY <1>1, <1>2
  <1>7. uid' \in [Players -> 0 .. nextid']
    BY <1>1, <1>2, <1>6
  <1>8. shop' \in [Players -> {"none", "vending", "buyingstore"}]
    BY <1>1 DEF Flags
  <1> QED BY <1>3, <1>4, <1>5, <1>6, <1>7, <1>8 DEF Views

LEMMA VendingTypes ==
  ASSUME ShopConstantsOK, ShopInv, NEW p \in Players, NEW S \in SUBSET (1 .. CartSlots),
         NEW n \in [S -> 1 .. MaxAmount], NEW v \in PriceTags, vending_openvending(p, S, n, v)
  PROVE  ShopInv'
  <1> DEFINE lines == [j \in 1 .. Cardinality(S) |->
                        LET i == InOrder(S)[j] IN [index |-> i, amount |-> n[i], value |-> v[i]]]
  <1>1. /\ Opens(p, "vending", lines) /\ Saves(p)
        /\ prevend' = [prevend EXCEPT ![p] = "no"]
        /\ UNCHANGED <<online, zenylimit, autotrade, seen, max_weight, goods, events>>
    BY DEF vending_openvending, goods
  <1>2. Fits("vending", lines)
    <2>1. CartSlots \in Nat /\ \A i \in 1 .. CartSlots : v[i] \in Nat
      BY DEF ShopConstantsOK
    <2> DEFINE C == Cardinality(S)
               O == InOrder(S)
    <2>2. C \in Nat /\ O \in [1 .. C -> S] /\ \A i, j \in 1 .. C : i # j => O[i] # O[j]
      BY <2>1, InOrderFacts
    <2>3. lines = [j \in 1 .. C |-> [index |-> O[j], amount |-> n[O[j]], value |-> v[O[j]]]]
      OBVIOUS
    <2> HIDE DEF lines, O, C
    <2>4. ASSUME NEW j \in 1 .. C
          PROVE  [index |-> O[j], amount |-> n[O[j]], value |-> v[O[j]]] \in VendingLine
      <3>1. O[j] \in S
        BY <2>2
      <3>2. O[j] \in 1 .. CartSlots /\ n[O[j]] \in 1 .. MaxAmount
        BY <3>1
      <3>3. v[O[j]] \in Nat
        BY <2>1, <3>2
      <3>4. n[O[j]] \in 0 .. MaxAmount
        BY <3>2
      <3> QED BY <3>2, <3>3, <3>4 DEF VendingLine
    <2>5. lines \in [1 .. C -> VendingLine]
      BY <2>3, <2>4
    <2>6. \A i, j \in DOMAIN lines : lines[i].index = lines[j].index => i = j
      BY <2>2, <2>3
    <2>7. IsVending(lines)
      BY <2>2, <2>5, <2>6 DEF IsVending
    <2> QED BY <2>7 DEF Fits
  <1> HIDE DEF lines
  <1>3. /\ Lists' /\ Views'
        /\ shop' \in [Players -> {"none", "vending", "buyingstore"}]
        /\ uid' \in [Players -> 0 .. nextid'] /\ nextid' \in 0 .. MaxEvents
    BY <1>1, <1>2, OpensLists DEF ShopInv
  <1>4. Flags' /\ Owned'
    BY <1>1, <1>3 DEF ShopInv, Flags, Owned, goods
  <1>5. Stores'
    <2>1. cart' \in [Players -> Bags(CartSlots)]
      BY <1>4 DEF Owned
    <2> QED BY <1>1, <2>1, SavesType DEF ShopInv
  <1> QED BY <1>3, <1>4, <1>5 DEF ShopInv

LEMMA SetToSeqFacts ==
  ASSUME NEW S, IsFiniteSet(S)
  PROVE  /\ Cardinality(S) \in Nat /\ SetToSeq(S) \in [1 .. Cardinality(S) -> S]
         /\ \A i, j \in 1 .. Cardinality(S) : SetToSeq(S)[i] = SetToSeq(S)[j] => i = j
  <1>1. Cardinality(S) \in Nat
    BY FS_CardinalityType
  <1>2. ExistsBijection(1 .. Cardinality(S), S)
    BY FS_CardinalityType
  <1>3. PICK f \in Bijection(1 .. Cardinality(S), S) : TRUE
    BY <1>2 DEF ExistsBijection
  <1>4. f \in [1 .. Cardinality(S) -> S] /\ IsInjective(f)
    BY DEF Bijection, Injection
  <1>5. SetToSeq(S) \in [1 .. Cardinality(S) -> S] /\ IsInjective(SetToSeq(S))
    BY <1>4 DEF SetToSeq
  <1> QED BY <1>1, <1>5 DEF IsInjective

LEMMA StoreTypes ==
  ASSUME ShopConstantsOK, ShopInv, NEW p \in Players, NEW S \in SUBSET Wanted, NEW n \in [S -> 1 .. MaxAmount],
         NEW v \in [S -> Offered], NEW limit \in 1 .. MaxZeny, buyingstore_create(p, S, n, v, limit)
  PROVE  ShopInv'
  <1> DEFINE lines == [j \in 1 .. Cardinality(S) |->
                        LET k == SetToSeq(S)[j] IN [kind |-> k, amount |-> n[k], price |-> v[k]]]
  <1>1. /\ Opens(p, "buyingstore", lines) /\ zenylimit' = [zenylimit EXCEPT ![p] = limit]
        /\ UNCHANGED <<online, prevend, server, autotrade, seen, max_weight, goods, events>>
    BY DEF buyingstore_create
  <1>2. Fits("buyingstore", lines)
    <2>1. IsFiniteSet(S) /\ Offered \subseteq Nat
      BY FS_Subset DEF ShopConstantsOK
    <2> DEFINE C == Cardinality(S)
               O == SetToSeq(S)
    <2>2. C \in Nat /\ O \in [1 .. C -> S] /\ \A i, j \in 1 .. C : O[i] = O[j] => i = j
      BY <2>1, SetToSeqFacts
    <2>3. lines = [j \in 1 .. C |-> [kind |-> O[j], amount |-> n[O[j]], price |-> v[O[j]]]]
      OBVIOUS
    <2> HIDE DEF lines, O, C
    <2>4. ASSUME NEW j \in 1 .. C
          PROVE  [kind |-> O[j], amount |-> n[O[j]], price |-> v[O[j]]] \in StoreLine
      <3>1. O[j] \in S
        BY <2>2
      <3>2. O[j] \in Wanted /\ n[O[j]] \in 1 .. MaxAmount /\ v[O[j]] \in Offered
        BY <3>1
      <3>3. n[O[j]] \in 0 .. MaxAmount
        BY <3>2
      <3>4. v[O[j]] \in Nat
        BY <2>1, <3>2
      <3> QED BY <3>2, <3>3, <3>4 DEF StoreLine
    <2>5. lines \in [1 .. C -> StoreLine]
      BY <2>3, <2>4
    <2>6. \A i, j \in DOMAIN lines : lines[i].kind = lines[j].kind => i = j
      BY <2>2, <2>3
    <2>7. IsStore(lines)
      BY <2>2, <2>5, <2>6 DEF IsStore
    <2> QED BY <2>7 DEF Fits
  <1> HIDE DEF lines
  <1>3. /\ Lists' /\ Views'
        /\ shop' \in [Players -> {"none", "vending", "buyingstore"}]
        /\ uid' \in [Players -> 0 .. nextid'] /\ nextid' \in 0 .. MaxEvents
    BY <1>1, <1>2, OpensLists DEF ShopInv
  <1>4. zenylimit' \in [Players -> 0 .. MaxZeny]
    BY <1>1 DEF ShopInv, Flags
  <1>5. Flags' /\ Owned' /\ Stores'
    BY <1>1, <1>3, <1>4 DEF ShopInv, Flags, Owned, Stores, goods, server
  <1> QED BY <1>3, <1>5 DEF ShopInv

LEMMA LookTypes ==
  ASSUME ShopConstantsOK, ShopInv, NEW p \in Players, NEW owner \in Players, OpenList(p, owner)
  PROVE  ShopInv'
  <1>0. PICK v : v = [owner |-> owner, uid |-> uid[owner], list |-> list[owner]]
    OBVIOUS
  <1>1. /\ seen' = [seen EXCEPT ![p] = v] /\ owner # p /\ shop[owner] # "none"
        /\ UNCHANGED <<online, stalls, server, max_weight, goods, nextid, events>>
    BY <1>0 DEF OpenList
  <1>2. Flags' /\ Owned' /\ Stores' /\ Lists'
    BY <1>1 DEF ShopInv, Flags, Owned, Stores, Lists, goods, server, stalls
  <1>3. View(p, v)
    <2>1. uid[owner] \in 0 .. nextid /\ shop[owner] \in {"vending", "buyingstore"} /\ Fits(shop[owner], list[owner])
      BY <1>1 DEF ShopInv, Flags, Lists
    <2>2. v.owner = owner /\ v.uid = uid[owner] /\ v.list = list[owner]
      BY <1>0
    <2>3. LeftOf(list[owner], list[owner])
      BY DEF LeftOf
    <2> QED BY <1>1, <2>1, <2>2, <2>3 DEF View, Fits
  <1>4. ASSUME NEW b \in Players PROVE View(b, seen[b])'
    <2>1. PICK w : w = seen'[b]
      OBVIOUS
    <2>2. View(b, w)
      <3>1. b = p => w = v
        BY <1>1, <2>1 DEF ShopInv, Views
      <3>2. b # p => w = seen[b]
        BY <1>1, <2>1 DEF ShopInv, Views
      <3>3. View(b, seen[b])
        BY DEF ShopInv, Views
      <3> QED BY <1>3, <3>1, <3>2, <3>3
    <2>3. View(b, w)'
      BY <1>1, <2>2 DEF View, Open, stalls
    <2> QED BY <2>1, <2>3
  <1>5. seen' = [b \in Players |-> seen'[b]]
    BY <1>1 DEF ShopInv, Views
  <1> QED BY <1>2, <1>4, <1>5 DEF ShopInv, Views

-----------------------------------------------------------------------------
(* Deals.  What a visitor has seen of the shop does not grow any more.     *)

LEMMA LaterViews ==
  ASSUME Views, nextid' = nextid, NEW b \in Players, seen' = [seen EXCEPT ![b] = NotSeen],
         \A o \in Players : \/ shop'[o] = "none"
                            \/ /\ shop'[o] = shop[o] /\ uid'[o] = uid[o]
                               /\ shop[o] = "vending" => LeftOf(list'[o], list[o])
  PROVE  Views'
  <1>1. ASSUME NEW p \in Players PROVE View(p, seen[p])'
    <2>0. PICK v : v = seen[p]
      OBVIOUS
    <2>1. View(p, v) /\ seen'[p] \in {v, NotSeen}
      BY <2>0 DEF Views
    <2>2. ASSUME v # NotSeen PROVE View(p, v)'
      <3>1. /\ v.owner \in Players \ {p} /\ v.uid \in 0 .. nextid
            /\ IsVending(v.list) \/ IsStore(v.list)
            /\ Open(v) /\ shop[v.owner] = "vending" => IsVending(v.list) /\ LeftOf(list[v.owner], v.list)
        BY <2>1, <2>2 DEF View
      <3>2. ASSUME Open(v)', shop'[v.owner] = "vending" PROVE IsVending(v.list) /\ LeftOf(list'[v.owner], v.list)
        <4>1. /\ shop[v.owner] = "vending" /\ uid'[v.owner] = uid[v.owner]
              /\ LeftOf(list'[v.owner], list[v.owner])
          BY <3>1, <3>2
        <4>2. Open(v)
          BY <3>2, <4>1 DEF Open
        <4>3. IsVending(v.list) /\ LeftOf(list[v.owner], v.list)
          BY <3>1, <4>1, <4>2
        <4> QED BY <4>1, <4>3 DEF LeftOf
      <3> QED BY <3>1, <3>2 DEF View
    <2>3. v = NotSeen => View(p, v)'
      BY DEF View
    <2>4. View(p, NotSeen)'
      BY DEF View
    <2> QED BY <2>1, <2>2, <2>3, <2>4
  <1>2. seen' = [p \in Players |-> seen'[p]]
    BY DEF Views
  <1> QED BY <1>1, <1>2 DEF Views

(* A request that is refused. *)
LEMMA Refused ==
  ASSUME ShopInv, NEW b \in Players, seen' = [seen EXCEPT ![b] = NotSeen],
         UNCHANGED <<online, shop, uid, list, inventory, zeny, prevend, autotrade, server, cart, max_weight,
                     nextid, events>>,
         zenylimit' \in [Players -> 0 .. MaxZeny]
  PROVE  ShopInv'
  <1>1. Flags' /\ Owned' /\ Stores' /\ Lists'
    BY DEF ShopInv, Flags, Owned, Stores, Lists, server
  <1>2. \A o \in Players : LeftOf(list'[o], list[o])
    BY DEF LeftOf
  <1>3. Views'
    BY <1>2, LaterViews DEF ShopInv
  <1> QED BY <1>1, <1>3 DEF ShopInv

(* One of the two pays what the other gets a part of. *)
LEMMA PaysType ==
  ASSUME ShopConstantsOK, Owned, NEW payer \in Players, NEW payee \in Players \ {payer},
         NEW cost \in Nat, cost <= zeny[payer], NEW gain \in Nat, Pays(payer, payee, cost, gain)
  PROVE  /\ zeny' \in [Players -> 0 .. MaxZeny]
         /\ zeny'[payer] = zeny[payer] - cost
         /\ \A p \in Players \ {payer} : zeny'[p] >= zeny[p]
  <1>1. MaxZeny \in Nat /\ zeny \in [Players -> 0 .. MaxZeny]
    BY DEF ShopConstantsOK, Owned
  <1>2. zeny[payer] \in 0 .. MaxZeny /\ zeny[payee] \in 0 .. MaxZeny
    BY <1>1
  <1>3. AtMost(gain, Room(payee)) \in Nat /\ zeny[payee] + AtMost(gain, Room(payee)) \in 0 .. MaxZeny
    <2> DEFINE r == MaxZeny - zeny[payee]
    <2>1. r \in Nat /\ zeny[payee] + r = MaxZeny
      BY <1>1, <1>2
    <2>2. AtMost(gain, Room(payee)) = IF gain < r THEN gain ELSE r
      BY DEF AtMost, Room
    <2> HIDE DEF r
    <2>3. \/ gain < r /\ AtMost(gain, Room(payee)) = gain
          \/ gain >= r /\ AtMost(gain, Room(payee)) = r
      BY <2>1, <2>2
    <2> QED BY <1>1, <1>2, <2>1, <2>3
  <1>4. zeny[payer] - cost \in 0 .. MaxZeny
    BY <1>1, <1>2
  <1> DEFINE x == AtMost(gain, Room(payee))
  <1>5. zeny' = [zeny EXCEPT ![payer] = zeny[payer] - cost, ![payee] = zeny[payee] + x]
    BY <1>1 DEF Pays
  <1> HIDE DEF x
  <1>6. zeny' \in [Players -> 0 .. MaxZeny]
    BY <1>1, <1>3, <1>4, <1>5 DEF x
  <1>7. zeny'[payer] = zeny[payer] - cost
    BY <1>1, <1>5
  <1>8. ASSUME NEW p \in Players \ {payer} PROVE zeny'[p] >= zeny[p]
    <2>1. p # payee => zeny'[p] = zeny[p]
      BY <1>1, <1>5
    <2>2. zeny'[payee] = zeny[payee] + x
      BY <1>1, <1>5
    <2>3. zeny[p] \in Int
      BY <1>1
    <2>4. x \in Nat
      BY <1>3 DEF x
    <2> QED BY <2>1, <2>2, <2>3, <2>4
  <1> QED BY <1>6, <1>7, <1>8

LEMMA TaxType ==
  ASSUME ShopConstantsOK, NEW z \in Nat
  PROVE  vending_calc_tax(z) \in Nat
  <1>1. 100 - TaxRate \in Nat
    BY DEF ShopConstantsOK
  <1>2. \A c \in Nat : z * c \in Nat
    OBVIOUS
  <1>3. z * (100 - TaxRate) \in Nat
    BY <1>1, <1>2
  <1>4. \A y \in Nat : y \div 100 \in Nat
    OBVIOUS
  <1> QED BY <1>3, <1>4 DEF vending_calc_tax

(* Lines of a list, each once, are a list again. *)
LEMMA RestIsVending ==
  ASSUME ShopConstantsOK, NEW l, IsVending(l), NEW S \in SUBSET DOMAIN l
  PROVE  /\ IsVending(Entries(l, S))
         /\ \A i \in DOMAIN Entries(l, S) : \E j \in DOMAIN l : Entries(l, S)[i] = l[j]
  <1>1. PICK N \in Nat : l \in [1 .. N -> VendingLine]
    BY DEF IsVending
  <1>2. S \in SUBSET (1 .. N)
    BY <1>1
  <1> DEFINE C == Cardinality(S)
             O == InOrder(S)
  <1>3. C \in Nat /\ O \in [1 .. C -> S] /\ \A i, j \in 1 .. C : i # j => O[i] # O[j]
    BY <1>2, InOrderFacts
  <1> DEFINE E == Entries(l, S)
  <1>4. E = [j \in 1 .. C |-> l[O[j]]]
    BY DEF Entries
  <1> HIDE DEF C, O, E
  <1>5. \A j \in 1 .. C : O[j] \in 1 .. N /\ O[j] \in DOMAIN l
    BY <1>1, <1>2, <1>3
  <1>6. E \in [1 .. C -> VendingLine]
    BY <1>1, <1>4, <1>5
  <1>7. ASSUME NEW i \in DOMAIN E, NEW j \in DOMAIN E, E[i].index = E[j].index PROVE i = j
    <2>1. i \in 1 .. C /\ j \in 1 .. C /\ l[O[i]].index = l[O[j]].index
      BY <1>4, <1>7
    <2>2. O[i] = O[j]
      BY <1>5, <2>1 DEF IsVending
    <2> QED BY <1>3, <2>1, <2>2
  <1>8. \A i \in DOMAIN E : \E j \in DOMAIN l : E[i] = l[j]
    BY <1>4, <1>5
  <1>9. IsVending(E)
    BY <1>3, <1>6, <1>7 DEF IsVending
  <1> QED BY <1>8, <1>9 DEF E

(* What a purchase takes from where.  b takes n[j] pieces of each line j   *)
(* of S of the list it has seen.                                           *)
Owner(b) == seen[b].owner
At(b, j) == seen[b].list[j].index
Now(b, j) == list[Owner(b)][First(Lines(Owner(b), At(b, j)))]
PurchaseCost(b, S, n) == Sum([j \in S |-> n[j] * Now(b, j).value])
PurchaseOrder(b, S, n) ==
  [j \in 1 .. Cardinality(S) |->
     [kind |-> cart[Owner(b)][At(b, InOrder(S)[j])].kind, amount |-> n[InOrder(S)[j]]]]
Sold(b, S, i) == {j \in S : At(b, j) = i}
SoldOf(b, S, n, i) == IF Sold(b, S, i) = {} THEN 0 ELSE n[First(Sold(b, S, i))]
LeftList(b, S, n) ==
  [j \in DOMAIN list[Owner(b)] |->
     [list[Owner(b)][j] EXCEPT !.amount = @ - SoldOf(b, S, n, list[Owner(b)][j].index)]]
RestList(b, S, n) ==
  Entries(LeftList(b, S, n), {j \in DOMAIN LeftList(b, S, n) : LeftList(b, S, n)[j].amount > 0})
CartLeft(b, S, n) ==
  [i \in 1 .. CartSlots |-> IF Sold(b, S, i) = {} THEN cart[Owner(b)][i]
                            ELSE delitem(cart[Owner(b)], i, SoldOf(b, S, n, i))[i]]

LEMMA PurchaseIs ==
  ASSUME NEW b, NEW S, NEW n, Purchase(b, S, n), Owner(b) \in DOMAIN cart, b \in DOMAIN inventory
  PROVE  /\ inventory' = [inventory EXCEPT ![b] = Received(b, inventory[b], PurchaseOrder(b, S, n))]
         /\ cart' = [cart EXCEPT ![Owner(b)] = CartLeft(b, S, n)]
         /\ Pays(b, Owner(b), PurchaseCost(b, S, n), vending_calc_tax(PurchaseCost(b, S, n)))
         /\ Saves(Owner(b))
         /\ \/ Done(Owner(b))
            \/ list' = [list EXCEPT ![Owner(b)] = RestList(b, S, n)] /\ UNCHANGED <<online, shop, uid, zenylimit>>
  <1>1. inventory' = [inventory EXCEPT ![b] = Received(b, inventory[b], PurchaseOrder(b, S, n))]
    BY DEF Purchase, PurchaseOrder, Owner, At
  <1>2. cart' = [cart EXCEPT ![Owner(b)] = CartLeft(b, S, n)]
    BY DEF Purchase, CartLeft, Sold, SoldOf, Owner, At
  <1>3. Pays(b, Owner(b), PurchaseCost(b, S, n), vending_calc_tax(PurchaseCost(b, S, n)))
    BY Zenon DEF Purchase, PurchaseCost, Now, Owner, At
  <1>4. Saves(Owner(b))
    BY Zenon DEF Purchase, Owner
  <1>5. \/ Done(Owner(b))
        \/ list' = [list EXCEPT ![Owner(b)] = RestList(b, S, n)] /\ UNCHANGED <<online, shop, uid, zenylimit>>
    BY Zenon DEF Purchase, RestList, LeftList, SoldOf, Sold, Owner, At
  <1> QED BY <1>1, <1>2, <1>3, <1>4, <1>5

(* The number of pieces of a line of the order are there, on the line and  *)
(* in the cart, for the price that the visitor has seen.                   *)
AsSeen(b, n, j) ==
  /\ At(b, j) \in 1 .. CartSlots
  /\ \E t \in DOMAIN list[Owner(b)] : Lines(Owner(b), At(b, j)) = {t} /\ Now(b, j) = list[Owner(b)][t]
  /\ Now(b, j).value = seen[b].list[j].value /\ Now(b, j).value \in Nat
  /\ n[j] <= Now(b, j).amount /\ n[j] <= cart[Owner(b)][At(b, j)].amount

LEMMA PurchaseFacts ==
  ASSUME ShopConstantsOK, ShopInv, NEW b \in Players, Owner(b) # Void,
         NEW S \in SUBSET DOMAIN seen[b].list, NEW n \in [S -> 1 .. MaxAmount], PurchaseAccepted(b, S, n)
  PROVE  /\ Owner(b) \in Players \ {b} /\ shop[Owner(b)] = "vending"
         /\ IsVending(list[Owner(b)]) /\ IsVending(seen[b].list) /\ IsFiniteSet(S)
         /\ \E N \in Nat : S \in SUBSET (1 .. N)
         /\ \A j \in S : AsSeen(b, n, j)
         /\ \A i, j \in S : At(b, i) = At(b, j) => i = j
         /\ PurchaseCost(b, S, n) \in Nat /\ PurchaseCost(b, S, n) <= zeny[b]
  <1> DEFINE s == Owner(b)
             v == seen[b]
  <1>1. SameShop(b, "vending")
    BY Zenon DEF PurchaseAccepted
  <1>2. \A j \in S : Lines(s, At(b, j)) # {} /\ n[j] <= Left(s, At(b, j))
    BY Zenon DEF PurchaseAccepted, Owner, At
  <1>3. PurchaseCost(b, S, n) <= zeny[b]
    BY Zenon DEF PurchaseAccepted, PurchaseCost, Now, Owner, At
  <1>4. /\ s \in Players \ {b} /\ shop[s] = "vending"
        /\ IsVending(v.list) /\ LeftOf(list[s], v.list) /\ IsVending(list[s])
    <2>1. shop[s] = "vending" /\ uid[s] = v.uid
      BY <1>1 DEF SameShop, Owner
    <2>2. v # NotSeen
      BY DEF Owner, NotSeen
    <2>3. View(b, v)
      BY DEF ShopInv, Views
    <2>4. Open(v)
      BY <2>1 DEF Open, Owner
    <2>5. s \in Players \ {b} /\ IsVending(v.list) /\ LeftOf(list[s], v.list)
      BY <2>1, <2>2, <2>3, <2>4 DEF View, Owner
    <2>6. Fits(shop[s], list[s])
      BY <2>5 DEF ShopInv, Lists
    <2> QED BY <2>1, <2>5, <2>6 DEF Fits
  <1>5. PICK N \in Nat : v.list \in [1 .. N -> VendingLine]
    BY <1>4 DEF IsVending
  <1>6. PICK L \in Nat : list[s] \in [1 .. L -> VendingLine]
    BY <1>4 DEF IsVending
  <1>7. ASSUME NEW j \in S PROVE AsSeen(b, n, j)
    <2> DEFINE i == At(b, j)
    <2>1. j \in DOMAIN v.list /\ j \in 1 .. N /\ v.list[j] \in VendingLine /\ i = v.list[j].index
      BY <1>5 DEF At
    <2>2. i \in 1 .. CartSlots
      BY <2>1 DEF VendingLine
    <2>3. Lines(s, i) # {} /\ n[j] <= Left(s, i)
      BY <1>2
    <2> HIDE DEF i, v, s
    <2>4. PICK t \in DOMAIN list[s] : list[s][t].index = i
      BY <2>3 DEF Lines
    <2>5. Lines(s, i) = {t}
      BY <1>4, <2>4 DEF IsVending, Lines
    <2>6. t \in Nat
      BY <1>6
    <2>7. First(Lines(s, i)) = t
      BY <2>5, <2>6, FirstOfOne
    <2>8. Now(b, j) = list[s][t]
      BY <2>7 DEF Now, i, s
    <2>9. list[s][t] \in VendingLine
      BY <1>6
    <2>10. list[s][t].value = v.list[j].value
      <3>1. PICK m \in DOMAIN v.list : list[s][t].index = v.list[m].index /\ list[s][t].value = v.list[m].value
        BY <1>4 DEF LeftOf
      <3>2. m = j
        BY <1>4, <2>1, <2>4, <3>1 DEF IsVending
      <3> QED BY <3>1, <3>2
    <2>11. cart[s][i] \in ItemIn(Kinds)
      BY <1>4, <2>2 DEF ShopInv, Owned, Bags
    <2>12. cart[s][i].amount \in Nat /\ list[s][t].amount \in Nat /\ n[j] \in Nat
      <3>1. cart[s][i].amount \in Nat /\ MaxAmount \in Nat
        BY <2>11, ItemFacts
      <3> QED BY <2>9, <3>1 DEF VendingLine
    <2>13. n[j] <= list[s][t].amount /\ n[j] <= cart[s][i].amount
      BY <2>3, <2>7, <2>12 DEF Left, AtMost
    <2>14. list[s][t].value \in Nat
      BY <2>9 DEF VendingLine
    <2> QED BY <2>2, <2>4, <2>5, <2>8, <2>10, <2>13, <2>14 DEF AsSeen, i, s, v
  <1>8. \A i, j \in S : At(b, i) = At(b, j) => i = j
    BY <1>4 DEF IsVending, At
  <1>9. S \in SUBSET (1 .. N)
    BY <1>5
  <1>10. IsFiniteSet(S)
    BY <1>9, PartFinite
  <1>11. PurchaseCost(b, S, n) \in Nat
    <2> DEFINE f == [j \in S |-> n[j] * Now(b, j).value]
    <2>1. ASSUME NEW j \in S PROVE n[j] * Now(b, j).value \in Nat
      <3>1. n[j] \in Nat /\ Now(b, j).value \in Nat
        BY <1>7 DEF AsSeen
      <3>2. \A x, y \in Nat : x * y \in Nat
        OBVIOUS
      <3> QED BY <3>1, <3>2
    <2>2. f \in [S -> Nat]
      BY <2>1
    <2> HIDE DEF f
    <2>3. Sum(f) \in Nat
      BY <1>10, <2>2, SumType
    <2> QED BY <2>3 DEF PurchaseCost, f
  <1> QED BY <1>3, <1>4, <1>7, <1>8, <1>9, <1>10, <1>11

(* What is left of the list of the shop. *)
LEMMA LeftListFacts ==
  ASSUME ShopConstantsOK, ShopInv, NEW b \in Players, Owner(b) # Void,
         NEW S \in SUBSET DOMAIN seen[b].list, NEW n \in [S -> 1 .. MaxAmount], PurchaseAccepted(b, S, n)
  PROVE  /\ IsVending(LeftList(b, S, n))
         /\ \A i \in 1 .. CartSlots : Sold(b, S, i) # {} =>
              \E j \in S : Sold(b, S, i) = {j} /\ SoldOf(b, S, n, i) = n[j] /\ At(b, j) = i
         /\ \A j \in DOMAIN LeftList(b, S, n) :
              /\ j \in DOMAIN list[Owner(b)]
              /\ LeftList(b, S, n)[j].index = list[Owner(b)][j].index
              /\ LeftList(b, S, n)[j].value = list[Owner(b)][j].value
  <1> DEFINE s == Owner(b)
             L == list[s]
             M == LeftList(b, S, n)
  <1>1. /\ IsVending(L) /\ \A j \in S : AsSeen(b, n, j)
        /\ \A i, j \in S : At(b, i) = At(b, j) => i = j
        /\ \E N \in Nat : S \in SUBSET (1 .. N)
    BY PurchaseFacts
  <1>2. PICK N \in Nat : L \in [1 .. N -> VendingLine]
    BY <1>1 DEF IsVending
  <1>3. M = [j \in DOMAIN L |-> [L[j] EXCEPT !.amount = @ - SoldOf(b, S, n, L[j].index)]]
    BY DEF LeftList
  <1>0. MaxAmount \in Nat
    BY DEF ShopConstantsOK
  <1> HIDE DEF L, M, s
  <1>4. ASSUME NEW i \in 1 .. CartSlots, Sold(b, S, i) # {}
        PROVE  \E j \in S : Sold(b, S, i) = {j} /\ SoldOf(b, S, n, i) = n[j] /\ At(b, j) = i
    <2>1. PICK j \in S : At(b, j) = i
      BY <1>4 DEF Sold
    <2>2. Sold(b, S, i) = {j}
      BY <1>1, <2>1 DEF Sold
    <2>3. j \in Nat
      BY <1>1
    <2>4. First(Sold(b, S, i)) = j
      BY <2>2, <2>3, FirstOfOne
    <2> QED BY <2>1, <2>2, <2>4 DEF SoldOf
  <1>5. ASSUME NEW j \in DOMAIN L
        PROVE  /\ M[j] \in VendingLine /\ M[j].index = L[j].index /\ M[j].value = L[j].value
    <2> DEFINE x == SoldOf(b, S, n, L[j].index)
    <2>1. L[j] \in VendingLine /\ M[j] = [L[j] EXCEPT !.amount = @ - x]
      BY <1>2, <1>3
    <2>2. x \in Nat /\ x <= L[j].amount
      <3>1. L[j].amount \in Nat /\ L[j].index \in 1 .. CartSlots
        BY <1>0, <2>1 DEF VendingLine
      <3>2. CASE Sold(b, S, L[j].index) = {}
        BY <3>1, <3>2 DEF SoldOf
      <3>3. CASE Sold(b, S, L[j].index) # {}
        <4>1. PICK k \in S : x = n[k] /\ At(b, k) = L[j].index
          BY <1>4, <3>1, <3>3
        <4>2. AsSeen(b, n, k)
          BY <1>1
        <4>3. PICK t \in DOMAIN L : Lines(s, At(b, k)) = {t} /\ Now(b, k) = L[t] /\ n[k] <= Now(b, k).amount
          BY <4>2 DEF AsSeen, L, s
        <4>4. j \in Lines(s, At(b, k))
          BY <4>1 DEF Lines, L
        <4>5. j = t
          BY <4>3, <4>4
        <4>6. n[k] \in Nat
          OBVIOUS
        <4> QED BY <4>1, <4>3, <4>5, <4>6
      <3> QED BY <3>2, <3>3
    <2> HIDE DEF x
    <2>3. M[j] = [index |-> L[j].index, amount |-> L[j].amount - x, value |-> L[j].value]
      BY <2>1 DEF VendingLine
    <2>4. L[j].amount - x \in 0 .. MaxAmount
      BY <1>0, <2>1, <2>2 DEF VendingLine
    <2> QED BY <2>1, <2>3, <2>4 DEF VendingLine
  <1>6. DOMAIN M = DOMAIN L
    BY <1>3
  <1>7. M \in [1 .. N -> VendingLine]
    <2>1. M = [j \in 1 .. N |-> M[j]]
      BY <1>2, <1>3
    <2>2. \A j \in 1 .. N : M[j] \in VendingLine
      BY <1>2, <1>5
    <2> QED BY <2>1, <2>2
  <1>8. \A i, j \in DOMAIN M : M[i].index = M[j].index => i = j
    BY <1>1, <1>5, <1>6 DEF IsVending
  <1>9. IsVending(M)
    BY <1>7, <1>8 DEF IsVending
  <1> QED BY <1>4, <1>5, <1>6, <1>9 DEF L, M, s

LEMMA CartLeftType ==
  ASSUME ShopConstantsOK, ShopInv, NEW b \in Players, Owner(b) # Void,
         NEW S \in SUBSET DOMAIN seen[b].list, NEW n \in [S -> 1 .. MaxAmount], PurchaseAccepted(b, S, n)
  PROVE  /\ CartLeft(b, S, n) \in Bags(CartSlots)
         /\ \A i \in 1 .. CartSlots : Sold(b, S, i) = {} => CartLeft(b, S, n)[i] = cart[Owner(b)][i]
         /\ \A j \in S : cart[Owner(b)][At(b, j)].amount - CartLeft(b, S, n)[At(b, j)].amount = n[j]
  <1> DEFINE c == cart[Owner(b)]
             C == CartLeft(b, S, n)
  <1>1. c \in Bags(CartSlots) /\ CartSlots \in Nat /\ MaxAmount \in Nat
    <2>1. Owner(b) \in Players
      BY PurchaseFacts
    <2> QED BY <2>1 DEF ShopInv, Owned, ShopConstantsOK
  <1>2. C = [i \in 1 .. CartSlots |-> IF Sold(b, S, i) = {} THEN c[i] ELSE delitem(c, i, SoldOf(b, S, n, i))[i]]
    BY DEF CartLeft
  <1>3. \A i \in 1 .. CartSlots : Sold(b, S, i) # {} =>
              \E j \in S : Sold(b, S, i) = {j} /\ SoldOf(b, S, n, i) = n[j] /\ At(b, j) = i
    BY LeftListFacts
  <1>4. \A j \in S : AsSeen(b, n, j)
    BY PurchaseFacts
  <1> HIDE DEF c, C
  <1>5. ASSUME NEW i \in 1 .. CartSlots PROVE C[i] \in ItemIn(Kinds)
    <2>1. CASE Sold(b, S, i) = {}
      BY <1>1, <1>2, <2>1 DEF Bags
    <2>2. CASE Sold(b, S, i) # {}
      <3>1. SoldOf(b, S, n, i) \in Nat
        BY <1>3, <2>2
      <3>2. delitem(c, i, SoldOf(b, S, n, i)) \in Bags(CartSlots)
        BY <1>1, <3>1, DeletedType
      <3>3. C[i] = delitem(c, i, SoldOf(b, S, n, i))[i]
        BY <1>2, <2>2
      <3> QED BY <3>2, <3>3 DEF Bags
    <2> QED BY <2>1, <2>2
  <1>6. C \in Bags(CartSlots)
    BY <1>2, <1>5 DEF Bags
  <1>7. \A i \in 1 .. CartSlots : Sold(b, S, i) = {} => C[i] = c[i]
    BY <1>2
  <1>8. ASSUME NEW j \in S PROVE c[At(b, j)].amount - C[At(b, j)].amount = n[j]
    <2>1. PICK i \in 1 .. CartSlots : At(b, j) = i /\ n[j] <= c[i].amount
      BY <1>4 DEF AsSeen, c
    <2>2. j \in Sold(b, S, i)
      BY <2>1 DEF Sold
    <2>3. SoldOf(b, S, n, i) = n[j]
      BY <1>3, <2>2
    <2>4. C[i] = delitem(c, i, n[j])[i] /\ n[j] \in Nat
      BY <1>2, <2>2, <2>3
    <2>5. \/ c[i].amount < n[j] /\ delitem(c, i, n[j])[i] = c[i]
          \/ c[i].amount = n[j] /\ delitem(c, i, n[j])[i] = Nothing
          \/ c[i].amount > n[j] /\ delitem(c, i, n[j])[i] = [kind |-> c[i].kind, amount |-> c[i].amount - n[j]]
      BY <1>1, <2>4, DeletedType
    <2>6. c[i].amount \in Nat
      <3>1. c[i] \in ItemIn(Kinds)
        BY <1>1 DEF Bags
      <3> QED BY <3>1, ItemFacts
    <2>7. c[i].amount - C[i].amount = n[j]
      BY <2>1, <2>4, <2>5, <2>6 DEF Nothing
    <2> QED BY <2>1, <2>7
  <1> QED BY <1>6, <1>7, <1>8 DEF c, C

LEMMA PurchaseOrderType ==
  ASSUME ShopConstantsOK, ShopInv, NEW b \in Players, Owner(b) # Void,
         NEW S \in SUBSET DOMAIN seen[b].list, NEW n \in [S -> 1 .. MaxAmount], PurchaseAccepted(b, S, n)
  PROVE  Cardinality(S) \in Nat /\ PurchaseOrder(b, S, n) \in Orders(Cardinality(S))
  <1> DEFINE C == Cardinality(S)
             O == InOrder(S)
             s == Owner(b)
  <1>1. /\ s \in Players /\ \A j \in S : AsSeen(b, n, j)
        /\ \E N \in Nat : S \in SUBSET (1 .. N)
    BY PurchaseFacts
  <1>2. C \in Nat /\ O \in [1 .. C -> S]
    BY <1>1, InOrderFacts
  <1>3. PurchaseOrder(b, S, n) = [j \in 1 .. C |-> [kind |-> cart[s][At(b, O[j])].kind, amount |-> n[O[j]]]]
    BY DEF PurchaseOrder
  <1>4. ASSUME NEW k \in S PROVE cart[s][At(b, k)].kind \in Kinds
    <2>1. At(b, k) \in 1 .. CartSlots /\ n[k] <= cart[s][At(b, k)].amount
      BY <1>1 DEF AsSeen
    <2>2. cart[s][At(b, k)] \in ItemIn(Kinds)
      BY <1>1, <2>1 DEF ShopInv, Owned, Bags
    <2>3. MaxAmount \in Nat /\ n[k] \in 1 .. MaxAmount
      BY DEF ShopConstantsOK
    <2>4. cart[s][At(b, k)].amount # 0
      BY <2>1, <2>3
    <2> HIDE DEF s
    <2> QED BY <2>2, <2>4, ItemFacts
  <1> HIDE DEF C, O, s
  <1>5. \A j \in 1 .. C : O[j] \in S
    BY <1>2
  <1>6. \A j \in 1 .. C : cart[s][At(b, O[j])].kind \in Kinds /\ n[O[j]] \in 1 .. MaxAmount
    BY <1>4, <1>5
  <1>7. PurchaseOrder(b, S, n) \in Orders(C)
    BY <1>3, <1>6 DEF Orders
  <1> QED BY <1>2, <1>7 DEF C

(* The shop is done, and may leave. *)
LEMMA DoneFlags ==
  ASSUME ShopConstantsOK, ShopInv, NEW p \in Players, Done(p), UNCHANGED <<prevend, autotrade, max_weight, nextid, events>>
  PROVE  Flags' /\ Lists'
  <1>1. Closed(p) /\ online' \subseteq Players
    BY DEF Done, ShopInv, Flags
  <1>2. Flags'
    BY <1>1, ClosedFlags DEF ShopInv, Flags
  <1>3. Lists'
    BY <1>1 DEF ShopInv, Lists, Flags, Closed, Fits
  <1> QED BY <1>2, <1>3

LEMMA ClosedShops ==
  ASSUME ShopInv, NEW p \in Players, Closed(p)
  PROVE  \A o \in Players : \/ shop'[o] = "none"
                            \/ /\ shop'[o] = shop[o] /\ uid'[o] = uid[o]
                               /\ LeftOf(list'[o], list[o])
  BY DEF ShopInv, Flags, Lists, Closed, LeftOf

LEMMA PurchaseTypes ==
  ASSUME ShopConstantsOK, ShopInv, NEW b \in Players, NEW S \in SUBSET DOMAIN seen[b].list,
         NEW n \in [S -> 1 .. MaxAmount], vending_purchasereq(b, S, n)
  PROVE  ShopInv'
  <1>1. /\ Owner(b) # Void /\ seen' = [seen EXCEPT ![b] = NotSeen]
        /\ UNCHANGED <<prevend, autotrade, max_weight, nextid, events>>
        /\ \/ PurchaseAccepted(b, S, n) /\ Purchase(b, S, n)
           \/ UNCHANGED <<online, shop, uid, list, zenylimit, server, goods>>
    BY Zenon DEF vending_purchasereq, Owner
  <1>2. CASE UNCHANGED <<online, shop, uid, list, zenylimit, server, goods>>
    <2>1. zenylimit' \in [Players -> 0 .. MaxZeny]
      BY <1>2 DEF ShopInv, Flags
    <2> QED BY <1>1, <1>2, <2>1, Refused DEF goods
  <1>3. CASE PurchaseAccepted(b, S, n) /\ Purchase(b, S, n)
    <2> DEFINE s == Owner(b)
               cost == PurchaseCost(b, S, n)
               filled == Received(b, inventory[b], PurchaseOrder(b, S, n))
               C == CartLeft(b, S, n)
               rest == RestList(b, S, n)
    <2>1. /\ s \in Players \ {b} /\ shop[s] = "vending" /\ cost \in Nat /\ cost <= zeny[b]
      BY <1>1, <1>3, PurchaseFacts
    <2>2. /\ inventory' = [inventory EXCEPT ![b] = filled]
          /\ cart' = [cart EXCEPT ![s] = C]
          /\ Pays(b, s, cost, vending_calc_tax(cost))
          /\ Saves(s)
          /\ \/ Done(s)
             \/ list' = [list EXCEPT ![s] = rest] /\ UNCHANGED <<online, shop, uid, zenylimit>>
      <3>1. s \in DOMAIN cart /\ b \in DOMAIN inventory
        BY <2>1 DEF ShopInv, Owned
      <3> QED BY <1>3, <3>1, PurchaseIs
    <2>3. filled \in Bags(Slots) /\ Stacked(filled)
      <3>1. Cardinality(S) \in Nat /\ PurchaseOrder(b, S, n) \in Orders(Cardinality(S))
        BY <1>1, <1>3, PurchaseOrderType
      <3>2. inventory[b] \in Bags(Slots) /\ Stacked(inventory[b])
        BY DEF ShopInv, Owned
      <3> QED BY <3>1, <3>2, ReceivedType
    <2>4. C \in Bags(CartSlots)
      BY <1>1, <1>3, CartLeftType
    <2>5. IsVending(rest) /\ LeftOf(rest, list[s])
      <3> DEFINE l == LeftList(b, S, n)
                 T == {j \in DOMAIN l : l[j].amount > 0}
      <3>1. IsVending(l)
        BY <1>1, <1>3, LeftListFacts
      <3>2. \A j \in DOMAIN l : j \in DOMAIN list[s] /\ l[j].index = list[s][j].index /\ l[j].value = list[s][j].value
        BY <1>1, <1>3, LeftListFacts
      <3>3. T \in SUBSET DOMAIN l
        OBVIOUS
      <3>4. rest = Entries(l, T)
        BY DEF RestList
      <3> HIDE DEF l, T, rest, s
      <3>5. IsVending(rest) /\ \A i \in DOMAIN rest : \E j \in DOMAIN l : rest[i] = l[j]
        BY <3>1, <3>3, <3>4, RestIsVending
      <3> QED BY <3>2, <3>5 DEF LeftOf
    <2> HIDE DEF s, cost, filled, C, rest
    <2>6. zeny' \in [Players -> 0 .. MaxZeny]
      <3>1. vending_calc_tax(cost) \in Nat
        BY <2>1, TaxType
      <3>2. Owned
        BY DEF ShopInv
      <3> QED BY <2>1, <2>2, <3>1, <3>2, PaysType
    <2>7. Owned'
      BY <2>1, <2>2, <2>3, <2>4, <2>6 DEF ShopInv, Owned
    <2>8. Stores'
      <3>1. cart' \in [Players -> Bags(CartSlots)]
        BY <2>7 DEF Owned
      <3> QED BY <2>1, <2>2, <3>1, SavesType DEF ShopInv
    <2>9. CASE Done(s)
      <3>1. Flags' /\ Lists'
        BY <1>1, <2>1, <2>9, DoneFlags
      <3>2. \A o \in Players : \/ shop'[o] = "none"
                               \/ shop'[o] = shop[o] /\ uid'[o] = uid[o] /\ LeftOf(list'[o], list[o])
        BY <2>1, <2>9, ClosedShops DEF Done
      <3>3. Views'
        BY <1>1, <3>2, LaterViews DEF ShopInv
      <3> QED BY <2>7, <2>8, <3>1, <3>3 DEF ShopInv
    <2>10. CASE list' = [list EXCEPT ![s] = rest] /\ UNCHANGED <<online, shop, uid, zenylimit>>
      <3>1. Flags'
        BY <1>1, <2>10 DEF ShopInv, Flags
      <3>2. list = [p \in Players |-> list[p]] /\ \A p \in Players : Fits(shop[p], list[p])
        BY DEF ShopInv, Lists
      <3>3. Fits("vending", rest)
        BY <2>5 DEF Fits
      <3>4. Lists'
        BY <2>1, <2>10, <3>2, <3>3 DEF Lists
      <3>5. \A l : LeftOf(l, l)
        BY DEF LeftOf
      <3>6. \A o \in Players : LeftOf(list'[o], list[o])
        BY <2>1, <2>5, <2>10, <3>2, <3>5
      <3>7. Views'
        BY <1>1, <2>10, <3>6, LaterViews DEF ShopInv
      <3> QED BY <2>7, <2>8, <3>1, <3>4, <3>7 DEF ShopInv
    <2> QED BY <2>2, <2>9, <2>10
  <1> QED BY <1>1, <1>2, <1>3

(* What a sale takes from where.  b gives n[i] pieces of each slot i of S  *)
(* of its inventory.                                                       *)
Kind(b, i) == inventory[b][i].kind
SaleCost(o, b, S, n) == Sum([i \in S |-> n[i] * Wants(o, Kind(b, i)).price])
SaleOrder(b, S, n) ==
  [j \in 1 .. Cardinality(S) |-> [kind |-> Kind(b, InOrder(S)[j]), amount |-> n[InOrder(S)[j]]]]
GotOf(b, S, n, x) == Sum([i \in {i \in S : Kind(b, i) = x} |-> n[i]])
WantedLeft(o, b, S, n) ==
  [j \in DOMAIN list[o] |-> [list[o][j] EXCEPT !.amount = @ - GotOf(b, S, n, list[o][j].kind)]]
BackpackLeft(b, S, n) ==
  [i \in 1 .. Slots |-> IF i \in S THEN delitem(inventory[b], i, n[i])[i] ELSE inventory[b][i]]

LEMMA SaleIs ==
  ASSUME NEW o, NEW b, NEW S, NEW n, NEW limit, Sale(o, b, S, n, limit), o # b,
         o \in DOMAIN inventory, b \in DOMAIN inventory
  PROVE  /\ inventory' = [inventory EXCEPT ![o] = Received(o, inventory[o], SaleOrder(b, S, n)),
                                           ![b] = BackpackLeft(b, S, n)]
         /\ Pays(o, b, SaleCost(o, b, S, n), SaleCost(o, b, S, n))
         /\ \/ Done(o)
            \/ /\ list' = [list EXCEPT ![o] = WantedLeft(o, b, S, n)]
               /\ zenylimit' = [zenylimit EXCEPT ![o] = limit - SaleCost(o, b, S, n)]
               /\ UNCHANGED <<online, shop, uid>>
  <1>1. inventory' = [inventory EXCEPT ![o] = Received(o, inventory[o], SaleOrder(b, S, n)),
                                       ![b] = BackpackLeft(b, S, n)]
    BY DEF Sale, SaleOrder, BackpackLeft, Kind
  <1>2. Pays(o, b, SaleCost(o, b, S, n), SaleCost(o, b, S, n))
    BY Zenon DEF Sale, SaleCost, Kind
  <1>3. \/ Done(o)
        \/ /\ list' = [list EXCEPT ![o] = WantedLeft(o, b, S, n)]
           /\ zenylimit' = [zenylimit EXCEPT ![o] = limit - SaleCost(o, b, S, n)]
           /\ UNCHANGED <<online, shop, uid>>
    BY Zenon DEF Sale, WantedLeft, GotOf, SaleCost, Kind
  <1> QED BY <1>1, <1>2, <1>3

(* The pieces are there, of a kind that one line of the store wants, which *)
(* no other slot holds.                                                    *)
AsWanted(o, b, n, i) ==
  /\ Kind(b, i) \in Wanted
  /\ \E t \in DOMAIN list[o] : /\ WantedLine(o, Kind(b, i)) = {t} /\ Wants(o, Kind(b, i)) = list[o][t]
                               /\ list[o][t].kind = Kind(b, i)
  /\ Wants(o, Kind(b, i)).price \in Nat
  /\ n[i] <= Wants(o, Kind(b, i)).amount /\ n[i] <= inventory[b][i].amount
  /\ \A j \in 1 .. Slots : Kind(b, j) = Kind(b, i) => j = i

LEMMA SaleFacts ==
  ASSUME ShopConstantsOK, ShopInv, NEW b \in Players, NEW o, o = Owner(b), o # Void, SameShop(b, "buyingstore"),
         NEW S \in SUBSET (1 .. Slots), NEW n \in [S -> 1 .. MaxAmount], SaleAccepted(o, b, S, n, Limit(o))
  PROVE  /\ o \in Players \ {b} /\ shop[o] = "buyingstore" /\ IsStore(list[o])
         /\ \A i \in S : AsWanted(o, b, n, i)
         /\ SaleCost(o, b, S, n) \in Nat
         /\ SaleCost(o, b, S, n) <= zeny[o] /\ SaleCost(o, b, S, n) <= zenylimit[o]
         /\ Limit(o) - SaleCost(o, b, S, n) \in 0 .. MaxZeny
  <1>1. o \in Players \ {b} /\ shop[o] = "buyingstore" /\ IsStore(list[o])
    <2>1. shop[o] = "buyingstore"
      BY DEF SameShop, Owner
    <2>2. seen[b] # NotSeen
      BY DEF Owner, NotSeen
    <2>3. View(b, seen[b])
      BY DEF ShopInv, Views
    <2>4. o \in Players \ {b}
      BY <2>2, <2>3 DEF View, Owner
    <2>5. Fits(shop[o], list[o])
      BY <2>4 DEF ShopInv, Lists
    <2> QED BY <2>1, <2>4, <2>5 DEF Fits
  <1>2. \A i \in S : /\ WantedLine(o, Kind(b, i)) # {} /\ n[i] <= Wants(o, Kind(b, i)).amount
                     /\ n[i] <= inventory[b][i].amount
    BY Zenon DEF SaleAccepted, Kind
  <1>3. SaleCost(o, b, S, n) <= Limit(o)
    BY Zenon DEF SaleAccepted, SaleCost, Kind, WithinLimit
  <1>4. PICK L \in Nat : list[o] \in [1 .. L -> StoreLine]
    BY <1>1 DEF IsStore
  <1>5. ASSUME NEW i \in S PROVE AsWanted(o, b, n, i)
    <2> DEFINE k == Kind(b, i)
    <2>1. PICK t \in DOMAIN list[o] : list[o][t].kind = k
      BY <1>2 DEF WantedLine
    <2>2. WantedLine(o, k) = {t}
      BY <1>1, <2>1 DEF IsStore, WantedLine
    <2>3. t \in Nat /\ list[o][t] \in StoreLine
      BY <1>4
    <2> HIDE DEF k
    <2>4. First(WantedLine(o, k)) = t
      BY <2>2, <2>3, FirstOfOne
    <2>5. Wants(o, k) = list[o][t]
      BY <2>4 DEF Wants
    <2>6. k \in Wanted /\ list[o][t].price \in Nat
      BY <2>1, <2>3 DEF StoreLine
    <2>7. \A j \in 1 .. Slots : Kind(b, j) = k => j = i
      <3>1. k \in Stackable /\ Stacked(inventory[b])
        BY <2>6 DEF ShopConstantsOK, ShopInv, Owned
      <3>2. DOMAIN inventory[b] = 1 .. Slots
        BY DEF ShopInv, Owned, Bags
      <3> QED BY <3>1, <3>2 DEF Stacked, Kind, k
    <2> QED BY <1>2, <2>1, <2>2, <2>5, <2>6, <2>7 DEF AsWanted, k
  <1>6. SaleCost(o, b, S, n) \in Nat
    <2> DEFINE f == [i \in S |-> n[i] * Wants(o, Kind(b, i)).price]
    <2>0. IsFiniteSet(S)
      BY PartFinite DEF ShopConstantsOK
    <2>1. ASSUME NEW i \in S PROVE n[i] * Wants(o, Kind(b, i)).price \in Nat
      <3>1. n[i] \in Nat /\ Wants(o, Kind(b, i)).price \in Nat
        BY <1>5 DEF AsWanted
      <3>2. \A x, y \in Nat : x * y \in Nat
        OBVIOUS
      <3> QED BY <3>1, <3>2
    <2>2. f \in [S -> Nat]
      BY <2>1
    <2> HIDE DEF f
    <2>3. Sum(f) \in Nat
      BY <2>0, <2>2, SumType
    <2> QED BY <2>3 DEF SaleCost, f
  <1>7. zenylimit[o] \in 0 .. MaxZeny /\ zeny[o] \in 0 .. MaxZeny /\ MaxZeny \in Nat
    BY <1>1 DEF ShopInv, Flags, Owned, ShopConstantsOK
  <1>8. Limit(o) \in 0 .. MaxZeny /\ Limit(o) <= zenylimit[o] /\ Limit(o) <= zeny[o]
    BY <1>7 DEF Limit, AtMost
  <1> DEFINE c == SaleCost(o, b, S, n)
             l == Limit(o)
  <1> HIDE DEF c, l
  <1>9. c <= zeny[o] /\ c <= zenylimit[o] /\ l - c \in 0 .. MaxZeny
    <2>1. c \in Nat /\ c <= l /\ l \in 0 .. MaxZeny /\ l <= zenylimit[o] /\ l <= zeny[o]
      BY <1>3, <1>6, <1>8 DEF c, l
    <2> QED BY <1>7, <2>1
  <1> QED BY <1>1, <1>5, <1>6, <1>9 DEF c, l

(* What the store still wants. *)
LEMMA WantedLeftType ==
  ASSUME ShopConstantsOK, ShopInv, NEW b \in Players, NEW o, o = Owner(b), o # Void, SameShop(b, "buyingstore"),
         NEW S \in SUBSET (1 .. Slots), NEW n \in [S -> 1 .. MaxAmount], SaleAccepted(o, b, S, n, Limit(o))
  PROVE  IsStore(WantedLeft(o, b, S, n))
  <1> DEFINE L == list[o]
             M == WantedLeft(o, b, S, n)
  <1>1. IsStore(L) /\ \A i \in S : AsWanted(o, b, n, i)
    BY SaleFacts
  <1>2. PICK N \in Nat : L \in [1 .. N -> StoreLine]
    BY <1>1 DEF IsStore
  <1>3. M = [j \in DOMAIN L |-> [L[j] EXCEPT !.amount = @ - GotOf(b, S, n, L[j].kind)]]
    BY DEF WantedLeft
  <1>0. MaxAmount \in Nat
    BY DEF ShopConstantsOK
  <1> HIDE DEF L, M
  <1>4. ASSUME NEW j \in DOMAIN L PROVE M[j] \in StoreLine /\ M[j].kind = L[j].kind
    <2> DEFINE x == L[j].kind
               got == GotOf(b, S, n, x)
               T == {i \in S : Kind(b, i) = x}
               f == [i \in T |-> n[i]]
    <2>1. L[j] \in StoreLine /\ M[j] = [L[j] EXCEPT !.amount = @ - got]
      BY <1>2, <1>3
    <2>2. L[j].amount \in Nat
      BY <1>0, <2>1 DEF StoreLine
    <2>3. f \in [T -> Nat]
      <3>1. \A i \in S : n[i] \in Nat
        OBVIOUS
      <3>2. \A i \in T : i \in S
        OBVIOUS
      <3> HIDE DEF T
      <3> QED BY <3>1, <3>2
    <2>4. got = Sum(f)
      BY DEF GotOf
    <2> HIDE DEF x, got
    <2>5. got \in Nat /\ got <= L[j].amount
      <3>1. CASE T = {}
        <4>1. T \subseteq {0} /\ T = {}
          BY <3>1
        <4> HIDE DEF T, f
        <4>2. Sum(f) = 0
          BY <2>3, <4>1, SumOfFew
        <4> QED BY <2>2, <2>4, <4>2
      <3>2. CASE T # {}
        <4>1. PICK i \in S : Kind(b, i) = x
          BY <3>2
        <4>2. AsWanted(o, b, n, i)
          BY <1>1
        <4>3. T \subseteq {i} /\ i \in T
          BY <4>1, <4>2 DEF AsWanted
        <4>4. f[i] = n[i]
          BY <4>3
        <4> HIDE DEF T, f
        <4>5. Sum(f) = f[i]
          BY <2>3, <4>3, SumOfFew
        <4>6. PICK t \in DOMAIN L : /\ WantedLine(o, x) = {t} /\ Wants(o, x) = L[t] /\ n[i] <= Wants(o, x).amount
          BY <4>1, <4>2 DEF AsWanted, L
        <4>7. j \in WantedLine(o, x)
          BY DEF WantedLine, L, x
        <4>8. t = j /\ n[i] \in Nat
          BY <4>6, <4>7
        <4> QED BY <2>4, <4>4, <4>5, <4>6, <4>8
      <3> QED BY <3>1, <3>2
    <2>6. M[j] = [kind |-> L[j].kind, amount |-> L[j].amount - got, price |-> L[j].price]
      BY <2>1 DEF StoreLine
    <2>7. L[j].amount - got \in 0 .. MaxAmount
      BY <1>0, <2>1, <2>2, <2>5 DEF StoreLine
    <2> QED BY <2>1, <2>6, <2>7 DEF StoreLine
  <1>5. M \in [1 .. N -> StoreLine]
    <2>1. M = [j \in 1 .. N |-> M[j]]
      BY <1>2, <1>3
    <2>2. \A j \in 1 .. N : M[j] \in StoreLine
      BY <1>2, <1>4
    <2> QED BY <2>1, <2>2
  <1>6. \A i, j \in DOMAIN M : M[i].kind = M[j].kind => i = j
    <2>1. DOMAIN M = DOMAIN L
      BY <1>3
    <2> QED BY <1>1, <1>4, <2>1 DEF IsStore
  <1> QED BY <1>5, <1>6 DEF IsStore, M

LEMMA SaleOrderType ==
  ASSUME ShopConstantsOK, NEW b, NEW S \in SUBSET (1 .. Slots), NEW n \in [S -> 1 .. MaxAmount],
         \A i \in S : Kind(b, i) \in Wanted
  PROVE  Cardinality(S) \in Nat /\ SaleOrder(b, S, n) \in Orders(Cardinality(S))
  <1> DEFINE C == Cardinality(S)
             O == InOrder(S)
  <1>1. C \in Nat /\ O \in [1 .. C -> S]
    BY InOrderFacts DEF ShopConstantsOK
  <1>2. SaleOrder(b, S, n) = [j \in 1 .. C |-> [kind |-> Kind(b, O[j]), amount |-> n[O[j]]]]
    BY DEF SaleOrder
  <1> HIDE DEF C, O
  <1>3. \A j \in 1 .. C : O[j] \in S
    BY <1>1
  <1>4. \A i \in S : Kind(b, i) \in Kinds /\ n[i] \in 1 .. MaxAmount
    BY DEF ShopConstantsOK
  <1>5. \A j \in 1 .. C : Kind(b, O[j]) \in Kinds /\ n[O[j]] \in 1 .. MaxAmount
    BY <1>3, <1>4
  <1>6. SaleOrder(b, S, n) \in Orders(C)
    BY <1>2, <1>5 DEF Orders
  <1> QED BY <1>1, <1>6 DEF C

LEMMA BackpackLeftType ==
  ASSUME ShopConstantsOK, ShopInv, NEW b \in Players, NEW S \in SUBSET (1 .. Slots), NEW n \in [S -> 1 .. MaxAmount]
  PROVE  /\ BackpackLeft(b, S, n) \in Bags(Slots) /\ Stacked(BackpackLeft(b, S, n))
         /\ \A i \in 1 .. Slots \ S : BackpackLeft(b, S, n)[i] = inventory[b][i]
         /\ \A i \in S : /\ BackpackLeft(b, S, n)[i].kind \in {Void, inventory[b][i].kind}
                         /\ n[i] <= inventory[b][i].amount =>
                              inventory[b][i].amount - BackpackLeft(b, S, n)[i].amount = n[i]
  <1> DEFINE inv == inventory[b]
             B == BackpackLeft(b, S, n)
  <1>1. inv \in Bags(Slots) /\ Stacked(inv) /\ Slots \in Nat /\ MaxAmount \in Nat /\ Void \notin Stackable
    BY DEF ShopInv, Owned, ShopConstantsOK
  <1>2. B = [i \in 1 .. Slots |-> IF i \in S THEN delitem(inv, i, n[i])[i] ELSE inv[i]]
    BY DEF BackpackLeft
  <1> HIDE DEF inv, B
  <1>3. ASSUME NEW i \in S
        PROVE  /\ B[i] \in ItemIn(Kinds) /\ B[i].kind \in {Void, inv[i].kind}
               /\ n[i] <= inv[i].amount => inv[i].amount - B[i].amount = n[i]
    <2>1. i \in 1 .. Slots /\ n[i] \in Nat /\ B[i] = delitem(inv, i, n[i])[i]
      <3>1. i \in 1 .. Slots /\ n[i] \in 1 .. MaxAmount
        OBVIOUS
      <3>2. B[i] = delitem(inv, i, n[i])[i]
        BY <1>2, <3>1
      <3> QED BY <3>1, <3>2
    <2>2. /\ delitem(inv, i, n[i]) \in Bags(Slots)
          /\ \/ inv[i].amount < n[i] /\ B[i] = inv[i]
             \/ inv[i].amount = n[i] /\ B[i] = Nothing
             \/ inv[i].amount > n[i] /\ B[i] = [kind |-> inv[i].kind, amount |-> inv[i].amount - n[i]]
      BY <1>1, <2>1, DeletedType
    <2>3. inv[i].amount \in Nat
      <3>1. inv[i] \in ItemIn(Kinds)
        BY <1>1, <2>1 DEF Bags
      <3> QED BY <3>1, ItemFacts
    <2>4. B[i] \in ItemIn(Kinds)
      BY <2>1, <2>2 DEF Bags
    <2>5. B[i].kind \in {Void, inv[i].kind}
      BY <2>2 DEF Nothing
    <2>6. n[i] <= inv[i].amount => inv[i].amount - B[i].amount = n[i]
      BY <2>1, <2>2, <2>3 DEF Nothing
    <2> QED BY <2>4, <2>5, <2>6
  <1>4. \A i \in 1 .. Slots \ S : B[i] = inv[i]
    BY <1>2
  <1>5. B \in Bags(Slots)
    BY <1>1, <1>2, <1>3, <1>4 DEF Bags
  <1>6. \A k \in Stackable, i \in 1 .. Slots : B[i].kind = k => inv[i].kind = k
    BY <1>1, <1>3, <1>4
  <1>7. Stacked(B)
    BY <1>1, <1>5, <1>6 DEF Stacked, Bags
  <1> QED BY <1>3, <1>4, <1>5, <1>7 DEF inv, B

LEMMA SaleTypes ==
  ASSUME ShopConstantsOK, ShopInv, NEW b \in Players, NEW S \in SUBSET (1 .. Slots),
         NEW n \in [S -> 1 .. MaxAmount], buyingstore_trade(b, S, n)
  PROVE  ShopInv'
  <1> DEFINE o == Owner(b)
  <1>1. /\ o # Void /\ seen' = [seen EXCEPT ![b] = NotSeen]
        /\ UNCHANGED <<prevend, autotrade, server, cart, max_weight, nextid, events>>
        /\ \/ SameShop(b, "buyingstore") /\ SaleAccepted(o, b, S, n, Limit(o)) /\ Sale(o, b, S, n, Limit(o))
           \/ SameShop(b, "buyingstore") /\ zenylimit' = [zenylimit EXCEPT ![o] = Limit(o)]
              /\ UNCHANGED <<online, shop, uid, list, inventory, zeny>>
           \/ UNCHANGED <<online, shop, uid, list, zenylimit, inventory, zeny>>
    BY Zenon DEF buyingstore_trade, Owner
  <1>2. CASE UNCHANGED <<online, shop, uid, list, zenylimit, inventory, zeny>>
    <2>1. zenylimit' \in [Players -> 0 .. MaxZeny]
      BY <1>2 DEF ShopInv, Flags
    <2> QED BY <1>1, <1>2, <2>1, Refused
  <1>3. CASE SameShop(b, "buyingstore") /\ zenylimit' = [zenylimit EXCEPT ![o] = Limit(o)]
             /\ UNCHANGED <<online, shop, uid, list, inventory, zeny>>
    <2>1. zenylimit' \in [Players -> 0 .. MaxZeny]
      <3>1. zenylimit \in [Players -> 0 .. MaxZeny] /\ zeny \in [Players -> 0 .. MaxZeny] /\ MaxZeny \in Nat
        BY DEF ShopInv, Flags, Owned, ShopConstantsOK
      <3>2. ASSUME o \in Players PROVE Limit(o) \in 0 .. MaxZeny
        <4>1. zenylimit[o] \in 0 .. MaxZeny /\ zeny[o] \in 0 .. MaxZeny
          BY <3>1, <3>2
        <4> QED BY <4>1 DEF Limit, AtMost
      <3> QED BY <1>3, <3>1, <3>2
    <2> QED BY <1>1, <1>3, <2>1, Refused
  <1>4. CASE SameShop(b, "buyingstore") /\ SaleAccepted(o, b, S, n, Limit(o)) /\ Sale(o, b, S, n, Limit(o))
    <2> DEFINE cost == SaleCost(o, b, S, n)
               filled == Received(o, inventory[o], SaleOrder(b, S, n))
               B == BackpackLeft(b, S, n)
               rest == WantedLeft(o, b, S, n)
               limit == Limit(o)
    <2>1. /\ o \in Players \ {b} /\ shop[o] = "buyingstore" /\ cost \in Nat /\ cost <= zeny[o]
          /\ limit - cost \in 0 .. MaxZeny
          /\ \A i \in S : AsWanted(o, b, n, i)
      BY <1>1, <1>4, SaleFacts
    <2>2. /\ inventory' = [inventory EXCEPT ![o] = filled, ![b] = B]
          /\ Pays(o, b, cost, cost)
          /\ \/ Done(o)
             \/ /\ list' = [list EXCEPT ![o] = rest] /\ zenylimit' = [zenylimit EXCEPT ![o] = limit - cost]
                /\ UNCHANGED <<online, shop, uid>>
      <3>1. o \in DOMAIN inventory /\ b \in DOMAIN inventory /\ o # b
        BY <2>1 DEF ShopInv, Owned
      <3> QED BY <1>4, <3>1, SaleIs
    <2>3. filled \in Bags(Slots) /\ Stacked(filled)
      <3>1. Cardinality(S) \in Nat /\ SaleOrder(b, S, n) \in Orders(Cardinality(S))
        BY <2>1, SaleOrderType DEF AsWanted
      <3>2. inventory[o] \in Bags(Slots) /\ Stacked(inventory[o])
        BY <2>1 DEF ShopInv, Owned
      <3> QED BY <3>1, <3>2, ReceivedType
    <2>4. B \in Bags(Slots) /\ Stacked(B)
      BY BackpackLeftType
    <2>5. IsStore(rest)
      BY <1>1, <1>4, WantedLeftType
    <2> HIDE DEF o, cost, filled, B, rest, limit
    <2>6. zeny' \in [Players -> 0 .. MaxZeny]
      <3>1. Owned /\ b \in Players \ {o}
        BY <2>1 DEF ShopInv
      <3> QED BY <2>1, <2>2, <3>1, PaysType
    <2>7. Owned'
      <3>1. inventory' \in [Players -> Bags(Slots)] /\ \A p \in Players : Stacked(inventory'[p])
        BY <2>1, <2>2, <2>3, <2>4 DEF ShopInv, Owned
      <3> QED BY <1>1, <2>6, <3>1 DEF ShopInv, Owned
    <2>8. Stores'
      BY <1>1 DEF ShopInv, Stores, server
    <2>9. CASE Done(o)
      <3>1. Flags' /\ Lists'
        BY <1>1, <2>1, <2>9, DoneFlags
      <3>2. \A p \in Players : \/ shop'[p] = "none"
                               \/ shop'[p] = shop[p] /\ uid'[p] = uid[p] /\ LeftOf(list'[p], list[p])
        BY <2>1, <2>9, ClosedShops DEF Done
      <3>3. Views'
        BY <1>1, <3>2, LaterViews DEF ShopInv
      <3> QED BY <2>7, <2>8, <3>1, <3>3 DEF ShopInv
    <2>10. CASE /\ list' = [list EXCEPT ![o] = rest] /\ zenylimit' = [zenylimit EXCEPT ![o] = limit - cost]
                /\ UNCHANGED <<online, shop, uid>>
      <3>1. Flags'
        BY <1>1, <2>1, <2>10 DEF ShopInv, Flags
      <3>2. list = [p \in Players |-> list[p]] /\ \A p \in Players : Fits(shop[p], list[p])
        BY DEF ShopInv, Lists
      <3>3. Fits("buyingstore", rest)
        BY <2>5 DEF Fits
      <3>4. Lists'
        BY <2>1, <2>10, <3>2, <3>3 DEF Lists
      <3>5. \A l : LeftOf(l, l)
        BY DEF LeftOf
      <3>6. \A p \in Players : shop[p] = "vending" => LeftOf(list'[p], list[p])
        BY <2>1, <2>10, <3>2, <3>5
      <3>7. Views'
        BY <1>1, <2>10, <3>6, LaterViews DEF ShopInv
      <3> QED BY <2>7, <2>8, <3>1, <3>4, <3>7 DEF ShopInv
    <2> QED BY <2>2, <2>9, <2>10
  <1> QED BY <1>1, <1>2, <1>3, <1>4

-----------------------------------------------------------------------------
(* What a step can be. *)
LEMMA ActCases ==
  ASSUME NEW p \in Players, Act(p)
  PROVE  \/ \E i \in 1 .. Slots : pc_putitemtocart(p, i)
         \/ \E i \in 1 .. CartSlots : pc_getitemfromcart(p, i)
         \/ \/ WeightDrops(p) \/ Costs(p)
            \/ \E i \in 1 .. CartSlots : TakenFromCart(p, i)
            \/ \E i \in 1 .. Slots : TakenFromBackpack(p, i)
         \/ pc_autosave_cart(p) \/ SkillVending(p)
         \/ CancelVending(p) \/ Autotrade(p)
         \/ Close(p) \/ map_quit_shop(p)
         \/ \E S \in SUBSET (1 .. CartSlots) : \E n \in [S -> 1 .. MaxAmount], v \in PriceTags :
              vending_openvending(p, S, n, v)
         \/ \E S \in SUBSET Wanted, limit \in 1 .. MaxZeny : \E n \in [S -> 1 .. MaxAmount], v \in [S -> Offered] :
              buyingstore_create(p, S, n, v, limit)
         \/ \E owner \in Players : OpenList(p, owner)
         \/ \E S \in SUBSET DOMAIN seen[p].list : \E n \in [S -> 1 .. MaxAmount] : vending_purchasereq(p, S, n)
         \/ \E S \in SUBSET (1 .. Slots) : \E n \in [S -> 1 .. MaxAmount] : buyingstore_trade(p, S, n)
  <1>1. ASSUME SetsUpVending(p)
        PROVE  \E S \in SUBSET (1 .. CartSlots) : \E n \in [S -> 1 .. MaxAmount], v \in PriceTags :
                 vending_openvending(p, S, n, v)
    <2>1. PICK S \in SUBSET (1 .. CartSlots) :
                 \E n \in Pieces(S, LAMBDA i : cart[p][i].amount), v \in PriceTags : vending_openvending(p, S, n, v)
      BY <1>1 DEF SetsUpVending, Chosen
    <2> QED BY <2>1 DEF Pieces
  <1>2. ASSUME SetsUpStore(p)
        PROVE  \E S \in SUBSET Wanted, limit \in 1 .. MaxZeny :
                 \E n \in [S -> 1 .. MaxAmount], v \in [S -> Offered] : buyingstore_create(p, S, n, v, limit)
    BY <1>2 DEF SetsUpStore, Chosen
  <1>3. ASSUME Buys(p)
        PROVE  \E S \in SUBSET DOMAIN seen[p].list : \E n \in [S -> 1 .. MaxAmount] : vending_purchasereq(p, S, n)
    <2>1. PICK S \in SUBSET DOMAIN seen[p].list :
                 \E n \in Pieces(S, LAMBDA j : seen[p].list[j].amount) : vending_purchasereq(p, S, n)
      BY <1>3 DEF Buys, Chosen
    <2> QED BY <2>1 DEF Pieces
  <1>4. ASSUME Sells(p)
        PROVE  \E S \in SUBSET (1 .. Slots) : \E n \in [S -> 1 .. MaxAmount] : buyingstore_trade(p, S, n)
    <2>1. PICK S \in SUBSET (1 .. Slots) :
                 \E n \in Pieces(S, LAMBDA i : inventory[p][i].amount) : buyingstore_trade(p, S, n)
      BY <1>4 DEF Sells, Chosen
    <2> QED BY <2>1 DEF Pieces
  <1> QED BY <1>1, <1>2, <1>3, <1>4 DEF Act

LEMMA StepTypes == ASSUME ShopConstantsOK, ShopInv, [ShopNext]_shopvars PROVE ShopInv'
  <1>1. CASE UNCHANGED shopvars
    <2>1. Lists' /\ Views'
      BY <1>1, NothingListed DEF ShopInv, shopvars, stalls
    <2> QED BY <1>1, <2>1 DEF ShopInv, Flags, Owned, Stores, shopvars, stalls, server, goods
  <1>2. ASSUME NEW p \in Players, Act(p) PROVE ShopInv'
    <2>1. CASE \E i \in 1 .. Slots : pc_putitemtocart(p, i)
      BY <2>1, PutInCart
    <2>2. CASE \E i \in 1 .. CartSlots : pc_getitemfromcart(p, i)
      BY <2>2, GetFromCart
    <2>3. CASE \/ WeightDrops(p) \/ Costs(p)
               \/ \E i \in 1 .. CartSlots : TakenFromCart(p, i)
               \/ \E i \in 1 .. Slots : TakenFromBackpack(p, i)
      BY <2>3, TakenTypes
    <2>4. CASE pc_autosave_cart(p) \/ SkillVending(p)
      BY <2>4, SaveTypes
    <2>5. CASE CancelVending(p) \/ Autotrade(p)
      BY <2>5, WaitTypes
    <2>6. CASE Close(p) \/ map_quit_shop(p)
      BY <2>6, CloseTypes
    <2>7. CASE \E S \in SUBSET (1 .. CartSlots) : \E n \in [S -> 1 .. MaxAmount], v \in PriceTags :
                 vending_openvending(p, S, n, v)
      BY <2>7, VendingTypes
    <2>8. CASE \E S \in SUBSET Wanted, limit \in 1 .. MaxZeny :
                 \E n \in [S -> 1 .. MaxAmount], v \in [S -> Offered] : buyingstore_create(p, S, n, v, limit)
      BY <2>8, StoreTypes
    <2>9. CASE \E owner \in Players : OpenList(p, owner)
      BY <2>9, LookTypes
    <2>10. CASE \E S \in SUBSET DOMAIN seen[p].list : \E n \in [S -> 1 .. MaxAmount] : vending_purchasereq(p, S, n)
      BY <2>10, PurchaseTypes
    <2>11. CASE \E S \in SUBSET (1 .. Slots) : \E n \in [S -> 1 .. MaxAmount] : buyingstore_trade(p, S, n)
      BY <2>11, SaleTypes
    <2> QED BY <1>2, <2>1, <2>2, <2>3, <2>4, <2>5, <2>6, <2>7, <2>8, <2>9, <2>10, <2>11, ActCases
  <1>3. ASSUME NEW p \in Players, ReceiveReply(p) PROVE ShopInv'
    BY <1>3, ReplyTypes
  <1> QED BY <1>1, <1>2, <1>3 DEF ShopNext

THEOREM ShopInvariant == ShopConstantsOK => (ShopSpec => []ShopInv)
  <1> SUFFICES ASSUME ShopConstantsOK PROVE ShopSpec => []ShopInv
    OBVIOUS
  <1>1. ShopInit => ShopInv
    BY ShopFirst
  <1>2. ShopInv /\ [ShopNext]_shopvars => ShopInv'
    BY StepTypes
  <1> QED BY <1>1, <1>2, PTL DEF ShopSpec

(* Whatever the shops, slots, prices and weights are, the state keeps its  *)
(* types: however lists age, no amount of a list falls below zero, where   *)
(* it would wrap around, nor does the limit of a buying store or a purse,  *)
(* and no purse is over its maximum.                                       *)
THEOREM ShopsTypeOK == ShopConstantsOK => (ShopSpec => []ShopTypes)
  <1> SUFFICES ASSUME ShopConstantsOK PROVE ShopSpec => []ShopTypes
    OBVIOUS
  <1>1. ShopInv => ShopTypes
    BY TypesHold
  <1>2. ShopSpec => []ShopInv
    BY ShopInvariant
  <1> QED BY <1>1, <1>2, PTL

-----------------------------------------------------------------------------
(* Sums in which most summands are zero. *)

(* Any summand can be taken out first. *)
AnyOrder(g, f, D) == /\ \A s \in SUBSET D : g[s] \in Int
                     /\ \A s \in SUBSET D : \A x \in s : g[s] = f[x] + g[s \ {x}]
LEMMA AnyFirst ==
  ASSUME NEW D, IsFiniteSet(D), NEW f \in [D -> Int], NEW g, Additive!Unfolds(g, f, SUBSET D)
  PROVE  AnyOrder(g, f, D)
  <1>0. Additive!IsFiniteSet(D)
    BY DEF Additive!IsFiniteSet, IsFiniteSet
  <1>1. /\ \A s \in SUBSET D : Cardinality(s) \in Nat
        /\ \A s \in SUBSET D : s # {} => Additive!Picked(s) \in s /\ Additive!Others(s) \in SUBSET D
    <2>1. \A s \in SUBSET D : Cardinality(s) \in Nat
      BY FS_Subset, FS_CardinalityType
    <2>2. \A s \in SUBSET D : s # {} => Additive!Picked(s) \in s /\ Additive!Others(s) \in SUBSET D
      BY DEF Additive!Picked, Additive!Others
    <2> QED BY <2>1, <2>2
  <1>2. \A s \in SUBSET D : s # {} => g[s] = f[Additive!Picked(s)] + g[Additive!Others(s)]
    BY DEF Additive!Unfolds, Plus
  <1> DEFINE Q == {s \in SUBSET D : g[s] \in Int}
  <1>3. {} \in Q
    BY DEF Additive!Unfolds
  <1>4. ASSUME NEW s \in SUBSET D, s # {}, Additive!Others(s) \in Q PROVE s \in Q
    <2>1. f[Additive!Picked(s)] \in Int
      BY <1>1, <1>4
    <2> QED BY <1>2, <1>4, <2>1
  <1> HIDE DEF Q
  <1>5. Q = SUBSET D
    <2>1. Q \in SUBSET SUBSET D
      BY DEF Q
    <2> QED BY <1>0, <1>3, <1>4, <2>1, Additive!SubsetInduction
  <1>6. \A s \in SUBSET D : g[s] \in Int
    BY <1>5 DEF Q
  <1> DEFINE Good(s) == \A x \in s : g[s] = f[x] + g[s \ {x}]
             Bad == {s \in SUBSET D : ~Good(s)}
             Sizes == {Cardinality(s) : s \in Bad}
  <1>7. SUFFICES ASSUME Bad # {} PROVE FALSE
    BY <1>6 DEF AnyOrder
  <1>8. PICK m \in Sizes : \A k \in Sizes : m <= k
    <2>1. Sizes \in SUBSET Nat /\ Sizes # {}
      BY <1>1, <1>7
    <2> HIDE DEF Sizes
    <2> QED BY <2>1, Additive!LeastElement
  <1>9. PICK s \in Bad : Cardinality(s) = m
    OBVIOUS
  <1>10. s \in SUBSET D /\ ~Good(s) /\ IsFiniteSet(s) /\ m \in Nat
    BY <1>1, <1>9, FS_Subset
  <1>11. \A x \in s : Good(s \ {x})
    <2> SUFFICES ASSUME NEW x \in s, ~Good(s \ {x}) PROVE FALSE
      OBVIOUS
    <2>1. Cardinality(s \ {x}) = m - 1
      BY <1>9, <1>10, FS_RemoveElement
    <2>2. s \ {x} \in Bad
      BY <1>10
    <2> HIDE DEF Bad
    <2>3. m - 1 \in Sizes
      BY <2>1, <2>2
    <2>4. m <= m - 1
      BY <1>8, <2>3
    <2> QED BY <1>10, <2>4
  <1>12. PICK x \in s : g[s] # f[x] + g[s \ {x}]
    BY <1>10
  <1> DEFINE y == Additive!Picked(s)
  <1>13. y \in s /\ g[s] = f[y] + g[s \ {y}]
    BY <1>1, <1>2, <1>10, <1>12 DEF Additive!Others
  <1> HIDE DEF y, Bad, Sizes
  <1>14. y # x
    BY <1>12, <1>13
  <1>15. g[s \ {y}] = f[x] + g[(s \ {y}) \ {x}]
    BY <1>11, <1>13, <1>14
  <1>16. g[s \ {x}] = f[y] + g[(s \ {x}) \ {y}]
    BY <1>11, <1>13, <1>14
  <1> DEFINE r == (s \ {x}) \ {y}
  <1>17. (s \ {y}) \ {x} = r /\ r \in SUBSET D
    BY <1>10
  <1> HIDE DEF r, Good
  <1>18. g[r] \in Int /\ f[x] \in Int /\ f[y] \in Int
    BY <1>6, <1>10, <1>12, <1>13, <1>17
  <1>19. g[s \ {y}] = f[x] + g[r]
    BY <1>15, <1>17
  <1>20. g[s \ {x}] = f[y] + g[r]
    BY <1>16 DEF r
  <1>21. g[s] = f[x] + g[s \ {x}]
    BY <1>13, <1>18, <1>19, <1>20
  <1> QED BY <1>12, <1>21

(* Summands that are zero can be left out. *)
LEMMA SumOfPart ==
  ASSUME NEW D, IsFiniteSet(D), NEW f \in [D -> Int], NEW S \in SUBSET D, NEW h \in [S -> Int],
         \A x \in S : f[x] = h[x], \A x \in D \ S : f[x] = 0
  PROVE  Sum(f) = Sum(h) /\ Sum(f) \in Int
  <1>0. IsFiniteSet(S) /\ Additive!IsFiniteSet(D)
    <2>1. IsFiniteSet(S)
      BY FS_Subset
    <2>2. Additive!IsFiniteSet(D)
      BY DEF Additive!IsFiniteSet, IsFiniteSet
    <2> QED BY <2>1, <2>2
  <1>1. PICK F : Additive!Unfolds(F, f, SUBSET D) /\ Sum(f) = F[D]
    BY SumUnfolds
  <1>2. PICK H : Additive!Unfolds(H, h, SUBSET S) /\ Sum(h) = H[S]
    BY <1>0, SumUnfolds
  <1>3. /\ \A s \in SUBSET D : F[s] \in Int
        /\ \A s \in SUBSET D : \A x \in s : F[s] = f[x] + F[s \ {x}]
    <2>1. AnyOrder(F, f, D)
      BY <1>1, AnyFirst
    <2> QED BY <2>1 DEF AnyOrder
  <1>4. /\ \A s \in SUBSET S : H[s] \in Int
        /\ \A s \in SUBSET S : \A x \in s : H[s] = h[x] + H[s \ {x}]
    <2>1. AnyOrder(H, h, S)
      BY <1>0, <1>2, AnyFirst
    <2> QED BY <2>1 DEF AnyOrder
  <1> DEFINE Q == {s \in SUBSET D : F[s] = H[s \cap S]}
  <1>5. {} \in Q
    <2>1. {} \cap S = {} /\ F[{}] = 0 /\ H[{}] = 0
      BY <1>1, <1>2 DEF Additive!Unfolds
    <2> QED BY <2>1
  <1>6. ASSUME NEW s \in SUBSET D, s # {}, Additive!Others(s) \in Q PROVE s \in Q
    <2> DEFINE x == Additive!Picked(s)
    <2>1. x \in s /\ x \in D /\ Additive!Others(s) = s \ {x}
      BY <1>6 DEF Additive!Picked, Additive!Others
    <2>2. F[s \ {x}] = H[(s \ {x}) \cap S]
      BY <1>6, <2>1
    <2> HIDE DEF x
    <2>3. F[s] = f[x] + F[s \ {x}]
      BY <1>3, <2>1
    <2>4. CASE x \in S
      <3>1. x \in s \cap S /\ (s \ {x}) \cap S = (s \cap S) \ {x} /\ s \cap S \in SUBSET S
        BY <2>1, <2>4
      <3>2. H[s \cap S] = h[x] + H[(s \cap S) \ {x}]
        BY <1>4, <3>1
      <3>3. f[x] = h[x]
        BY <2>4
      <3> QED BY <2>2, <2>3, <3>1, <3>2, <3>3
    <2>5. CASE x \notin S
      <3>1. f[x] = 0 /\ (s \ {x}) \cap S = s \cap S /\ s \cap S \in SUBSET S
        BY <2>1, <2>5
      <3>2. H[s \cap S] \in Int
        BY <1>4, <3>1
      <3> QED BY <2>2, <2>3, <3>1, <3>2
    <2> QED BY <2>4, <2>5
  <1> HIDE DEF Q
  <1>7. Q = SUBSET D
    <2>1. Q \in SUBSET SUBSET D
      BY DEF Q
    <2> QED BY <1>0, <1>5, <1>6, <2>1, Additive!SubsetInduction
  <1>8. F[D] = H[D \cap S] /\ D \cap S = S
    BY <1>7 DEF Q
  <1> QED BY <1>1, <1>2, <1>3, <1>8

-----------------------------------------------------------------------------
(* Who pays: the customer of a vending shop, the owner of a buying store,  *)
(* or somebody to whom something happens.                                  *)

Bought(p, S, n) == PurchaseAccepted(p, S, n) /\ Purchase(p, S, n) /\ Owner(p) # Void
SoldTo(o, b, S, n) == /\ Owner(b) = o /\ o # Void /\ SameShop(b, "buyingstore")
                      /\ SaleAccepted(o, b, S, n, Limit(o)) /\ Sale(o, b, S, n, Limit(o))

LEMMA RequestCases ==
  ASSUME NEW q, NEW S, NEW n
  PROVE  /\ vending_purchasereq(q, S, n) => Bought(q, S, n) \/ UNCHANGED goods
         /\ buyingstore_trade(q, S, n) => /\ UNCHANGED cart
                                          /\ SoldTo(Owner(q), q, S, n) \/ UNCHANGED <<inventory, zeny>>
  <1>1. vending_purchasereq(q, S, n) => Bought(q, S, n) \/ UNCHANGED goods
    BY Zenon DEF vending_purchasereq, Bought, Owner
  <1>2. buyingstore_trade(q, S, n) => /\ UNCHANGED cart
                                      /\ SoldTo(Owner(q), q, S, n) \/ UNCHANGED <<inventory, zeny>>
    BY Zenon DEF buyingstore_trade, SoldTo, Owner
  <1> QED BY <1>1, <1>2

(* A customer pays the shop. *)
LEMMA BoughtPays ==
  ASSUME ShopConstantsOK, ShopInv, NEW q \in Players, NEW S \in SUBSET DOMAIN seen[q].list,
         NEW n \in [S -> 1 .. MaxAmount], Bought(q, S, n)
  PROVE  /\ zeny'[q] = zeny[q] - PurchaseCost(q, S, n)
         /\ \A p \in Players \ {q} : zeny'[p] >= zeny[p]
         /\ inventory' = [inventory EXCEPT ![q] = Received(q, inventory[q], PurchaseOrder(q, S, n))]
         /\ cart' = [cart EXCEPT ![Owner(q)] = CartLeft(q, S, n)]
  <1> DEFINE s == Owner(q)
             cost == PurchaseCost(q, S, n)
  <1>1. /\ s \in Players \ {q} /\ cost \in Nat /\ cost <= zeny[q]
    BY PurchaseFacts DEF Bought
  <1>2. /\ inventory' = [inventory EXCEPT ![q] = Received(q, inventory[q], PurchaseOrder(q, S, n))]
        /\ cart' = [cart EXCEPT ![s] = CartLeft(q, S, n)]
        /\ Pays(q, s, cost, vending_calc_tax(cost))
    <2>1. s \in DOMAIN cart /\ q \in DOMAIN inventory
      BY <1>1 DEF ShopInv, Owned
    <2> QED BY <2>1, PurchaseIs DEF Bought
  <1>3. vending_calc_tax(cost) \in Nat /\ Owned
    BY <1>1, TaxType DEF ShopInv
  <1> HIDE DEF s, cost
  <1>4. zeny'[q] = zeny[q] - cost /\ \A p \in Players \ {q} : zeny'[p] >= zeny[p]
    BY <1>1, <1>2, <1>3, PaysType
  <1> QED BY <1>2, <1>4 DEF s, cost

(* The owner of a buying store pays the visitor. *)
(* The pieces go from the backpack of b into the one of o. *)
HandsOver(o, b, S, n) ==
  inventory' = [inventory EXCEPT ![o] = Received(o, inventory[o], SaleOrder(b, S, n)),
                                 ![b] = BackpackLeft(b, S, n)]

LEMMA SoldPays ==
  ASSUME ShopConstantsOK, ShopInv, NEW q \in Players, NEW o, NEW S \in SUBSET (1 .. Slots),
         NEW n \in [S -> 1 .. MaxAmount], SoldTo(o, q, S, n)
  PROVE  /\ o \in Players \ {q}
         /\ zeny'[o] = zeny[o] - SaleCost(o, q, S, n)
         /\ \A p \in Players \ {o} : zeny'[p] >= zeny[p]
         /\ HandsOver(o, q, S, n)
  <1> DEFINE cost == SaleCost(o, q, S, n)
  <1>1. o \in Players \ {q} /\ cost \in Nat /\ cost <= zeny[o]
    BY SaleFacts DEF SoldTo
  <1>2. /\ inventory' = [inventory EXCEPT ![o] = Received(o, inventory[o], SaleOrder(q, S, n)),
                                          ![q] = BackpackLeft(q, S, n)]
        /\ Pays(o, q, cost, cost)
    <2>1. o \in DOMAIN inventory /\ q \in DOMAIN inventory /\ o # q
      BY <1>1 DEF ShopInv, Owned
    <2> QED BY <2>1, SaleIs DEF SoldTo
  <1> HIDE DEF cost
  <1>3. Owned /\ q \in Players \ {o}
    BY <1>1 DEF ShopInv
  <1>4. zeny'[o] = zeny[o] - cost /\ \A p \in Players \ {o} : zeny'[p] >= zeny[p]
    BY <1>1, <1>2, <1>3, PaysType
  <1> QED BY <1>1, <1>2, <1>4 DEF cost, HandsOver

LEMMA WhoPays ==
  ASSUME ShopConstantsOK, ShopInv, ShopNext, NEW p \in Players, zeny'[p] < zeny[p]
  PROVE  \/ UNCHANGED <<inventory, cart>>
         \/ \E S \in SUBSET DOMAIN seen[p].list : \E n \in [S -> 1 .. MaxAmount] : Bought(p, S, n)
         \/ /\ UNCHANGED cart
            /\ \E b \in Players, S \in SUBSET (1 .. Slots) : \E n \in [S -> 1 .. MaxAmount] : SoldTo(p, b, S, n)
  <1>0. zeny[p] \in Int /\ zeny' # zeny
    BY DEF ShopInv, Owned
  <1>1. PICK q \in Players : Act(q) \/ ReceiveReply(q)
    BY DEF ShopNext
  <1>2. \/ UNCHANGED zeny \/ UNCHANGED <<inventory, cart>>
        \/ \E S \in SUBSET DOMAIN seen[q].list : \E n \in [S -> 1 .. MaxAmount] : vending_purchasereq(q, S, n)
        \/ \E S \in SUBSET (1 .. Slots) : \E n \in [S -> 1 .. MaxAmount] : buyingstore_trade(q, S, n)
    <2>1. ReceiveReply(q) => UNCHANGED zeny
      BY Zenon DEF ReceiveReply
    <2>2. ASSUME Act(q)
          PROVE  \/ UNCHANGED zeny \/ UNCHANGED <<inventory, cart>>
                 \/ \E S \in SUBSET DOMAIN seen[q].list : \E n \in [S -> 1 .. MaxAmount] :
                      vending_purchasereq(q, S, n)
                 \/ \E S \in SUBSET (1 .. Slots) : \E n \in [S -> 1 .. MaxAmount] : buyingstore_trade(q, S, n)
      <3>1. (\E i \in 1 .. Slots : pc_putitemtocart(q, i)) => UNCHANGED zeny
        BY DEF pc_putitemtocart
      <3>2. (\E i \in 1 .. CartSlots : pc_getitemfromcart(q, i)) => UNCHANGED zeny
        BY DEF pc_getitemfromcart
      <3>3. /\ WeightDrops(q) => UNCHANGED zeny
            /\ Costs(q) => UNCHANGED <<inventory, cart>>
            /\ (\E i \in 1 .. CartSlots : TakenFromCart(q, i)) => UNCHANGED zeny
            /\ (\E i \in 1 .. Slots : TakenFromBackpack(q, i)) => UNCHANGED zeny
        BY DEF WeightDrops, Costs, TakenFromCart, TakenFromBackpack, goods
      <3>4. /\ pc_autosave_cart(q) \/ SkillVending(q) => UNCHANGED zeny
            /\ CancelVending(q) \/ Autotrade(q) => UNCHANGED zeny
            /\ Close(q) \/ map_quit_shop(q) => UNCHANGED zeny
        BY DEF pc_autosave_cart, SkillVending, CancelVending, Autotrade, Close, map_quit_shop, goods
      <3>5. /\ \A S, n, v : vending_openvending(q, S, n, v) => UNCHANGED zeny
            /\ \A S, n, v, limit : buyingstore_create(q, S, n, v, limit) => UNCHANGED zeny
            /\ \A owner : OpenList(q, owner) => UNCHANGED zeny
        BY Zenon DEF vending_openvending, buyingstore_create, OpenList, goods
      <3> QED BY <2>2, <3>1, <3>2, <3>3, <3>4, <3>5, ActCases
    <2> QED BY <1>1, <2>1, <2>2
  <1>3. ASSUME NEW S \in SUBSET DOMAIN seen[q].list, NEW n \in [S -> 1 .. MaxAmount], vending_purchasereq(q, S, n)
        PROVE  Bought(p, S, n) /\ q = p
    <2>1. Bought(q, S, n)
      BY <1>0, <1>3, RequestCases DEF goods
    <2>2. \A r \in Players \ {q} : zeny'[r] >= zeny[r]
      BY <2>1, BoughtPays
    <2>3. q = p
      <3> SUFFICES ASSUME q # p PROVE FALSE
        OBVIOUS
      <3>1. zeny'[p] >= zeny[p]
        BY <2>2
      <3>2. zeny'[p] \in Int
        <4>1. ShopInv'
          BY StepTypes
        <4> QED BY <4>1 DEF ShopInv, Owned
      <3> QED BY <1>0, <3>1, <3>2
    <2> QED BY <2>1, <2>3
  <1>4. ASSUME NEW S \in SUBSET (1 .. Slots), NEW n \in [S -> 1 .. MaxAmount], buyingstore_trade(q, S, n)
        PROVE  UNCHANGED cart /\ SoldTo(p, q, S, n)
    <2>1. UNCHANGED cart /\ SoldTo(Owner(q), q, S, n)
      BY <1>0, <1>4, RequestCases
    <2>2. PICK o : o = Owner(q)
      OBVIOUS
    <2>3. SoldTo(o, q, S, n)
      BY <2>1, <2>2
    <2>4. \A r \in Players \ {o} : zeny'[r] >= zeny[r]
      BY <2>3, SoldPays
    <2>5. o = p
      <3> SUFFICES ASSUME o # p PROVE FALSE
        OBVIOUS
      <3>1. zeny'[p] >= zeny[p]
        BY <2>4
      <3>2. zeny'[p] \in Int
        <4>1. ShopInv'
          BY StepTypes
        <4> QED BY <4>1 DEF ShopInv, Owned
      <3> QED BY <1>0, <3>1, <3>2
    <2> QED BY <2>1, <2>3, <2>5
  <1> QED BY <1>0, <1>2, <1>3, <1>4

-----------------------------------------------------------------------------
(* A customer pays what its own list says. *)

LEMMA BoughtAsSeen ==
  ASSUME ShopConstantsOK, ShopInv, NEW b \in Players, NEW S \in SUBSET DOMAIN seen[b].list,
         NEW n \in [S -> 1 .. MaxAmount], Bought(b, S, n)
  PROVE  zeny[b] - zeny'[b] =
           Sum([j \in DOMAIN seen[b].list |->
                  seen[b].list[j].value * (cart[Owner(b)][At(b, j)].amount - cart'[Owner(b)][At(b, j)].amount)])
  <1> DEFINE s == Owner(b)
             v == seen[b].list
             C == CartLeft(b, S, n)
             h == [j \in S |-> n[j] * Now(b, j).value]
             f == [j \in DOMAIN v |-> v[j].value * (cart[s][At(b, j)].amount - C[At(b, j)].amount)]
  <1>1. /\ s \in Players \ {b} /\ IsVending(v) /\ \A j \in S : AsSeen(b, n, j)
        /\ PurchaseCost(b, S, n) \in Nat
    BY PurchaseFacts DEF Bought
  <1>2. /\ C \in Bags(CartSlots)
        /\ \A i \in 1 .. CartSlots : Sold(b, S, i) = {} => C[i] = cart[s][i]
        /\ \A j \in S : cart[s][At(b, j)].amount - C[At(b, j)].amount = n[j]
    BY CartLeftType DEF Bought
  <1>3. zeny'[b] = zeny[b] - PurchaseCost(b, S, n) /\ cart' = [cart EXCEPT ![s] = C]
    BY BoughtPays
  <1>4. cart[s] \in Bags(CartSlots) /\ cart'[s] = C
    BY <1>1, <1>3 DEF ShopInv, Owned
  <1>5. PICK N \in Nat : v \in [1 .. N -> VendingLine]
    BY <1>1 DEF IsVending
  <1> HIDE DEF C, s
  <1>6. ASSUME NEW j \in DOMAIN v
        PROVE  /\ v[j].value * (cart[s][At(b, j)].amount - C[At(b, j)].amount) \in Int
               /\ j \in S => v[j].value * (cart[s][At(b, j)].amount - C[At(b, j)].amount) = n[j] * Now(b, j).value
               /\ j \notin S => v[j].value * (cart[s][At(b, j)].amount - C[At(b, j)].amount) = 0
               /\ j \in S => n[j] * Now(b, j).value \in Int
    <2> DEFINE i == At(b, j)
               d == cart[s][i].amount - C[i].amount
               x == v[j].value
    <2>1. i = v[j].index /\ i \in 1 .. CartSlots /\ x \in Nat
      BY <1>5 DEF At, VendingLine
    <2>2. cart[s][i] \in ItemIn(Kinds) /\ C[i] \in ItemIn(Kinds)
      BY <1>2, <1>4, <2>1 DEF Bags
    <2>3. cart[s][i].amount \in Nat /\ C[i].amount \in Nat
      BY <2>2, ItemFacts
    <2>4. d \in Int
      BY <2>3
    <2>5. j \in S => d = n[j] /\ Now(b, j).value = x /\ n[j] \in Nat
      BY <1>1, <1>2 DEF AsSeen
    <2>6. j \notin S => d = 0
      <3> SUFFICES ASSUME j \notin S PROVE d = 0
        OBVIOUS
      <3>1. Sold(b, S, i) = {}
        <4> SUFFICES ASSUME NEW k \in S, At(b, k) = i PROVE FALSE
          BY DEF Sold
        <4>1. v[k].index = v[j].index /\ k \in DOMAIN v
          BY <2>1 DEF At
        <4>2. k = j
          BY <1>1, <4>1 DEF IsVending
        <4> QED BY <4>2
      <3>2. C[i] = cart[s][i]
        BY <1>2, <2>1, <3>1
      <3> QED BY <2>3, <3>2
    <2> HIDE DEF d, x
    <2>7. x * d \in Int /\ (j \in S => x * d = n[j] * Now(b, j).value) /\ (j \notin S => x * d = 0)
      <3>1. \A y, z \in Int : y * z \in Int /\ y * z = z * y /\ y * 0 = 0
        OBVIOUS
      <3>2. x \in Int
        BY <2>1
      <3>3. x * d \in Int /\ x * d = d * x /\ x * 0 = 0
        BY <2>4, <3>1, <3>2
      <3>4. j \in S => x * d = n[j] * Now(b, j).value
        BY <2>5, <3>3
      <3>5. j \notin S => x * d = 0
        BY <2>6, <3>3
      <3> QED BY <3>3, <3>4, <3>5
    <2>8. j \in S => n[j] * Now(b, j).value \in Int
      BY <2>7
    <2> QED BY <2>7, <2>8 DEF d, x, i
  <1>7. f \in [DOMAIN v -> Int]
    BY <1>6
  <1>8. h \in [S -> Int] /\ \A j \in S : f[j] = h[j]
    BY <1>6
  <1>9. \A j \in DOMAIN v \ S : f[j] = 0
    BY <1>6
  <1>10. IsFiniteSet(DOMAIN v)
    <2>1. IsFiniteSet(1 .. N)
      BY FS_Interval
    <2>2. DOMAIN v = 1 .. N
      BY <1>5
    <2> HIDE DEF v
    <2> QED BY <2>1, <2>2
  <1>11. Sum(f) = Sum(h)
    <2> HIDE DEF f, h, v
    <2>1. S \in SUBSET DOMAIN v
      BY DEF v
    <2> QED BY <1>7, <1>8, <1>9, <1>10, <2>1, SumOfPart
  <1>12. Sum(h) = PurchaseCost(b, S, n)
    BY DEF PurchaseCost
  <1>13. zeny[b] - zeny'[b] = Sum(f)
    <2> HIDE DEF f, h
    <2>1. zeny[b] \in Int
      BY DEF ShopInv, Owned
    <2> QED BY <1>1, <1>3, <1>11, <1>12, <2>1
  <1>14. zeny[b] - zeny'[b] =
           Sum([j \in DOMAIN v |-> v[j].value * (cart[s][At(b, j)].amount - cart'[s][At(b, j)].amount)])
    BY <1>4, <1>13
  <1> QED BY <1>14 DEF s, v

LEMMA PaysAsSeen == ASSUME ShopConstantsOK, ShopInv, ShopNext PROVE PaysItsList
  <1> SUFFICES ASSUME NEW b \in Players, zeny'[b] < zeny[b], cart' # cart
               PROVE  zeny[b] - zeny'[b] =
                        Sum([j \in DOMAIN seen[b].list |->
                               seen[b].list[j].value * (cart[Owner(b)][At(b, j)].amount
                                                        - cart'[Owner(b)][At(b, j)].amount)])
    BY Zenon DEF PaysItsList, Owner, At
  <1>1. \E S \in SUBSET DOMAIN seen[b].list : \E n \in [S -> 1 .. MaxAmount] : Bought(b, S, n)
    BY WhoPays
  <1> QED BY <1>1, BoughtAsSeen

-----------------------------------------------------------------------------
(* The owner of a buying store stays within what it offered.               *)

(* The pieces of a kind that is in one slot at most. *)
LEMMA CountOfOne ==
  ASSUME ShopConstantsOK, NEW inv \in Bags(Slots), NEW k \in Kinds, NEW i \in 1 .. Slots,
         \A j \in 1 .. Slots : inv[j].kind = k => j = i
  PROVE  Count(inv, k) = (IF inv[i].kind = k THEN inv[i].amount ELSE 0)
  <1> DEFINE f == [j \in 1 .. Slots |-> IF inv[j].kind = k THEN inv[j].amount ELSE 0]
             h == [j \in {i} |-> f[i]]
  <1>1. \A j \in 1 .. Slots : inv[j].amount \in Nat
    <2> SUFFICES ASSUME NEW j \in 1 .. Slots PROVE inv[j].amount \in Nat
      OBVIOUS
    <2>1. inv[j] \in ItemIn(Kinds)
      BY DEF Bags
    <2> QED BY <2>1, ItemFacts
  <1>2. f \in [1 .. Slots -> Int] /\ f[i] \in Nat
    BY <1>1
  <1>3. \A j \in (1 .. Slots) \ {i} : f[j] = 0
    OBVIOUS
  <1>4. Count(inv, k) = Sum(f)
    BY DEF Count, Bags
  <1>5. f[i] = (IF inv[i].kind = k THEN inv[i].amount ELSE 0)
    OBVIOUS
  <1> HIDE DEF f
  <1>6. h \in [{i} -> Int] /\ h \in [{i} -> Nat] /\ h[i] = f[i]
    BY <1>2
  <1> HIDE DEF h
  <1>7. IsFiniteSet(1 .. Slots) /\ {i} \in SUBSET (1 .. Slots)
    BY FS_Interval DEF ShopConstantsOK
  <1>8. Sum(f) = Sum(h)
    <2> DEFINE D == 1 .. Slots
               S == {i}
    <2>1. /\ IsFiniteSet(D) /\ f \in [D -> Int] /\ S \in SUBSET D /\ h \in [S -> Int]
          /\ \A x \in S : f[x] = h[x]
          /\ \A x \in D \ S : f[x] = 0
      BY <1>2, <1>3, <1>6, <1>7
    <2> HIDE DEF D, S
    <2> QED BY <2>1, SumOfPart
  <1>9. Sum(h) = h[i]
    <2>1. {i} \subseteq {i} /\ i \in {i}
      OBVIOUS
    <2> QED BY <1>6, <2>1, SumOfFew
  <1> QED BY <1>4, <1>5, <1>6, <1>8, <1>9

LEMMA SoldAsWanted ==
  ASSUME ShopConstantsOK, ShopInv, NEW b \in Players, NEW o, NEW S \in SUBSET (1 .. Slots),
         NEW n \in [S -> 1 .. MaxAmount], SoldTo(o, b, S, n), NEW k \in Kinds,
         Count(inventory[b], k) - Count(BackpackLeft(b, S, n), k) > 0
  PROVE  /\ WantedLine(o, k) # {}
         /\ Count(inventory[b], k) - Count(BackpackLeft(b, S, n), k) <= Wants(o, k).amount
  <1> DEFINE inv == inventory[b]
             B == BackpackLeft(b, S, n)
  <1>1. \A i \in S : AsWanted(o, b, n, i)
    BY SaleFacts DEF SoldTo
  <1>2. inv \in Bags(Slots) /\ Void \notin Kinds /\ MaxAmount \in Nat /\ Slots \in Nat
    BY DEF ShopInv, Owned, ShopConstantsOK
  <1>3. /\ B \in Bags(Slots)
        /\ \A i \in 1 .. Slots \ S : B[i] = inv[i]
        /\ \A i \in S : /\ B[i].kind \in {Void, inv[i].kind}
                        /\ n[i] <= inv[i].amount => inv[i].amount - B[i].amount = n[i]
    BY BackpackLeftType
  <1> HIDE DEF inv, B
  <1>4. \A i \in 1 .. Slots : inv[i].amount \in Nat /\ B[i].amount \in Nat /\ (B[i].kind = Void => B[i].amount = 0)
    <2> SUFFICES ASSUME NEW i \in 1 .. Slots
                 PROVE  inv[i].amount \in Nat /\ B[i].amount \in Nat /\ (B[i].kind = Void => B[i].amount = 0)
      OBVIOUS
    <2>1. inv[i] \in ItemIn(Kinds) /\ B[i] \in ItemIn(Kinds)
      BY <1>2, <1>3 DEF Bags
    <2>2. inv[i].amount \in Nat
      BY <2>1, ItemFacts
    <2>3. B[i].amount \in Nat /\ (B[i] = Nothing <=> B[i].kind = Void) /\ (B[i] = Nothing <=> B[i].amount = 0)
      BY <2>1, ItemFacts
    <2> QED BY <2>2, <2>3
  <1>5. PICK i \in S : inv[i].kind = k
    <2> SUFFICES ASSUME \A i \in S : inv[i].kind # k PROVE FALSE
      OBVIOUS
    <2> DEFINE f == [i \in 1 .. Slots |-> IF inv[i].kind = k THEN inv[i].amount ELSE 0]
               g == [i \in 1 .. Slots |-> IF B[i].kind = k THEN B[i].amount ELSE 0]
    <2>1. \A i \in 1 .. Slots : f[i] = g[i]
      BY <1>2, <1>3
    <2>2. f = g
      BY <2>1
    <2>3. Count(inv, k) = Sum(f) /\ Count(B, k) = Sum(g)
      BY <1>2, <1>3 DEF Count, Bags
    <2>4. Sum(f) \in Nat
      <3>1. f \in [1 .. Slots -> Nat]
        BY <1>4
      <3>2. IsFiniteSet(1 .. Slots)
        BY <1>2, FS_Interval
      <3> HIDE DEF f
      <3> QED BY <3>1, <3>2, SumType
    <2> HIDE DEF f, g
    <2> QED BY <2>2, <2>3, <2>4 DEF inv, B
  <1>6. i \in 1 .. Slots /\ \A j \in 1 .. Slots : inv[j].kind = k => j = i
    BY <1>1, <1>5 DEF AsWanted, Kind, inv
  <1>7. \A j \in 1 .. Slots : B[j].kind = k => j = i
    BY <1>2, <1>3, <1>6
  <1>8. Count(inv, k) = inv[i].amount
    <2>1. Count(inv, k) = (IF inv[i].kind = k THEN inv[i].amount ELSE 0)
      BY <1>2, <1>6, CountOfOne
    <2> QED BY <1>5, <2>1
  <1>9. Count(B, k) = B[i].amount
    <2>1. Count(B, k) = (IF B[i].kind = k THEN B[i].amount ELSE 0)
      BY <1>3, <1>6, <1>7, CountOfOne
    <2>2. B[i].kind \in {Void, k}
      BY <1>3, <1>5
    <2> QED BY <1>4, <1>6, <2>1, <2>2
  <1>10. /\ WantedLine(o, k) # {} /\ n[i] <= Wants(o, k).amount /\ n[i] <= inv[i].amount
    BY <1>1, <1>5 DEF AsWanted, Kind, inv
  <1>11. Count(inv, k) - Count(B, k) = n[i]
    BY <1>3, <1>8, <1>9, <1>10
  <1> QED BY <1>10, <1>11 DEF inv, B

LEMMA PaysWithinBudget == ASSUME ShopConstantsOK, ShopInv, ShopNext PROVE KeepsBudget
  <1> SUFFICES ASSUME NEW o \in Players, NEW b \in Players \ {o}, zeny'[o] < zeny[o], inventory'[b] # inventory[b]
               PROVE  /\ zeny[o] - zeny'[o] <= zenylimit[o]
                      /\ \A k \in Kinds :
                           Count(inventory[b], k) - Count(inventory'[b], k) > 0 =>
                             /\ WantedLine(o, k) # {}
                             /\ Count(inventory[b], k) - Count(inventory'[b], k) <= Wants(o, k).amount
    BY Zenon DEF KeepsBudget
  <1>1. DOMAIN inventory = Players
    BY DEF ShopInv, Owned
  <1>2. ASSUME NEW S \in SUBSET DOMAIN seen[o].list, NEW n \in [S -> 1 .. MaxAmount], Bought(o, S, n)
        PROVE  FALSE
    <2>1. inventory' = [inventory EXCEPT ![o] = Received(o, inventory[o], PurchaseOrder(o, S, n))]
      BY <1>2, BoughtPays
    <2> QED BY <1>1, <2>1
  <1>3. PICK q \in Players, S \in SUBSET (1 .. Slots) : \E n \in [S -> 1 .. MaxAmount] : SoldTo(o, q, S, n)
    <2>1. inventory' # inventory
      OBVIOUS
    <2>2. \/ UNCHANGED <<inventory, cart>>
          \/ \E S \in SUBSET DOMAIN seen[o].list : \E n \in [S -> 1 .. MaxAmount] : Bought(o, S, n)
          \/ \E q \in Players, S \in SUBSET (1 .. Slots) : \E n \in [S -> 1 .. MaxAmount] : SoldTo(o, q, S, n)
      BY WhoPays
    <2> QED BY <1>2, <2>1, <2>2
  <1>4. PICK n \in [S -> 1 .. MaxAmount] : SoldTo(o, q, S, n)
    BY <1>3
  <1>5. /\ o # q /\ zeny'[o] = zeny[o] - SaleCost(o, q, S, n)
        /\ inventory' = [inventory EXCEPT ![o] = Received(o, inventory[o], SaleOrder(q, S, n)),
                                          ![q] = BackpackLeft(q, S, n)]
    <2>1. o \in Players \ {q} /\ zeny'[o] = zeny[o] - SaleCost(o, q, S, n)
      BY <1>4, SoldPays
    <2>2. HandsOver(o, q, S, n)
      BY <1>4, SoldPays
    <2> QED BY <2>1, <2>2 DEF HandsOver
  <1>6. q = b /\ inventory'[b] = BackpackLeft(b, S, n)
    BY <1>1, <1>5
  <1>7. zeny[o] - zeny'[o] <= zenylimit[o]
    <2>1. SaleCost(o, q, S, n) \in Nat /\ SaleCost(o, q, S, n) <= zenylimit[o]
      BY <1>4, SaleFacts DEF SoldTo
    <2>2. zeny[o] \in Int
      BY DEF ShopInv, Owned
    <2> QED BY <1>5, <2>1, <2>2
  <1>8. ASSUME NEW k \in Kinds, Count(inventory[b], k) - Count(inventory'[b], k) > 0
        PROVE  /\ WantedLine(o, k) # {}
               /\ Count(inventory[b], k) - Count(inventory'[b], k) <= Wants(o, k).amount
    <2>1. SoldTo(o, b, S, n)
      BY <1>4, <1>6
    <2>2. Count(inventory[b], k) - Count(BackpackLeft(b, S, n), k) > 0
      BY <1>6, <1>8
    <2>3. /\ WantedLine(o, k) # {}
          /\ Count(inventory[b], k) - Count(BackpackLeft(b, S, n), k) <= Wants(o, k).amount
      BY <2>1, <2>2, SoldAsWanted
    <2> QED BY <1>6, <2>3
  <1> QED BY <1>7, <1>8

-----------------------------------------------------------------------------
(* Whatever a shop sold to others, and however often it closed and opened  *)
(* again meanwhile, a customer pays for what leaves the cart exactly what  *)
(* the list in its own client says; and whatever happens to its purse      *)
(* while it is open, a buying store never pays beyond its limit, nor for a *)
(* kind or a piece more than its list still wants.                         *)
THEOREM CustomersPayAsAgreed == ShopConstantsOK => (ShopSpec => PaysAsAgreed)
  <1> SUFFICES ASSUME ShopConstantsOK PROVE ShopSpec => PaysAsAgreed
    OBVIOUS
  <1>1. ShopInv /\ [ShopNext]_shopvars => [AgreedPrice]_goods
    BY PaysAsSeen, PaysWithinBudget DEF shopvars, AgreedPrice
  <1>2. ShopSpec => []ShopInv
    BY ShopInvariant
  <1> QED BY <1>1, <1>2, PTL DEF ShopSpec, PaysAsAgreed
-----------------------------------------------------------------------------
(* Sums that are compared.                                                 *)

(* The sum of sums. *)
LEMMA SumAdds ==
  ASSUME NEW D, IsFiniteSet(D), NEW f \in [D -> Int], NEW g \in [D -> Int], NEW h \in [D -> Int],
         \A x \in D : f[x] = g[x] + h[x]
  PROVE  /\ Sum(f) \in Int /\ Sum(g) \in Int /\ Sum(h) \in Int
         /\ Sum(f) = Sum(g) + Sum(h)
  <1>0. Additive!IsFiniteSet(D)
    BY DEF Additive!IsFiniteSet, IsFiniteSet
  <1>1. PICK F : Additive!Unfolds(F, f, SUBSET D) /\ Sum(f) = F[D]
    BY SumUnfolds
  <1>2. PICK G : Additive!Unfolds(G, g, SUBSET D) /\ Sum(g) = G[D]
    BY SumUnfolds
  <1>3. PICK H : Additive!Unfolds(H, h, SUBSET D) /\ Sum(h) = H[D]
    BY SumUnfolds
  <1>4. /\ \A s \in SUBSET D : F[s] \in Int
        /\ \A s \in SUBSET D : \A x \in s : F[s] = f[x] + F[s \ {x}]
    <2>1. AnyOrder(F, f, D)
      BY <1>1, AnyFirst
    <2> QED BY <2>1 DEF AnyOrder
  <1>5. /\ \A s \in SUBSET D : G[s] \in Int
        /\ \A s \in SUBSET D : \A x \in s : G[s] = g[x] + G[s \ {x}]
    <2>1. AnyOrder(G, g, D)
      BY <1>2, AnyFirst
    <2> QED BY <2>1 DEF AnyOrder
  <1>6. /\ \A s \in SUBSET D : H[s] \in Int
        /\ \A s \in SUBSET D : \A x \in s : H[s] = h[x] + H[s \ {x}]
    <2>1. AnyOrder(H, h, D)
      BY <1>3, AnyFirst
    <2> QED BY <2>1 DEF AnyOrder
  <1> DEFINE Q == {s \in SUBSET D : F[s] = G[s] + H[s]}
  <1>7. {} \in Q
    <2>1. F[{}] = 0 /\ G[{}] = 0 /\ H[{}] = 0
      BY <1>1, <1>2, <1>3 DEF Additive!Unfolds
    <2> QED BY <2>1
  <1>8. ASSUME NEW s \in SUBSET D, s # {}, Additive!Others(s) \in Q PROVE s \in Q
    <2> DEFINE x == Additive!Picked(s)
    <2>1. x \in s /\ x \in D /\ Additive!Others(s) = s \ {x} /\ s \ {x} \in SUBSET D
      BY <1>8 DEF Additive!Picked, Additive!Others
    <2>2. F[s \ {x}] = G[s \ {x}] + H[s \ {x}]
      BY <1>8, <2>1
    <2> HIDE DEF x
    <2>3. F[s] = f[x] + F[s \ {x}] /\ G[s] = g[x] + G[s \ {x}] /\ H[s] = h[x] + H[s \ {x}]
      BY <1>4, <1>5, <1>6, <2>1
    <2>4. G[s \ {x}] \in Int /\ H[s \ {x}] \in Int /\ g[x] \in Int /\ h[x] \in Int /\ f[x] = g[x] + h[x]
      BY <1>5, <1>6, <2>1
    <2>5. F[s] = G[s] + H[s]
      BY <2>2, <2>3, <2>4
    <2> QED BY <2>5
  <1> HIDE DEF Q
  <1>9. Q = SUBSET D
    <2>1. Q \in SUBSET SUBSET D
      BY DEF Q
    <2> QED BY <1>0, <1>7, <1>8, <2>1, Additive!SubsetInduction
  <1>10. F[D] = G[D] + H[D]
    BY <1>9 DEF Q
  <1> QED BY <1>1, <1>2, <1>3, <1>4, <1>5, <1>6, <1>10

(* No summand grows. *)
LEMMA SumAtMost ==
  ASSUME NEW D, IsFiniteSet(D), NEW f \in [D -> Int], NEW g \in [D -> Int], \A x \in D : g[x] <= f[x]
  PROVE  Sum(f) \in Int /\ Sum(g) \in Int /\ Sum(g) <= Sum(f)
  <1> DEFINE h == [x \in D |-> f[x] - g[x]]
  <1>1. h \in [D -> Nat] /\ h \in [D -> Int]
    OBVIOUS
  <1>2. \A x \in D : f[x] = g[x] + h[x]
    OBVIOUS
  <1> HIDE DEF h
  <1>3. Sum(h) \in Nat
    BY <1>1, SumType
  <1>4. Sum(f) \in Int /\ Sum(g) \in Int /\ Sum(f) = Sum(g) + Sum(h)
    BY <1>1, <1>2, SumAdds
  <1> QED BY <1>3, <1>4

(* One summand changes. *)
LEMMA SumChanges ==
  ASSUME NEW D, IsFiniteSet(D), NEW f \in [D -> Int], NEW g \in [D -> Int], NEW x \in D,
         \A y \in D \ {x} : g[y] = f[y]
  PROVE  /\ Sum(f) \in Int /\ Sum(g) \in Int
         /\ Sum(g) = Sum(f) + (g[x] - f[x])
  <1> DEFINE d == [y \in D |-> IF y = x THEN g[x] - f[x] ELSE 0]
             e == [y \in {x} |-> g[x] - f[x]]
  <1>0. g[x] \in Int /\ f[x] \in Int
    OBVIOUS
  <1>1. d \in [D -> Int] /\ \A y \in D : g[y] = f[y] + d[y]
    BY <1>0
  <1>2. e \in [{x} -> Int] /\ e[x] = g[x] - f[x]
    BY <1>0
  <1>3. (\A y \in {x} : d[y] = e[y]) /\ \A y \in D \ {x} : d[y] = 0
    OBVIOUS
  <1> HIDE DEF d, e
  <1>4. Sum(f) \in Int /\ Sum(g) \in Int /\ Sum(g) = Sum(f) + Sum(d)
    BY <1>1, SumAdds
  <1>5. Sum(d) = Sum(e)
    <2> DEFINE S == {x}
    <2>1. S \in SUBSET D /\ e \in [S -> Int] /\ (\A y \in S : d[y] = e[y]) /\ \A y \in D \ S : d[y] = 0
      BY <1>2, <1>3
    <2> HIDE DEF S
    <2> QED BY <1>1, <2>1, SumOfPart
  <1>6. Sum(e) = e[x]
    <2>0. IsFiniteSet({x}) /\ DOMAIN e = {x}
      BY <1>2, FS_Singleton
    <2>1. PICK E : Additive!Unfolds(E, e, SUBSET {x}) /\ Sum(e) = E[{x}]
      BY <2>0, SumUnfolds
    <2>2. AnyOrder(E, e, {x})
      <3> DEFINE S == {x}
      <3>1. IsFiniteSet(S) /\ e \in [S -> Int] /\ Additive!Unfolds(E, e, SUBSET S)
        BY <1>2, <2>0, <2>1
      <3> HIDE DEF S
      <3>2. AnyOrder(E, e, S)
        BY <3>1, AnyFirst
      <3> QED BY <3>2 DEF S
    <2>3. E[{x}] = e[x] + E[{x} \ {x}]
      BY <2>2 DEF AnyOrder
    <2>4. {x} \ {x} = {} /\ E[{}] = 0
      BY <2>1 DEF Additive!Unfolds
    <2>5. E[{x} \ {x}] = 0
      BY <2>4
    <2>6. e[x] \in Int
      BY <1>0, <1>2
    <2>7. E[{x}] = e[x]
      BY <2>3, <2>5, <2>6
    <2> QED BY <2>1, <2>7
  <1> QED BY <1>2, <1>4, <1>5, <1>6

(* Something goes from one to another, and may become less on the way. *)
LEMMA SumOfTwo ==
  ASSUME NEW D, IsFiniteSet(D), NEW f \in [D -> Int], NEW g \in [D -> Int], NEW x \in D, NEW y \in D \ {x},
         \A z \in D \ {x, y} : g[z] = f[z], g[x] + g[y] <= f[x] + f[y]
  PROVE  Sum(g) <= Sum(f)
  <1> DEFINE h == [f EXCEPT ![x] = g[x]]
  <1>0. f[x] \in Int /\ f[y] \in Int /\ g[x] \in Int /\ g[y] \in Int
    OBVIOUS
  <1>1. h \in [D -> Int] /\ h[x] = g[x] /\ h[y] = f[y]
    OBVIOUS
  <1>2. (\A z \in D \ {x} : h[z] = f[z]) /\ \A z \in D \ {y} : g[z] = h[z]
    OBVIOUS
  <1> HIDE DEF h
  <1>3. Sum(f) \in Int /\ Sum(h) \in Int /\ Sum(h) = Sum(f) + (h[x] - f[x])
    BY <1>1, <1>2, SumChanges
  <1>4. Sum(g) \in Int /\ Sum(g) = Sum(h) + (g[y] - h[y])
    BY <1>1, <1>2, SumChanges
  <1> QED BY <1>0, <1>1, <1>3, <1>4
-----------------------------------------------------------------------------
(* How many pieces of a kind an inventory or cart has.                     *)
PiecesAs(item, k) == IF item.kind = k THEN item.amount ELSE 0
PiecesOf(N, inv, k) == [i \in 1 .. N |-> PiecesAs(inv[i], k)]

LEMMA CountIs ==
  ASSUME ShopConstantsOK, NEW N \in Nat, NEW inv \in Bags(N), NEW k
  PROVE  /\ IsFiniteSet(1 .. N) /\ PiecesOf(N, inv, k) \in [1 .. N -> Nat] /\ PiecesOf(N, inv, k) \in [1 .. N -> Int]
         /\ Count(inv, k) = Sum(PiecesOf(N, inv, k)) /\ Count(inv, k) \in Nat
  <1>1. IsFiniteSet(1 .. N)
    BY FS_Interval
  <1>2. \A i \in 1 .. N : PiecesAs(inv[i], k) \in Nat
    <2> SUFFICES ASSUME NEW i \in 1 .. N PROVE PiecesAs(inv[i], k) \in Nat
      OBVIOUS
    <2>1. inv[i] \in ItemIn(Kinds)
      BY DEF Bags
    <2> QED BY <2>1, ItemFacts DEF PiecesAs
  <1>3. PiecesOf(N, inv, k) \in [1 .. N -> Nat] /\ PiecesOf(N, inv, k) \in [1 .. N -> Int]
    BY <1>2 DEF PiecesOf
  <1>4. Count(inv, k) = Sum(PiecesOf(N, inv, k))
    <2>1. DOMAIN inv = 1 .. N
      BY DEF Bags
    <2>2. PiecesOf(N, inv, k) = [i \in DOMAIN inv |-> IF inv[i].kind = k THEN inv[i].amount ELSE 0]
      BY <2>1 DEF PiecesOf, PiecesAs
    <2> QED BY <2>2 DEF Count
  <1>5. Count(inv, k) \in Nat
    BY <1>1, <1>3, <1>4, SumType
  <1> QED BY <1>1, <1>3, <1>4, <1>5

LEMMA CountAtMost ==
  ASSUME ShopConstantsOK, NEW N \in Nat, NEW a \in Bags(N), NEW b \in Bags(N), NEW k,
         \A i \in 1 .. N : PiecesAs(b[i], k) <= PiecesAs(a[i], k)
  PROVE  Count(b, k) <= Count(a, k)
  <1> DEFINE f == PiecesOf(N, a, k)
             g == PiecesOf(N, b, k)
  <1>1. \A i \in 1 .. N : g[i] <= f[i]
    BY DEF PiecesOf
  <1>2. /\ IsFiniteSet(1 .. N) /\ f \in [1 .. N -> Int] /\ g \in [1 .. N -> Int]
        /\ Count(a, k) = Sum(f) /\ Count(b, k) = Sum(g)
    BY CountIs
  <1> HIDE DEF f, g
  <1> DEFINE D == 1 .. N
  <1>3. IsFiniteSet(D) /\ f \in [D -> Int] /\ g \in [D -> Int] /\ \A x \in D : g[x] <= f[x]
    BY <1>1, <1>2
  <1> HIDE DEF D
  <1>4. Sum(g) <= Sum(f)
    BY <1>3, SumAtMost
  <1> QED BY <1>2, <1>4

(* One slot changes. *)
LEMMA CountChanges ==
  ASSUME ShopConstantsOK, NEW N \in Nat, NEW a \in Bags(N), NEW b \in Bags(N), NEW k, NEW j \in 1 .. N,
         \A i \in (1 .. N) \ {j} : b[i] = a[i]
  PROVE  Count(b, k) = Count(a, k) + (PiecesAs(b[j], k) - PiecesAs(a[j], k))
  <1> DEFINE f == PiecesOf(N, a, k)
             g == PiecesOf(N, b, k)
  <1>1. /\ \A i \in (1 .. N) \ {j} : g[i] = f[i]
        /\ f[j] = PiecesAs(a[j], k) /\ g[j] = PiecesAs(b[j], k)
    BY DEF PiecesOf
  <1>2. /\ IsFiniteSet(1 .. N) /\ f \in [1 .. N -> Int] /\ g \in [1 .. N -> Int]
        /\ Count(a, k) = Sum(f) /\ Count(b, k) = Sum(g)
    BY CountIs
  <1> HIDE DEF f, g
  <1> DEFINE D == 1 .. N
  <1>3. IsFiniteSet(D) /\ f \in [D -> Int] /\ g \in [D -> Int] /\ j \in D /\ \A y \in D \ {j} : g[y] = f[y]
    BY <1>1, <1>2
  <1> HIDE DEF D
  <1>4. Sum(g) = Sum(f) + (g[j] - f[j])
    BY <1>3, SumChanges
  <1> QED BY <1>1, <1>2, <1>4

(* n pieces of x, if it is k. *)
Among(x, k, n) == IF x = k THEN n ELSE 0

LEMMA CountGrown ==
  ASSUME ShopConstantsOK, NEW N \in Nat, NEW inv \in Bags(N), NEW x \in Kinds, NEW n \in 1 .. MaxAmount,
         NEW new, Grown(N, inv, x, n, new), NEW k \in Kinds
  PROVE  Count(new, k) <= Count(inv, k) + Among(x, k, n)
  <1>0. n \in Nat /\ Among(x, k, n) \in Nat
    BY DEF Among
  <1>1. CASE new = inv
    <2>1. Count(inv, k) \in Nat
      BY CountIs
    <2> QED BY <1>0, <1>1, <2>1
  <1>2. ASSUME NEW j \in 1 .. N, Into(N, inv, x, n, new, j)
        PROVE  Count(new, k) <= Count(inv, k) + Among(x, k, n)
    <2>1. new \in Bags(N)
      BY GrownType
    <2>2. /\ inv[j] = Nothing \/ inv[j].kind = x
          /\ new = [inv EXCEPT ![j] = [kind |-> x, amount |-> inv[j].amount + n]]
      BY <1>2 DEF Into
    <2>3. \A i \in (1 .. N) \ {j} : new[i] = inv[i]
      BY <2>2 DEF Bags
    <2>4. new[j].kind = x /\ new[j].amount = inv[j].amount + n
      BY <2>2 DEF Bags
    <2>5. Count(new, k) = Count(inv, k) + (PiecesAs(new[j], k) - PiecesAs(inv[j], k))
      BY <2>1, <2>3, CountChanges
    <2>6. inv[j].amount \in Nat /\ (inv[j] = Nothing => inv[j].amount = 0 /\ inv[j].kind # k)
      <3>1. inv[j] \in ItemIn(Kinds) /\ k # Void
        BY DEF Bags, ShopConstantsOK
      <3> QED BY <3>1, ItemFacts
    <2>7. PiecesAs(new[j], k) - PiecesAs(inv[j], k) = Among(x, k, n)
      BY <1>0, <2>2, <2>4, <2>6 DEF PiecesAs, Among
    <2>8. Count(inv, k) \in Nat
      BY CountIs
    <2> QED BY <1>0, <2>5, <2>7, <2>8
  <1> QED BY <1>1, <1>2 DEF Grown

(* Some pieces leave slot j. *)
Taken(a, b, j, n) == b[j].kind \in {Void, a[j].kind} /\ a[j].amount - b[j].amount = n

LEMMA CountTaken ==
  ASSUME ShopConstantsOK, NEW N \in Nat, NEW a \in Bags(N), NEW b \in Bags(N), NEW j \in 1 .. N, NEW n \in Nat,
         \A i \in (1 .. N) \ {j} : b[i] = a[i], Taken(a, b, j, n), NEW k \in Kinds
  PROVE  Count(b, k) + Among(a[j].kind, k, n) = Count(a, k)
  <1>1. Count(b, k) = Count(a, k) + (PiecesAs(b[j], k) - PiecesAs(a[j], k))
    BY CountChanges
  <1>2. /\ a[j].amount \in Nat /\ b[j].amount \in Nat
        /\ b[j].kind = Void => b[j].amount = 0
        /\ b[j].kind = Void => b[j].kind # k
    <2>1. a[j] \in ItemIn(Kinds) /\ b[j] \in ItemIn(Kinds) /\ k # Void
      BY DEF Bags, ShopConstantsOK
    <2> QED BY <2>1, ItemFacts
  <1>3. b[j].kind \in {Void, a[j].kind} /\ a[j].amount - b[j].amount = n
    BY DEF Taken
  <1>4. PiecesAs(b[j], k) - PiecesAs(a[j], k) = - Among(a[j].kind, k, n)
    BY <1>2, <1>3 DEF PiecesAs, Among
  <1>5. Among(a[j].kind, k, n) \in Nat /\ Count(a, k) \in Nat
    BY CountIs DEF Among
  <1> QED BY <1>1, <1>4, <1>5
-----------------------------------------------------------------------------
(* What is handed over: line m of the order takes its pieces from slot     *)
(* pos[m], each line from another slot.                                    *)
Gives(N, src, dst, M, order, pos) ==
  /\ pos \in [1 .. M -> 1 .. N] /\ \A i, j \in 1 .. M : i # j => pos[i] # pos[j]
  /\ \A m \in 1 .. M : order[m].kind = src[pos[m]].kind /\ Taken(src, dst, pos[m], order[m].amount)
  /\ \A i \in 1 .. N : dst[i].kind \in {Void, src[i].kind} /\ dst[i].amount <= src[i].amount
  /\ \A i \in 1 .. N : dst[i] # src[i] => \E m \in 1 .. M : pos[m] = i

(* The source after the first m lines. *)
After(N, src, dst, pos, m) == [i \in 1 .. N |-> IF \E l \in 1 .. m : pos[l] = i THEN dst[i] ELSE src[i]]

LEMMA HandedOver ==
  ASSUME ShopConstantsOK, NEW inv \in Bags(Slots), Stacked(inv), NEW p, NEW M \in Nat, NEW order \in Orders(M),
         NEW N \in Nat, NEW src \in Bags(N), NEW dst \in Bags(N), NEW pos, Gives(N, src, dst, M, order, pos),
         NEW k \in Kinds
  PROVE  Count(Received(p, inv, order), k) + Count(dst, k) <= Count(inv, k) + Count(src, k)
  <1>0. PICK F : Fills(p, inv, order, M, F)
    <2>1. DOMAIN order = 1 .. M
      BY DEF Orders
    <2> QED BY <2>1, ReceivedSteps
  <1>1. /\ F[0] = inv /\ F[M] = Received(p, inv, order)
        /\ \A m \in 1 .. M : F[m] = AddOne(p, F[m - 1], order[m])
    BY <1>0 DEF Fills
  <1> DEFINE H(m) == After(N, src, dst, pos, m)
  <1>2. /\ pos \in [1 .. M -> 1 .. N] /\ \A i, j \in 1 .. M : i # j => pos[i] # pos[j]
        /\ \A m \in 1 .. M : order[m].kind = src[pos[m]].kind /\ Taken(src, dst, pos[m], order[m].amount)
        /\ \A i \in 1 .. N : dst[i].kind \in {Void, src[i].kind} /\ dst[i].amount <= src[i].amount
    BY DEF Gives
  <1>3. \A m \in 0 .. M : H(m) \in Bags(N)
    <2> SUFFICES ASSUME NEW m \in 0 .. M PROVE H(m) \in Bags(N)
      OBVIOUS
    <2>1. \A i \in 1 .. N : dst[i] \in ItemIn(Kinds) /\ src[i] \in ItemIn(Kinds)
      BY DEF Bags
    <2>2. \A i \in 1 .. N : (IF \E l \in 1 .. m : pos[l] = i THEN dst[i] ELSE src[i]) \in ItemIn(Kinds)
      BY <2>1
    <2> QED BY <2>2 DEF After, Bags
  <1>4. H(0) = src
    <2>1. \A i \in 1 .. N : ~ \E l \in 1 .. 0 : pos[l] = i
      OBVIOUS
    <2> QED BY <2>1 DEF After, Bags
  <1> HIDE DEF H
  <1> DEFINE all == Count(inv, k) + Count(src, k)
             Good(m) == /\ F[m] \in Bags(Slots) /\ Stacked(F[m])
                        /\ Count(F[m], k) + Count(H(m), k) <= all
             Bad == {m \in 0 .. M : ~Good(m)}
  <1>5. Count(inv, k) \in Nat /\ Count(src, k) \in Nat /\ Slots \in Nat
    <2>1. Slots \in Nat
      BY DEF ShopConstantsOK
    <2>2. Count(inv, k) \in Nat
      BY <2>1, CountIs
    <2>3. Count(src, k) \in Nat
      BY CountIs
    <2> QED BY <2>1, <2>2, <2>3
  <1>6. Good(0)
    BY <1>1, <1>4, <1>5
  <1>7. Bad = {}
    <2> SUFFICES ASSUME Bad # {} PROVE FALSE
      OBVIOUS
    <2>1. PICK m \in Bad : \A j \in Bad : m <= j
      <3>1. Bad \in SUBSET Nat
        OBVIOUS
      <3> HIDE DEF Bad
      <3> QED BY <3>1, Additive!LeastElement
    <2> HIDE DEF Good
    <2>2. m \in 1 .. M
      <3>1. m \in 0 .. M /\ m # 0
        BY <1>6, <2>1
      <3> QED BY <3>1
    <2>3. Good(m - 1)
      <3>1. m - 1 \in 0 .. M /\ ~(m <= m - 1)
        BY <2>2
      <3> QED BY <2>1, <3>1
    <2> DEFINE i == F[m - 1]
               o == order[m]
               j == pos[m]
               a == H(m - 1)
               b == H(m)
    <2>4. /\ o \in [kind : Kinds, amount : 1 .. MaxAmount] /\ F[m] = AddOne(p, i, o) /\ j \in 1 .. N
          /\ o.kind = src[j].kind /\ Taken(src, dst, j, o.amount)
      BY <1>1, <1>2, <2>2 DEF Orders
    <2>5. i \in Bags(Slots) /\ Stacked(i) /\ Count(i, k) + Count(a, k) <= all
      BY <2>3 DEF Good
    <2>6. a \in Bags(N) /\ b \in Bags(N)
      <3>1. m - 1 \in 0 .. M /\ m \in 0 .. M
        BY <2>2
      <3> QED BY <1>3, <3>1
    <2>7. /\ \A x \in (1 .. N) \ {j} : b[x] = a[x]
          /\ a[j] = src[j] /\ b[j] = dst[j]
      <3>0. \A l : l \in 1 .. m <=> l \in 1 .. (m - 1) \/ l = m
        BY <2>2
      <3>1. \A x \in (1 .. N) \ {j} : (\E l \in 1 .. m : pos[l] = x) <=> (\E l \in 1 .. (m - 1) : pos[l] = x)
        BY <3>0
      <3>2. ~ \E l \in 1 .. (m - 1) : pos[l] = j
        <4> SUFFICES ASSUME NEW l \in 1 .. (m - 1) PROVE pos[l] # j
          OBVIOUS
        <4>1. l \in 1 .. M /\ l # m
          BY <2>2
        <4> QED BY <1>2, <2>2, <4>1
      <3>3. \E l \in 1 .. m : pos[l] = j
        BY <2>2
      <3>4. \A x \in 1 .. N : /\ a[x] = (IF \E l \in 1 .. (m - 1) : pos[l] = x THEN dst[x] ELSE src[x])
                              /\ b[x] = (IF \E l \in 1 .. m : pos[l] = x THEN dst[x] ELSE src[x])
        BY DEF H, After
      <3> HIDE DEF a, b, j
      <3> QED BY <2>4, <3>1, <3>2, <3>3, <3>4
    <2> HIDE DEF i, o, j, a, b
    <2>8. o.kind \in Kinds /\ o.amount \in 1 .. MaxAmount /\ o.amount \in Nat
      BY <2>4
    <2>9. Grown(Slots, i, o.kind, o.amount, F[m])
      BY <1>5, <2>4, <2>5, AddOneGrows
    <2>10. F[m] \in Bags(Slots) /\ Stacked(F[m])
      BY <1>5, <2>5, <2>8, <2>9, GrownType
    <2>11. Count(F[m], k) <= Count(i, k) + Among(o.kind, k, o.amount)
      BY <1>5, <2>5, <2>8, <2>9, CountGrown
    <2>12. Count(b, k) + Among(o.kind, k, o.amount) = Count(a, k)
      <3>1. Taken(a, b, j, o.amount) /\ o.kind = a[j].kind
        BY <2>4, <2>7 DEF Taken
      <3>2. Count(b, k) + Among(a[j].kind, k, o.amount) = Count(a, k)
        BY <2>4, <2>6, <2>7, <2>8, <3>1, CountTaken
      <3> QED BY <3>1, <3>2
    <2>13. /\ Count(F[m], k) \in Nat /\ Count(i, k) \in Nat /\ Among(o.kind, k, o.amount) \in Nat
           /\ Count(a, k) \in Nat /\ Count(b, k) \in Nat /\ all \in Nat
      <3>1. Count(F[m], k) \in Nat /\ Count(i, k) \in Nat
        BY <1>5, <2>5, <2>10, CountIs
      <3>2. Count(a, k) \in Nat /\ Count(b, k) \in Nat
        BY <2>6, CountIs
      <3>3. Among(o.kind, k, o.amount) \in Nat
        BY <2>8 DEF Among
      <3> QED BY <1>5, <3>1, <3>2, <3>3
    <2>14. Count(F[m], k) + Count(b, k) <= all
      <3> HIDE DEF all
      <3> QED BY <2>5, <2>11, <2>12, <2>13
    <2>15. Good(m)
      BY <2>10, <2>14 DEF Good, b
    <2> QED BY <2>1, <2>15
  <1>8. Count(F[M], k) + Count(H(M), k) <= all
    <2>1. M \in 0 .. M
      OBVIOUS
    <2>2. Good(M)
      <3> HIDE DEF Good
      <3> QED BY <1>7, <2>1
    <2> QED BY <2>2
  <1>9. Count(dst, k) <= Count(H(M), k)
    <2> DEFINE c == H(M)
    <2>1. c \in Bags(N)
      BY <1>3
    <2>2. \A i \in 1 .. N : PiecesAs(dst[i], k) <= PiecesAs(c[i], k)
      <3> SUFFICES ASSUME NEW i \in 1 .. N PROVE PiecesAs(dst[i], k) <= PiecesAs(c[i], k)
        OBVIOUS
      <3>1. c[i] = dst[i] \/ c[i] = src[i]
        BY DEF H, After
      <3>2. dst[i].amount \in Nat /\ src[i].amount \in Nat /\ k # Void
        <4>1. dst[i] \in ItemIn(Kinds) /\ src[i] \in ItemIn(Kinds) /\ k # Void
          BY DEF Bags, ShopConstantsOK
        <4> QED BY <4>1, ItemFacts
      <3>3. dst[i].kind \in {Void, src[i].kind} /\ dst[i].amount <= src[i].amount
        BY <1>2
      <3> HIDE DEF c
      <3> QED BY <3>1, <3>2, <3>3 DEF PiecesAs
    <2> HIDE DEF c
    <2>3. Count(dst, k) <= Count(c, k)
      BY <2>1, <2>2, CountAtMost
    <2> QED BY <2>3 DEF c
  <1>10. Count(F[M], k) \in Nat /\ Count(H(M), k) \in Nat /\ Count(dst, k) \in Nat
    <2>1. Received(p, inv, order) \in Bags(Slots)
      BY ReceivedType
    <2>2. Count(F[M], k) \in Nat
      BY <1>1, <1>5, <2>1, CountIs
    <2>3. H(M) \in Bags(N)
      BY <1>3
    <2>4. Count(H(M), k) \in Nat
      BY <2>3, CountIs
    <2>5. Count(dst, k) \in Nat
      BY CountIs
    <2> QED BY <2>2, <2>4, <2>5
  <1> QED BY <1>1, <1>5, <1>8, <1>9, <1>10
-----------------------------------------------------------------------------
(* What all players have together.                                         *)
HasOf(invs, carts, k) == [p \in Players |-> Count(invs[p], k) + Count(carts[p], k)]
Has(inv, crt, k) == Count(inv, k) + Count(crt, k)

LEMMA TotalIs ==
  ASSUME ShopConstantsOK, NEW invs \in [Players -> Bags(Slots)], NEW carts \in [Players -> Bags(CartSlots)], NEW k
  PROVE  /\ IsFiniteSet(Players) /\ HasOf(invs, carts, k) \in [Players -> Int]
         /\ Total(invs, carts, k) = Sum(HasOf(invs, carts, k))
         /\ \A p \in Players : HasOf(invs, carts, k)[p] = Has(invs[p], carts[p], k)
  <1>1. IsFiniteSet(Players) /\ Slots \in Nat /\ CartSlots \in Nat
    BY DEF ShopConstantsOK
  <1>2. \A p \in Players : Count(invs[p], k) \in Nat
    <2> SUFFICES ASSUME NEW p \in Players PROVE Count(invs[p], k) \in Nat
      OBVIOUS
    <2>1. invs[p] \in Bags(Slots)
      OBVIOUS
    <2> QED BY <1>1, <2>1, CountIs
  <1>3. \A p \in Players : Count(carts[p], k) \in Nat
    <2> SUFFICES ASSUME NEW p \in Players PROVE Count(carts[p], k) \in Nat
      OBVIOUS
    <2>1. carts[p] \in Bags(CartSlots)
      OBVIOUS
    <2> QED BY <1>1, <2>1, CountIs
  <1>4. HasOf(invs, carts, k) \in [Players -> Int]
    BY <1>2, <1>3 DEF HasOf
  <1>5. Total(invs, carts, k) = Sum(HasOf(invs, carts, k))
    BY DEF Total, HasOf
  <1> QED BY <1>1, <1>4, <1>5 DEF HasOf, Has

(* Only x and y, or only x, have other things than before. *)
LEMMA TotalOfTwo ==
  ASSUME ShopConstantsOK, NEW invs \in [Players -> Bags(Slots)], NEW carts \in [Players -> Bags(CartSlots)],
         NEW invs2 \in [Players -> Bags(Slots)], NEW carts2 \in [Players -> Bags(CartSlots)],
         NEW k, NEW x \in Players, NEW y \in Players \ {x},
         \A z \in Players \ {x, y} : invs2[z] = invs[z] /\ carts2[z] = carts[z],
         Has(invs2[x], carts2[x], k) + Has(invs2[y], carts2[y], k)
           <= Has(invs[x], carts[x], k) + Has(invs[y], carts[y], k)
  PROVE  Total(invs2, carts2, k) <= Total(invs, carts, k)
  <1> DEFINE f == HasOf(invs, carts, k)
             g == HasOf(invs2, carts2, k)
  <1>1. /\ IsFiniteSet(Players) /\ f \in [Players -> Int] /\ Total(invs, carts, k) = Sum(f)
        /\ \A p \in Players : f[p] = Has(invs[p], carts[p], k)
    BY TotalIs
  <1>2. /\ g \in [Players -> Int] /\ Total(invs2, carts2, k) = Sum(g)
        /\ \A p \in Players : g[p] = Has(invs2[p], carts2[p], k)
    BY TotalIs
  <1> HIDE DEF f, g
  <1>3. \A z \in Players \ {x, y} : g[z] = f[z]
    BY <1>1, <1>2
  <1>4. g[x] + g[y] <= f[x] + f[y]
    BY <1>1, <1>2
  <1>5. Sum(g) <= Sum(f)
    BY <1>1, <1>2, <1>3, <1>4, SumOfTwo
  <1> QED BY <1>1, <1>2, <1>5

LEMMA TotalOfOne ==
  ASSUME ShopConstantsOK, NEW invs \in [Players -> Bags(Slots)], NEW carts \in [Players -> Bags(CartSlots)],
         NEW invs2 \in [Players -> Bags(Slots)], NEW carts2 \in [Players -> Bags(CartSlots)],
         NEW k, NEW x \in Players, \A z \in Players \ {x} : invs2[z] = invs[z] /\ carts2[z] = carts[z],
         Has(invs2[x], carts2[x], k) <= Has(invs[x], carts[x], k)
  PROVE  Total(invs2, carts2, k) <= Total(invs, carts, k)
  <1> DEFINE f == HasOf(invs, carts, k)
             g == HasOf(invs2, carts2, k)
  <1>1. /\ IsFiniteSet(Players) /\ f \in [Players -> Int] /\ Total(invs, carts, k) = Sum(f)
        /\ \A p \in Players : f[p] = Has(invs[p], carts[p], k)
    BY TotalIs
  <1>2. /\ g \in [Players -> Int] /\ Total(invs2, carts2, k) = Sum(g)
        /\ \A p \in Players : g[p] = Has(invs2[p], carts2[p], k)
    BY TotalIs
  <1> HIDE DEF f, g
  <1>3. \A z \in Players : g[z] <= f[z]
    <2>1. \A z \in Players \ {x} : g[z] = f[z]
      BY <1>1, <1>2
    <2>2. g[x] <= f[x]
      BY <1>1, <1>2
    <2>3. \A z \in Players : f[z] \in Int
      BY <1>1
    <2> QED BY <2>1, <2>2, <2>3
  <1>4. Sum(g) <= Sum(f)
    BY <1>1, <1>2, <1>3, SumAtMost
  <1> QED BY <1>1, <1>2, <1>4

-----------------------------------------------------------------------------
(* Zeny: the one who is paid gets no more than the other pays.             *)
LEMMA TaxAtMost ==
  ASSUME ShopConstantsOK, NEW z \in Nat
  PROVE  vending_calc_tax(z) <= z
  <1>1. 100 - TaxRate \in 0 .. 100
    <2>1. TaxRate \in 0 .. 100
      BY DEF ShopConstantsOK
    <2> QED BY <2>1
  <1>2. \A c \in 0 .. 100 : z * c <= z * 100 /\ z * c \in Nat
    OBVIOUS
  <1>3. z * (100 - TaxRate) <= z * 100 /\ z * (100 - TaxRate) \in Nat
    BY <1>1, <1>2
  <1>4. \A y \in Nat : y <= z * 100 => y \div 100 <= z
    OBVIOUS
  <1>5. (z * (100 - TaxRate)) \div 100 <= z
    BY <1>3, <1>4
  <1> QED BY <1>5 DEF vending_calc_tax

LEMMA PaysNoMore ==
  ASSUME ShopConstantsOK, Owned, NEW payer \in Players, NEW payee \in Players \ {payer},
         NEW cost \in Nat, cost <= zeny[payer], NEW gain \in Nat, gain <= cost, Pays(payer, payee, cost, gain)
  PROVE  Sum(zeny') <= Sum(zeny)
  <1>1. MaxZeny \in Nat /\ zeny \in [Players -> 0 .. MaxZeny] /\ IsFiniteSet(Players)
    BY DEF ShopConstantsOK, Owned
  <1>2. zeny' \in [Players -> 0 .. MaxZeny]
    BY PaysType
  <1>3. zeny \in [Players -> Int] /\ zeny' \in [Players -> Int]
    <2>1. \A n \in 0 .. MaxZeny : n \in Int
      OBVIOUS
    <2> QED BY <1>1, <1>2, <2>1
  <1> DEFINE x == AtMost(gain, Room(payee))
  <1>4. zeny' = [zeny EXCEPT ![payer] = zeny[payer] - cost, ![payee] = zeny[payee] + x]
    BY <1>1 DEF Pays
  <1>5. x <= gain /\ x \in Int
    <2>1. Room(payee) \in Int
      BY <1>1 DEF Room
    <2> QED BY <2>1 DEF AtMost
  <1> HIDE DEF x
  <1>6. zeny'[payer] = zeny[payer] - cost /\ zeny'[payee] = zeny[payee] + x
    BY <1>1, <1>4
  <1>7. \A p \in Players \ {payer, payee} : zeny'[p] = zeny[p]
    BY <1>1, <1>4
  <1>8. zeny[payer] \in Int /\ zeny[payee] \in Int
    BY <1>3
  <1>9. zeny'[payer] + zeny'[payee] <= zeny[payer] + zeny[payee]
    BY <1>5, <1>6, <1>8
  <1>10. PICK after : after = zeny'
    OBVIOUS
  <1>11. Sum(after) <= Sum(zeny)
    BY <1>1, <1>3, <1>7, <1>9, <1>10, SumOfTwo
  <1> QED BY <1>10, <1>11
-----------------------------------------------------------------------------
(* Deals copy nothing.                                                     *)
LEMMA LeftOver ==
  ASSUME ShopConstantsOK, NEW N \in Nat, NEW inv \in Bags(N), NEW i \in 1 .. N, NEW n \in Nat
  PROVE  /\ delitem(inv, i, n)[i].kind \in {Void, inv[i].kind}
         /\ delitem(inv, i, n)[i].amount <= inv[i].amount
  <1>1. \/ inv[i].amount < n /\ delitem(inv, i, n)[i] = inv[i]
        \/ inv[i].amount = n /\ delitem(inv, i, n)[i] = Nothing
        \/ inv[i].amount > n /\ delitem(inv, i, n)[i] = [kind |-> inv[i].kind, amount |-> inv[i].amount - n]
    BY DeletedType
  <1>2. inv[i].amount \in Nat
    <2>1. inv[i] \in ItemIn(Kinds)
      BY DEF Bags
    <2> QED BY <2>1, ItemFacts
  <1> DEFINE y == delitem(inv, i, n)[i]
  <1> HIDE DEF y
  <1>3. y = inv[i] \/ y = Nothing \/ y = [kind |-> inv[i].kind, amount |-> inv[i].amount - n]
    BY <1>1 DEF y
  <1>4. y.kind \in {Void, inv[i].kind} /\ y.amount <= inv[i].amount
    BY <1>2, <1>3 DEF Nothing
  <1> QED BY <1>4 DEF y

Positions(b, S) == [m \in 1 .. Cardinality(S) |-> At(b, InOrder(S)[m])]

LEMMA PurchaseGives ==
  ASSUME ShopConstantsOK, ShopInv, NEW b \in Players, Owner(b) # Void,
         NEW S \in SUBSET DOMAIN seen[b].list, NEW n \in [S -> 1 .. MaxAmount], PurchaseAccepted(b, S, n)
  PROVE  Gives(CartSlots, cart[Owner(b)], CartLeft(b, S, n), Cardinality(S), PurchaseOrder(b, S, n), Positions(b, S))
  <1> DEFINE c == cart[Owner(b)]
             C == CartLeft(b, S, n)
             M == Cardinality(S)
             O == InOrder(S)
             order == PurchaseOrder(b, S, n)
             pos == Positions(b, S)
  <1>1. /\ Owner(b) \in Players /\ \A j \in S : AsSeen(b, n, j)
        /\ \A i, j \in S : At(b, i) = At(b, j) => i = j
        /\ \E N \in Nat : S \in SUBSET (1 .. N)
    BY PurchaseFacts
  <1>2. c \in Bags(CartSlots) /\ CartSlots \in Nat /\ MaxAmount \in Nat
    BY <1>1 DEF ShopInv, Owned, ShopConstantsOK
  <1>3. /\ M \in Nat /\ O \in [1 .. M -> S] /\ \A i, j \in 1 .. M : i # j => O[i] # O[j]
        /\ \A j \in S : \E m \in 1 .. M : O[m] = j
    BY <1>1, InOrderFacts, InOrderOnto
  <1>4. /\ order = [m \in 1 .. M |-> [kind |-> c[At(b, O[m])].kind, amount |-> n[O[m]]]]
        /\ pos = [m \in 1 .. M |-> At(b, O[m])]
    BY DEF PurchaseOrder, Positions
  <1>5. /\ C \in Bags(CartSlots)
        /\ \A j \in S : c[At(b, j)].amount - C[At(b, j)].amount = n[j]
    BY CartLeftType
  <1>6. \A j \in S : At(b, j) \in 1 .. CartSlots
    BY <1>1 DEF AsSeen
  <1>7. C = [i \in 1 .. CartSlots |-> IF Sold(b, S, i) = {} THEN c[i] ELSE delitem(c, i, SoldOf(b, S, n, i))[i]]
    BY DEF CartLeft
  <1>8. \A i \in 1 .. CartSlots : Sold(b, S, i) # {} =>
              \E j \in S : Sold(b, S, i) = {j} /\ SoldOf(b, S, n, i) = n[j] /\ At(b, j) = i
    BY LeftListFacts
  <1> HIDE DEF c, C, M, O, order, pos
  <1>9. ASSUME NEW i \in 1 .. CartSlots
        PROVE  C[i].kind \in {Void, c[i].kind} /\ C[i].amount <= c[i].amount
    <2>1. CASE Sold(b, S, i) = {}
      <3>1. C[i] = c[i] /\ c[i] \in ItemIn(Kinds)
        BY <1>2, <1>7, <2>1 DEF Bags
      <3>2. c[i].amount \in Nat
        BY <3>1, ItemFacts
      <3> QED BY <3>1, <3>2
    <2>2. CASE Sold(b, S, i) # {}
      <3>1. SoldOf(b, S, n, i) \in Nat
        BY <1>2, <1>8, <2>2
      <3>2. C[i] = delitem(c, i, SoldOf(b, S, n, i))[i]
        BY <1>7, <2>2
      <3> QED BY <1>2, <3>1, <3>2, LeftOver
    <2> QED BY <2>1, <2>2
  <1>10. \A m \in 1 .. M : O[m] \in S /\ pos[m] = At(b, O[m]) /\ pos[m] \in 1 .. CartSlots
    BY <1>3, <1>4, <1>6
  <1>11. pos \in [1 .. M -> 1 .. CartSlots]
    BY <1>4, <1>10
  <1>12. ASSUME NEW i \in 1 .. M, NEW j \in 1 .. M, i # j PROVE pos[i] # pos[j]
    <2>1. O[i] # O[j] /\ O[i] \in S /\ O[j] \in S
      BY <1>3, <1>12
    <2>2. pos[i] = At(b, O[i]) /\ pos[j] = At(b, O[j])
      BY <1>10
    <2> QED BY <1>1, <2>1, <2>2
  <1>13. ASSUME NEW m \in 1 .. M
         PROVE  order[m].kind = c[pos[m]].kind /\ Taken(c, C, pos[m], order[m].amount)
    <2>1. order[m].kind = c[pos[m]].kind /\ order[m].amount = n[O[m]]
      BY <1>4, <1>10
    <2>2. C[pos[m]].kind \in {Void, c[pos[m]].kind}
      BY <1>9, <1>10
    <2>3. c[pos[m]].amount - C[pos[m]].amount = n[O[m]]
      BY <1>5, <1>10
    <2> QED BY <2>1, <2>2, <2>3 DEF Taken
  <1>14. ASSUME NEW i \in 1 .. CartSlots, C[i] # c[i] PROVE \E m \in 1 .. M : pos[m] = i
    <2>1. Sold(b, S, i) # {}
      BY <1>7, <1>14
    <2>2. PICK j \in S : At(b, j) = i
      BY <1>8, <2>1
    <2> QED BY <1>3, <1>10, <2>2
  <1>15. Gives(CartSlots, c, C, M, order, pos)
    BY <1>9, <1>11, <1>12, <1>13, <1>14 DEF Gives
  <1> QED BY <1>15 DEF c, C, M, order, pos

LEMMA SaleGives ==
  ASSUME ShopConstantsOK, ShopInv, NEW b \in Players, NEW o, NEW S \in SUBSET (1 .. Slots),
         NEW n \in [S -> 1 .. MaxAmount], SoldTo(o, b, S, n)
  PROVE  Gives(Slots, inventory[b], BackpackLeft(b, S, n), Cardinality(S), SaleOrder(b, S, n), InOrder(S))
  <1> DEFINE c == inventory[b]
             C == BackpackLeft(b, S, n)
             M == Cardinality(S)
             O == InOrder(S)
             order == SaleOrder(b, S, n)
  <1>1. \A i \in S : AsWanted(o, b, n, i)
    BY SaleFacts DEF SoldTo
  <1>2. c \in Bags(Slots) /\ Slots \in Nat /\ MaxAmount \in Nat
    BY DEF ShopInv, Owned, ShopConstantsOK
  <1>3. /\ M \in Nat /\ O \in [1 .. M -> S] /\ \A i, j \in 1 .. M : i # j => O[i] # O[j]
        /\ \A i \in S : \E m \in 1 .. M : O[m] = i
    BY <1>2, InOrderFacts, InOrderOnto
  <1>4. order = [m \in 1 .. M |-> [kind |-> c[O[m]].kind, amount |-> n[O[m]]]]
    BY DEF SaleOrder, Kind
  <1>5. /\ C \in Bags(Slots)
        /\ \A i \in S : C[i].kind \in {Void, c[i].kind} /\ (n[i] <= c[i].amount => c[i].amount - C[i].amount = n[i])
    BY BackpackLeftType
  <1>6. C = [i \in 1 .. Slots |-> IF i \in S THEN delitem(c, i, n[i])[i] ELSE c[i]]
    BY DEF BackpackLeft
  <1>7. \A i \in S : n[i] <= c[i].amount
    BY <1>1 DEF AsWanted
  <1> HIDE DEF c, C, M, O, order
  <1>8. ASSUME NEW i \in 1 .. Slots
        PROVE  C[i].kind \in {Void, c[i].kind} /\ C[i].amount <= c[i].amount
    <2>1. CASE i \notin S
      <3>1. C[i] = c[i] /\ c[i] \in ItemIn(Kinds)
        BY <1>2, <1>6, <2>1 DEF Bags
      <3>2. c[i].amount \in Nat
        BY <3>1, ItemFacts
      <3> QED BY <3>1, <3>2
    <2>2. CASE i \in S
      <3>1. n[i] \in Nat /\ C[i] = delitem(c, i, n[i])[i]
        BY <1>2, <1>6, <2>2
      <3> QED BY <1>2, <3>1, LeftOver
    <2> QED BY <2>1, <2>2
  <1>9. \A m \in 1 .. M : O[m] \in S /\ O[m] \in 1 .. Slots
    BY <1>3
  <1>10. O \in [1 .. M -> 1 .. Slots]
    BY <1>3, <1>9
  <1>11. ASSUME NEW m \in 1 .. M
         PROVE  order[m].kind = c[O[m]].kind /\ Taken(c, C, O[m], order[m].amount)
    <2>1. order[m].kind = c[O[m]].kind /\ order[m].amount = n[O[m]]
      BY <1>4
    <2>2. C[O[m]].kind \in {Void, c[O[m]].kind} /\ c[O[m]].amount - C[O[m]].amount = n[O[m]]
      BY <1>5, <1>7, <1>9
    <2> QED BY <2>1, <2>2 DEF Taken
  <1>12. ASSUME NEW i \in 1 .. Slots, C[i] # c[i] PROVE \E m \in 1 .. M : O[m] = i
    BY <1>3, <1>6, <1>12
  <1>13. Gives(Slots, c, C, M, order, O)
    BY <1>3, <1>8, <1>10, <1>11, <1>12 DEF Gives
  <1> QED BY <1>13 DEF c, C, M, order, O

LEMMA BoughtKeeps ==
  ASSUME ShopConstantsOK, ShopInv, Owned', NEW q \in Players, NEW S \in SUBSET DOMAIN seen[q].list,
         NEW n \in [S -> 1 .. MaxAmount], Bought(q, S, n)
  PROVE  CopiesNothing
  <1> DEFINE s == Owner(q)
             cost == PurchaseCost(q, S, n)
             order == PurchaseOrder(q, S, n)
             M == Cardinality(S)
             got == Received(q, inventory[q], order)
             rest == CartLeft(q, S, n)
  <1>1. /\ s \in Players \ {q} /\ cost \in Nat /\ cost <= zeny[q]
    BY PurchaseFacts DEF Bought
  <1>2. /\ inventory' = [inventory EXCEPT ![q] = got]
        /\ cart' = [cart EXCEPT ![s] = rest]
        /\ Pays(q, s, cost, vending_calc_tax(cost))
    <2>1. s \in DOMAIN cart /\ q \in DOMAIN inventory
      BY <1>1 DEF ShopInv, Owned
    <2> QED BY <2>1, PurchaseIs DEF Bought
  <1>3. PICK pos : Gives(CartSlots, cart[s], rest, M, order, pos)
    BY PurchaseGives DEF Bought
  <1>4. M \in Nat /\ order \in Orders(M)
    BY PurchaseOrderType DEF Bought
  <1>5. rest \in Bags(CartSlots)
    BY CartLeftType DEF Bought
  <1> HIDE DEF s, cost, order, M, rest
  <1>6. Sum(zeny') <= Sum(zeny)
    <2>1. vending_calc_tax(cost) \in Nat /\ vending_calc_tax(cost) <= cost
      BY <1>1, TaxType, TaxAtMost
    <2>2. Owned
      BY DEF ShopInv
    <2> QED BY <1>1, <1>2, <2>1, <2>2, PaysNoMore
  <1>7. /\ inventory \in [Players -> Bags(Slots)] /\ cart \in [Players -> Bags(CartSlots)]
        /\ Stacked(inventory[q]) /\ Slots \in Nat /\ CartSlots \in Nat
    BY DEF ShopInv, Owned, ShopConstantsOK
  <1>8. inventory' \in [Players -> Bags(Slots)] /\ cart' \in [Players -> Bags(CartSlots)]
    BY DEF Owned
  <1>9. ASSUME NEW k \in Kinds PROVE Total(inventory', cart', k) <= Total(inventory, cart, k)
    <2>0. inventory[q] \in Bags(Slots) /\ cart[s] \in Bags(CartSlots)
      BY <1>1, <1>7
    <2>1. Count(got, k) + Count(rest, k) <= Count(inventory[q], k) + Count(cart[s], k)
      BY <1>3, <1>4, <1>5, <1>7, <2>0, HandedOver
    <2> HIDE DEF got
    <2>2. PICK invs, carts : invs = inventory' /\ carts = cart'
      OBVIOUS
    <2>3. /\ invs \in [Players -> Bags(Slots)] /\ carts \in [Players -> Bags(CartSlots)]
          /\ invs = [inventory EXCEPT ![q] = got] /\ carts = [cart EXCEPT ![s] = rest]
      BY <1>2, <1>8, <2>2
    <2>4. invs[q] = got /\ invs[s] = inventory[s] /\ carts[q] = cart[q] /\ carts[s] = rest
      BY <1>1, <1>7, <2>3
    <2>5. \A z \in Players \ {q, s} : invs[z] = inventory[z] /\ carts[z] = cart[z]
      BY <1>7, <2>3
    <2>6. got \in Bags(Slots) /\ inventory[s] \in Bags(Slots) /\ cart[q] \in Bags(CartSlots)
      BY <1>1, <1>7, <2>3, <2>4
    <2>7. /\ Count(got, k) \in Nat /\ Count(inventory[s], k) \in Nat /\ Count(inventory[q], k) \in Nat
          /\ Count(rest, k) \in Nat /\ Count(cart[q], k) \in Nat /\ Count(cart[s], k) \in Nat
      <3>1. Count(got, k) \in Nat /\ Count(inventory[s], k) \in Nat /\ Count(inventory[q], k) \in Nat
        BY <1>7, <2>0, <2>6, CountIs
      <3>2. Count(rest, k) \in Nat /\ Count(cart[q], k) \in Nat /\ Count(cart[s], k) \in Nat
        BY <1>5, <1>7, <2>0, <2>6, CountIs
      <3> QED BY <3>1, <3>2
    <2>8. Has(invs[q], carts[q], k) + Has(invs[s], carts[s], k)
            <= Has(inventory[q], cart[q], k) + Has(inventory[s], cart[s], k)
      BY <2>1, <2>4, <2>7 DEF Has
    <2>9. Total(invs, carts, k) <= Total(inventory, cart, k)
      BY <1>1, <1>7, <2>3, <2>5, <2>8, TotalOfTwo
    <2> QED BY <2>2, <2>9
  <1> QED BY <1>6, <1>9 DEF CopiesNothing

LEMMA SoldKeeps ==
  ASSUME ShopConstantsOK, ShopInv, Owned', NEW q \in Players, NEW o, NEW S \in SUBSET (1 .. Slots),
         NEW n \in [S -> 1 .. MaxAmount], SoldTo(o, q, S, n), UNCHANGED cart
  PROVE  CopiesNothing
  <1> DEFINE cost == SaleCost(o, q, S, n)
             order == SaleOrder(q, S, n)
             M == Cardinality(S)
             got == Received(o, inventory[o], order)
             rest == BackpackLeft(q, S, n)
  <1>1. o \in Players \ {q} /\ cost \in Nat /\ cost <= zeny[o]
    BY SaleFacts DEF SoldTo
  <1>2. /\ inventory' = [inventory EXCEPT ![o] = got, ![q] = rest]
        /\ Pays(o, q, cost, cost)
    <2>1. o \in DOMAIN inventory /\ q \in DOMAIN inventory /\ o # q
      BY <1>1 DEF ShopInv, Owned
    <2> QED BY <2>1, SaleIs DEF SoldTo
  <1>3. PICK pos : Gives(Slots, inventory[q], rest, M, order, pos)
    BY SaleGives
  <1>4. M \in Nat /\ order \in Orders(M)
    <2>1. \A i \in S : AsWanted(o, q, n, i)
      BY SaleFacts DEF SoldTo
    <2>2. \A i \in S : Kind(q, i) \in Wanted
      BY <2>1 DEF AsWanted
    <2> QED BY <2>2, SaleOrderType
  <1>5. rest \in Bags(Slots)
    BY BackpackLeftType
  <1> HIDE DEF cost, order, M, rest
  <1>6. Sum(zeny') <= Sum(zeny)
    <2>1. Owned /\ q \in Players \ {o} /\ cost <= cost
      BY <1>1 DEF ShopInv
    <2> QED BY <1>1, <1>2, <2>1, PaysNoMore
  <1>7. /\ inventory \in [Players -> Bags(Slots)] /\ cart \in [Players -> Bags(CartSlots)]
        /\ Stacked(inventory[o]) /\ Slots \in Nat /\ CartSlots \in Nat
    BY <1>1 DEF ShopInv, Owned, ShopConstantsOK
  <1>8. inventory' \in [Players -> Bags(Slots)]
    BY DEF Owned
  <1>9. ASSUME NEW k \in Kinds PROVE Total(inventory', cart', k) <= Total(inventory, cart, k)
    <2>0. inventory[q] \in Bags(Slots) /\ inventory[o] \in Bags(Slots)
      BY <1>1, <1>7
    <2>1. Count(got, k) + Count(rest, k) <= Count(inventory[o], k) + Count(inventory[q], k)
      BY <1>3, <1>4, <1>5, <1>7, <2>0, HandedOver
    <2> HIDE DEF got
    <2>2. PICK invs : invs = inventory'
      OBVIOUS
    <2>3. invs \in [Players -> Bags(Slots)] /\ invs = [inventory EXCEPT ![o] = got, ![q] = rest]
      BY <1>2, <1>8, <2>2
    <2>4. invs[o] = got /\ invs[q] = rest
      BY <1>1, <1>7, <2>3
    <2>5. \A z \in Players \ {o, q} : invs[z] = inventory[z] /\ cart[z] = cart[z]
      BY <1>7, <2>3
    <2>6. got \in Bags(Slots) /\ cart[o] \in Bags(CartSlots) /\ cart[q] \in Bags(CartSlots)
      BY <1>1, <1>7, <2>3, <2>4
    <2>7. /\ Count(got, k) \in Nat /\ Count(inventory[o], k) \in Nat /\ Count(inventory[q], k) \in Nat
          /\ Count(rest, k) \in Nat /\ Count(cart[q], k) \in Nat /\ Count(cart[o], k) \in Nat
      <3>1. Count(got, k) \in Nat /\ Count(inventory[o], k) \in Nat /\ Count(inventory[q], k) \in Nat
        BY <1>7, <2>0, <2>6, CountIs
      <3>2. Count(rest, k) \in Nat /\ Count(cart[q], k) \in Nat /\ Count(cart[o], k) \in Nat
        BY <1>5, <1>7, <2>6, CountIs
      <3> QED BY <3>1, <3>2
    <2>8. Has(invs[o], cart[o], k) + Has(invs[q], cart[q], k)
            <= Has(inventory[o], cart[o], k) + Has(inventory[q], cart[q], k)
      BY <2>1, <2>4, <2>7 DEF Has
    <2>9. o \in Players /\ q \in Players \ {o}
      BY <1>1
    <2>10. Total(invs, cart, k) <= Total(inventory, cart, k)
      BY <1>7, <2>3, <2>5, <2>8, <2>9, TotalOfTwo
    <2> QED BY <2>2, <2>10
  <1> QED BY <1>6, <1>9 DEF CopiesNothing

-----------------------------------------------------------------------------
(* Nor does anything else.                                                 *)
LEMMA UnchangedKeeps ==
  ASSUME ShopConstantsOK, ShopInv, UNCHANGED goods
  PROVE  CopiesNothing
  <1>1. inventory' = inventory /\ cart' = cart /\ zeny' = zeny
    BY DEF goods
  <1>2. /\ inventory \in [Players -> Bags(Slots)] /\ cart \in [Players -> Bags(CartSlots)]
        /\ zeny \in [Players -> Int] /\ IsFiniteSet(Players)
    <2>1. MaxZeny \in Nat /\ zeny \in [Players -> 0 .. MaxZeny]
      BY DEF ShopInv, Owned, ShopConstantsOK
    <2>2. \A n \in 0 .. MaxZeny : n \in Int
      OBVIOUS
    <2>3. zeny \in [Players -> Int]
      BY <2>1, <2>2
    <2> QED BY <2>3 DEF ShopInv, Owned, ShopConstantsOK
  <1>3. Sum(zeny) <= Sum(zeny)
    <2>1. \A x \in Players : zeny[x] <= zeny[x]
      BY <1>2
    <2> QED BY <1>2, <2>1, SumAtMost
  <1>4. ASSUME NEW k \in Kinds PROVE Total(inventory, cart, k) <= Total(inventory, cart, k)
    <2>1. HasOf(inventory, cart, k) \in [Players -> Int] /\ Total(inventory, cart, k) = Sum(HasOf(inventory, cart, k))
      BY <1>2, TotalIs
    <2> DEFINE f == HasOf(inventory, cart, k)
    <2>2. f \in [Players -> Int] /\ Total(inventory, cart, k) = Sum(f)
      BY <2>1
    <2> HIDE DEF f
    <2>3. \A x \in Players : f[x] <= f[x]
      BY <2>2
    <2>4. Sum(f) <= Sum(f)
      BY <1>2, <2>2, <2>3, SumAtMost
    <2> QED BY <2>2, <2>4
  <1> QED BY <1>1, <1>3, <1>4 DEF CopiesNothing

(* One player's things change, and it has no more of anything.             *)
LEMMA OwnKeeps ==
  ASSUME ShopConstantsOK, ShopInv, Owned', UNCHANGED zeny, NEW p \in Players,
         NEW inv, NEW crt, inventory' = [inventory EXCEPT ![p] = inv], cart' = [cart EXCEPT ![p] = crt],
         \A k \in Kinds : Has(inv, crt, k) <= Has(inventory[p], cart[p], k)
  PROVE  CopiesNothing
  <1>1. inventory \in [Players -> Bags(Slots)] /\ cart \in [Players -> Bags(CartSlots)] /\ zeny' = zeny
    BY DEF ShopInv, Owned
  <1>2. inventory' \in [Players -> Bags(Slots)] /\ cart' \in [Players -> Bags(CartSlots)]
    BY DEF Owned
  <1>3. PICK invs, carts : invs = inventory' /\ carts = cart'
    OBVIOUS
  <1>4. /\ invs \in [Players -> Bags(Slots)] /\ carts \in [Players -> Bags(CartSlots)]
        /\ invs[p] = inv /\ carts[p] = crt
        /\ \A z \in Players \ {p} : invs[z] = inventory[z] /\ carts[z] = cart[z]
    BY <1>1, <1>2, <1>3
  <1>5. ASSUME NEW k \in Kinds PROVE Total(invs, carts, k) <= Total(inventory, cart, k)
    <2>1. Has(invs[p], carts[p], k) <= Has(inventory[p], cart[p], k)
      BY <1>4
    <2> QED BY <1>1, <1>4, <2>1, TotalOfOne
  <1>6. Sum(zeny') <= Sum(zeny)
    <2>1. zeny \in [Players -> Int] /\ IsFiniteSet(Players)
      <3>1. MaxZeny \in Nat /\ zeny \in [Players -> 0 .. MaxZeny] /\ IsFiniteSet(Players)
        BY DEF ShopInv, Owned, ShopConstantsOK
      <3>2. \A n \in 0 .. MaxZeny : n \in Int
        OBVIOUS
      <3> QED BY <3>1, <3>2
    <2>2. \A x \in Players : zeny[x] <= zeny[x]
      BY <2>1
    <2>3. Sum(zeny) <= Sum(zeny)
      BY <2>1, <2>2, SumAtMost
    <2> QED BY <1>1, <2>3
  <1> QED BY <1>3, <1>5, <1>6 DEF CopiesNothing
(* One piece less in slot i, and one more elsewhere.                       *)
LEMMA OneLessCount ==
  ASSUME ShopConstantsOK, NEW N \in Nat, NEW inv \in Bags(N), NEW i \in 1 .. N, inv[i] # Nothing, NEW k \in Kinds
  PROVE  /\ Count(delitem(inv, i, 1), k) + Among(inv[i].kind, k, 1) = Count(inv, k)
         /\ Count(delitem(inv, i, 1), k) \in Nat /\ Count(delitem(inv, i, 1), k) <= Count(inv, k)
  <1> DEFINE less == delitem(inv, i, 1)
  <1>1. less \in Bags(N) /\ \A j \in (1 .. N) \ {i} : less[j] = inv[j]
    <2>1. PICK n \in Nat : n = 1
      OBVIOUS
    <2>2. delitem(inv, i, n) \in Bags(N)
      BY DeletedType
    <2>3. \A j \in (1 .. N) \ {i} : delitem(inv, i, n)[j] = inv[j]
      BY DEF delitem, Bags
    <2> QED BY <2>1, <2>2, <2>3
  <1>2. /\ inv[i].amount \in Nat /\ inv[i].amount >= 1
    <2>1. inv[i] \in ItemIn(Kinds)
      BY DEF Bags
    <2>2. inv[i].amount \in 1 .. MaxAmount /\ MaxAmount \in Nat
      BY <2>1, ItemFacts
    <2> QED BY <2>2
  <1>3. \/ inv[i].amount < 1 /\ less[i] = inv[i]
        \/ inv[i].amount = 1 /\ less[i] = Nothing
        \/ inv[i].amount > 1 /\ less[i] = [kind |-> inv[i].kind, amount |-> inv[i].amount - 1]
    <2>1. 1 \in Nat
      OBVIOUS
    <2> QED BY <2>1, DeletedType
  <1> HIDE DEF less
  <1>4. Taken(inv, less, i, 1)
    <2>1. CASE less[i] = Nothing /\ inv[i].amount = 1
      BY <2>1 DEF Taken, Nothing
    <2>2. CASE less[i] = [kind |-> inv[i].kind, amount |-> inv[i].amount - 1]
      <3>1. less[i].kind = inv[i].kind /\ less[i].amount = inv[i].amount - 1
        BY <2>2
      <3> QED BY <1>2, <3>1 DEF Taken
    <2> QED BY <1>2, <1>3, <2>1, <2>2
  <1>5. 1 \in Nat
    OBVIOUS
  <1>6. Count(less, k) + Among(inv[i].kind, k, 1) = Count(inv, k)
    BY <1>1, <1>4, <1>5, CountTaken
  <1>7. Count(less, k) \in Nat
    BY <1>1, CountIs
  <1>8. Among(inv[i].kind, k, 1) \in Nat
    BY DEF Among
  <1>9. Count(less, k) <= Count(inv, k)
    BY <1>6, <1>7, <1>8
  <1> QED BY <1>6, <1>7, <1>9 DEF less

LEMMA OneMoreCount ==
  ASSUME ShopConstantsOK, NEW N \in Nat, NEW inv \in Bags(N), NEW x \in Kinds, 1 \in 1 .. MaxAmount,
         NEW new, new = inv \/ new = Put(inv, x, 1), NEW k \in Kinds
  PROVE  Count(new, k) <= Count(inv, k) + Among(x, k, 1) /\ Count(new, k) \in Nat
  <1>1. Grown(N, inv, x, 1, new)
    <2>1. CASE new = inv
      BY <2>1 DEF Grown
    <2>2. CASE new = Put(inv, x, 1)
      BY <2>2, PutGrows
    <2> QED BY <2>1, <2>2
  <1>2. Count(new, k) <= Count(inv, k) + Among(x, k, 1)
    BY <1>1, CountGrown
  <1>3. new \in Bags(N)
    BY <1>1, GrownType
  <1>4. Count(new, k) \in Nat
    BY <1>3, CountIs
  <1> QED BY <1>2, <1>4

LEMMA MovesKeep ==
  ASSUME ShopConstantsOK, ShopInv, Owned', NEW p \in Players,
         \/ \E i \in 1 .. Slots : pc_putitemtocart(p, i)
         \/ \E i \in 1 .. CartSlots : pc_getitemfromcart(p, i)
  PROVE  CopiesNothing
  <1>1. Slots \in Nat /\ CartSlots \in Nat
    BY DEF ShopConstantsOK
  <1>2. inventory[p] \in Bags(Slots) /\ cart[p] \in Bags(CartSlots)
    BY DEF ShopInv, Owned
  <1>3. ASSUME NEW i \in 1 .. Slots, pc_putitemtocart(p, i) PROVE CopiesNothing
    <2> DEFINE x == inventory[p][i].kind
               filled == additem(cart[p], x, 1, FALSE)
               less == delitem(inventory[p], i, 1)
    <2>1. /\ cart' = [cart EXCEPT ![p] = filled] /\ inventory' = [inventory EXCEPT ![p] = less]
          /\ UNCHANGED zeny /\ inventory[p][i] # Nothing
      BY <1>3 DEF pc_putitemtocart
    <2>2. x \in Kinds /\ 1 \in 1 .. MaxAmount
      <3>1. inventory[p][i] \in ItemIn(Kinds)
        BY <1>2 DEF Bags
      <3> QED BY <2>1, <3>1, ItemFacts
    <2>3. filled = cart[p] \/ filled = Put(cart[p], x, 1)
      BY DEF additem, Put
    <2> HIDE DEF x, filled, less
    <2>4. ASSUME NEW k \in Kinds PROVE Has(less, filled, k) <= Has(inventory[p], cart[p], k)
      <3>1. Count(less, k) + Among(x, k, 1) = Count(inventory[p], k) /\ Count(less, k) \in Nat
        BY <1>1, <1>2, <2>1, OneLessCount DEF less, x
      <3>2. Count(filled, k) <= Count(cart[p], k) + Among(x, k, 1) /\ Count(filled, k) \in Nat
        BY <1>1, <1>2, <2>2, <2>3, OneMoreCount
      <3>3. Among(x, k, 1) \in Nat /\ Count(cart[p], k) \in Nat
        BY <1>1, <1>2, CountIs DEF Among
      <3> QED BY <3>1, <3>2, <3>3 DEF Has
    <2> QED BY <2>1, <2>4, OwnKeeps
  <1>4. ASSUME NEW i \in 1 .. CartSlots, pc_getitemfromcart(p, i) PROVE CopiesNothing
    <2> DEFINE x == cart[p][i].kind
               filled == additem(inventory[p], x, 1, WeightOf(p) + Weight[x] > max_weight[p])
               less == delitem(cart[p], i, 1)
    <2>1. /\ inventory' = [inventory EXCEPT ![p] = filled] /\ cart' = [cart EXCEPT ![p] = less]
          /\ UNCHANGED zeny /\ cart[p][i] # Nothing
      BY <1>4 DEF pc_getitemfromcart
    <2>2. x \in Kinds /\ 1 \in 1 .. MaxAmount
      <3>1. cart[p][i] \in ItemIn(Kinds)
        BY <1>2 DEF Bags
      <3> QED BY <2>1, <3>1, ItemFacts
    <2>3. filled = inventory[p] \/ filled = Put(inventory[p], x, 1)
      BY DEF additem, Put
    <2> HIDE DEF x, filled, less
    <2>4. ASSUME NEW k \in Kinds PROVE Has(filled, less, k) <= Has(inventory[p], cart[p], k)
      <3>1. Count(less, k) + Among(x, k, 1) = Count(cart[p], k) /\ Count(less, k) \in Nat
        BY <1>1, <1>2, <2>1, OneLessCount DEF less, x
      <3>2. Count(filled, k) <= Count(inventory[p], k) + Among(x, k, 1) /\ Count(filled, k) \in Nat
        BY <1>1, <1>2, <2>2, <2>3, OneMoreCount
      <3>3. Among(x, k, 1) \in Nat /\ Count(inventory[p], k) \in Nat
        BY <1>1, <1>2, CountIs DEF Among
      <3> QED BY <3>1, <3>2, <3>3 DEF Has
    <2> QED BY <2>1, <2>4, OwnKeeps
  <1> QED BY <1>3, <1>4

LEMMA TakenKeeps ==
  ASSUME ShopConstantsOK, ShopInv, Owned', NEW p \in Players,
         \/ WeightDrops(p) \/ Costs(p)
         \/ \E i \in 1 .. CartSlots : TakenFromCart(p, i)
         \/ \E i \in 1 .. Slots : TakenFromBackpack(p, i)
  PROVE  CopiesNothing
  <1>1. Slots \in Nat /\ CartSlots \in Nat
    BY DEF ShopConstantsOK
  <1>2. /\ inventory[p] \in Bags(Slots) /\ cart[p] \in Bags(CartSlots)
        /\ inventory \in [Players -> Bags(Slots)] /\ cart \in [Players -> Bags(CartSlots)]
    BY DEF ShopInv, Owned
  <1>3. ASSUME WeightDrops(p) PROVE CopiesNothing
    <2>1. UNCHANGED goods
      BY <1>3 DEF WeightDrops
    <2> QED BY <2>1, UnchangedKeeps
  <1>4. ASSUME Costs(p) PROVE CopiesNothing
    <2>1. /\ zeny' = [zeny EXCEPT ![p] = @ - 1] /\ inventory' = inventory /\ cart' = cart
      BY <1>4 DEF Costs
    <2>2. zeny \in [Players -> Int] /\ IsFiniteSet(Players)
      <3>1. MaxZeny \in Nat /\ zeny \in [Players -> 0 .. MaxZeny] /\ IsFiniteSet(Players)
        BY DEF ShopInv, Owned, ShopConstantsOK
      <3>2. \A n \in 0 .. MaxZeny : n \in Int
        OBVIOUS
      <3> QED BY <3>1, <3>2
    <2>3. PICK less : less = zeny'
      OBVIOUS
    <2>4. less \in [Players -> Int] /\ \A x \in Players : less[x] <= zeny[x]
      BY <2>1, <2>2, <2>3
    <2>5. Sum(less) <= Sum(zeny)
      BY <2>2, <2>4, SumAtMost
    <2>6. ASSUME NEW k \in Kinds PROVE Total(inventory, cart, k) <= Total(inventory, cart, k)
      <3>1. \A z \in Players \ {p} : inventory[z] = inventory[z] /\ cart[z] = cart[z]
        OBVIOUS
      <3>2. Has(inventory[p], cart[p], k) <= Has(inventory[p], cart[p], k)
        <4>1. Count(inventory[p], k) \in Nat
          BY <1>1, <1>2, CountIs
        <4>2. Count(cart[p], k) \in Nat
          BY <1>1, <1>2, CountIs
        <4> QED BY <4>1, <4>2 DEF Has
      <3> QED BY <1>2, <3>1, <3>2, TotalOfOne
    <2> QED BY <2>1, <2>3, <2>5, <2>6 DEF CopiesNothing
  <1>5. ASSUME NEW i \in 1 .. CartSlots, TakenFromCart(p, i) PROVE CopiesNothing
    <2> DEFINE less == delitem(cart[p], i, 1)
               same == inventory[p]
    <2>1. cart' = [cart EXCEPT ![p] = less] /\ UNCHANGED <<inventory, zeny>> /\ cart[p][i] # Nothing
      BY <1>5 DEF TakenFromCart
    <2>2. inventory' = [inventory EXCEPT ![p] = same]
      BY <1>2, <2>1
    <2>3. ASSUME NEW k \in Kinds PROVE Has(same, less, k) <= Has(inventory[p], cart[p], k)
      <3>1. Count(less, k) <= Count(cart[p], k) /\ Count(less, k) \in Nat
        BY <1>1, <1>2, <2>1, OneLessCount
      <3>2. Count(inventory[p], k) \in Nat
        BY <1>1, <1>2, CountIs
      <3>3. Count(cart[p], k) \in Nat
        BY <1>1, <1>2, CountIs
      <3> HIDE DEF less
      <3> QED BY <3>1, <3>2, <3>3 DEF Has
    <2> HIDE DEF less, same
    <2> QED BY <2>1, <2>2, <2>3, OwnKeeps
  <1>6. ASSUME NEW i \in 1 .. Slots, TakenFromBackpack(p, i) PROVE CopiesNothing
    <2> DEFINE less == delitem(inventory[p], i, 1)
               same == cart[p]
    <2>1. inventory' = [inventory EXCEPT ![p] = less] /\ UNCHANGED <<cart, zeny>> /\ inventory[p][i] # Nothing
      BY <1>6 DEF TakenFromBackpack
    <2>2. cart' = [cart EXCEPT ![p] = same]
      BY <1>2, <2>1
    <2>3. ASSUME NEW k \in Kinds PROVE Has(less, same, k) <= Has(inventory[p], cart[p], k)
      <3>1. Count(less, k) <= Count(inventory[p], k) /\ Count(less, k) \in Nat
        BY <1>1, <1>2, <2>1, OneLessCount
      <3>2. Count(inventory[p], k) \in Nat
        BY <1>1, <1>2, CountIs
      <3>3. Count(cart[p], k) \in Nat
        BY <1>1, <1>2, CountIs
      <3> HIDE DEF less
      <3> QED BY <3>1, <3>2, <3>3 DEF Has
    <2> HIDE DEF less, same
    <2> QED BY <2>1, <2>2, <2>3, OwnKeeps
  <1> QED BY <1>3, <1>4, <1>5, <1>6

(* The char-server's answer replaces the cart of one player by what it has *)
(* stored, or changes nothing.                                             *)
LEMMA ReplyKeeps ==
  ASSUME ShopConstantsOK, ShopInv, NEW p \in Players, ReceiveReply(p)
  PROVE  CopiesNothing
  <1>1. UNCHANGED <<inventory, zeny>>
    BY Zenon DEF ReceiveReply
  <1>2. CASE cart' = cart
    <2>1. UNCHANGED goods
      BY <1>1, <1>2 DEF goods
    <2> QED BY <2>1, UnchangedKeeps
  <1>3. CASE cart' # cart
    <2>1. reply[p] # <<>> /\ Head(reply[p]) # Saved
      BY <1>3 DEF ReceiveReply
    <2>2. reply' = [reply EXCEPT ![p] = Tail(reply[p])]
      BY <2>1 DEF ReceiveReply
    <2>3. Reread(p)
      BY <2>1, <2>2 DEF Reread, ShopInv, Stores
    <2>4. Sum(zeny') <= Sum(zeny)
      <3>1. MaxZeny \in Nat /\ zeny \in [Players -> 0 .. MaxZeny] /\ IsFiniteSet(Players)
        BY DEF ShopInv, Owned, ShopConstantsOK
      <3>2. \A n \in 0 .. MaxZeny : n \in Int
        OBVIOUS
      <3>3. zeny \in [Players -> Int] /\ \A x \in Players : zeny[x] <= zeny[x]
        BY <3>1, <3>2
      <3>4. Sum(zeny) <= Sum(zeny)
        BY <3>1, <3>3, SumAtMost
      <3> QED BY <1>1, <3>4
    <2> QED BY <2>3, <2>4 DEF CopiesNothing
  <1> QED BY <1>2, <1>3

LEMMA StepKeeps == ASSUME ShopConstantsOK, ShopInv, ShopNext PROVE CopiesNothing
  <1>1. Owned'
    <2>1. ShopInv'
      BY StepTypes
    <2> QED BY <2>1 DEF ShopInv
  <1>2. PICK p \in Players : Act(p) \/ ReceiveReply(p)
    BY DEF ShopNext
  <1>3. CASE ReceiveReply(p)
    BY <1>3, ReplyKeeps
  <1>4. ASSUME UNCHANGED goods PROVE CopiesNothing
    BY <1>4, UnchangedKeeps
  <1>5. CASE Act(p)
    <2>1. CASE \E i \in 1 .. Slots : pc_putitemtocart(p, i)
      BY <1>1, <2>1, MovesKeep
    <2>2. CASE \E i \in 1 .. CartSlots : pc_getitemfromcart(p, i)
      BY <1>1, <2>2, MovesKeep
    <2>3. CASE \/ WeightDrops(p) \/ Costs(p)
               \/ \E i \in 1 .. CartSlots : TakenFromCart(p, i)
               \/ \E i \in 1 .. Slots : TakenFromBackpack(p, i)
      BY <1>1, <2>3, TakenKeeps
    <2>4. CASE pc_autosave_cart(p) \/ SkillVending(p)
      BY <1>4, <2>4 DEF pc_autosave_cart, SkillVending, goods
    <2>5. CASE CancelVending(p) \/ Autotrade(p)
      BY <1>4, <2>5 DEF CancelVending, Autotrade, goods
    <2>6. CASE Close(p) \/ map_quit_shop(p)
      BY <1>4, <2>6 DEF Close, map_quit_shop, goods
    <2>7. CASE \E S \in SUBSET (1 .. CartSlots) : \E n \in [S -> 1 .. MaxAmount], v \in PriceTags :
                 vending_openvending(p, S, n, v)
      <3>1. \A S, n, v : vending_openvending(p, S, n, v) => UNCHANGED goods
        BY Zenon DEF vending_openvending, goods
      <3> QED BY <1>4, <2>7, <3>1
    <2>8. CASE \E S \in SUBSET Wanted, limit \in 1 .. MaxZeny :
                 \E n \in [S -> 1 .. MaxAmount], v \in [S -> Offered] : buyingstore_create(p, S, n, v, limit)
      <3>1. \A S, n, v, limit : buyingstore_create(p, S, n, v, limit) => UNCHANGED goods
        BY Zenon DEF buyingstore_create, goods
      <3> QED BY <1>4, <2>8, <3>1
    <2>9. CASE \E owner \in Players : OpenList(p, owner)
      <3>1. \A owner : OpenList(p, owner) => UNCHANGED goods
        BY Zenon DEF OpenList, goods
      <3> QED BY <1>4, <2>9, <3>1
    <2>10. ASSUME NEW S \in SUBSET DOMAIN seen[p].list, NEW n \in [S -> 1 .. MaxAmount],
                  vending_purchasereq(p, S, n)
           PROVE  CopiesNothing
      <3>1. Bought(p, S, n) \/ UNCHANGED goods
        BY <2>10, RequestCases
      <3>2. CASE Bought(p, S, n)
        BY <1>1, <3>2, BoughtKeeps
      <3> QED BY <1>4, <3>1, <3>2
    <2>11. ASSUME NEW S \in SUBSET (1 .. Slots), NEW n \in [S -> 1 .. MaxAmount], buyingstore_trade(p, S, n)
           PROVE  CopiesNothing
      <3>1. UNCHANGED cart /\ (SoldTo(Owner(p), p, S, n) \/ UNCHANGED <<inventory, zeny>>)
        BY <2>11, RequestCases
      <3>2. PICK o : o = Owner(p)
        OBVIOUS
      <3>3. CASE SoldTo(o, p, S, n)
        BY <1>1, <3>1, <3>3, SoldKeeps
      <3>4. CASE UNCHANGED <<inventory, zeny>>
        BY <1>4, <3>1, <3>4 DEF goods
      <3> QED BY <3>1, <3>2, <3>3, <3>4
    <2> QED BY <1>5, <2>1, <2>2, <2>3, <2>4, <2>5, <2>6, <2>7, <2>8, <2>9, <2>10, <2>11, ActCases
  <1> QED BY <1>2, <1>3, <1>5

(* However lists age, carts fill, shops close in between and scripts take  *)
(* things, no step leaves more pieces of any kind or more zeny with the    *)
(* players than there were, but for a cart that is read again.             *)
THEOREM NothingIsCopied == ShopConstantsOK => (ShopSpec => NothingCopied)
  <1> SUFFICES ASSUME ShopConstantsOK PROVE ShopSpec => NothingCopied
    OBVIOUS
  <1>1. ShopInv /\ [ShopNext]_shopvars => [UNCHANGED goods \/ CopiesNothing]_goods
    BY StepKeeps DEF shopvars
  <1>2. ShopSpec => []ShopInv
    BY ShopInvariant
  <1> QED BY <1>1, <1>2, PTL DEF ShopSpec, NothingCopied

-----------------------------------------------------------------------------
(* Carts, and what is stored of them, have one slot for each kind that     *)
(* shares a slot, too.                                                     *)

CartsStacked ==
  /\ \A p \in Players : Stacked(cart[p]) /\ Stacked(stored[p])
  /\ \A p \in Players : \A i \in DOMAIN reply[p] : reply[p][i] = Saved \/ Stacked(reply[p][i].cart)

LEMMA PackedStacked ==
  ASSUME ShopConstantsOK, NEW c \in Bags(CartSlots), Stacked(c)
  PROVE  Stacked(Packed(c))
  <1> DEFINE S == {i \in 1 .. CartSlots : c[i] # Nothing}
             full == Entries(c, S)
             P == Packed(c)
  <1>1. S \in SUBSET (1 .. CartSlots) /\ CartSlots \in Nat /\ DOMAIN c = 1 .. CartSlots /\ Void \notin Stackable
    BY DEF ShopConstantsOK, Bags
  <1> HIDE DEF S
  <1>2. /\ Cardinality(S) \in Nat /\ InOrder(S) \in [1 .. Cardinality(S) -> S]
        /\ \A i, j \in 1 .. Cardinality(S) : i # j => InOrder(S)[i] # InOrder(S)[j]
    BY <1>1, InOrderFacts
  <1>3. full = [j \in 1 .. Cardinality(S) |-> c[InOrder(S)[j]]] /\ Len(full) = Cardinality(S)
    BY <1>2 DEF Entries
  <1>4. P = [i \in 1 .. CartSlots |-> IF i <= Len(full) THEN full[i] ELSE Nothing]
    BY DEF Packed, S
  <1> HIDE DEF full, P
  <1>5. ASSUME NEW k \in Stackable, NEW i \in 1 .. CartSlots, P[i].kind = k
        PROVE  i \in 1 .. Cardinality(S) /\ c[InOrder(S)[i]].kind = k /\ InOrder(S)[i] \in 1 .. CartSlots
    <2>1. P[i] # Nothing
      BY <1>1, <1>5 DEF Nothing
    <2>2. i \in 1 .. Cardinality(S) /\ P[i] = full[i]
      BY <1>1, <1>2, <1>3, <1>4, <2>1
    <2> QED BY <1>1, <1>2, <1>3, <1>5, <2>2
  <1>6. ASSUME NEW k \in Stackable, NEW i \in 1 .. CartSlots, NEW j \in 1 .. CartSlots, P[i].kind = k, P[j].kind = k
        PROVE  i = j
    <2>1. /\ i \in 1 .. Cardinality(S) /\ c[InOrder(S)[i]].kind = k /\ InOrder(S)[i] \in 1 .. CartSlots
      BY <1>5, <1>6
    <2>2. /\ j \in 1 .. Cardinality(S) /\ c[InOrder(S)[j]].kind = k /\ InOrder(S)[j] \in 1 .. CartSlots
      BY <1>5, <1>6
    <2>3. InOrder(S)[i] = InOrder(S)[j]
      BY <1>1, <2>1, <2>2 DEF Stacked
    <2> QED BY <1>2, <2>1, <2>2, <2>3
  <1>7. DOMAIN P = 1 .. CartSlots
    BY <1>4
  <1>8. Stacked(P)
    BY <1>6, <1>7 DEF Stacked
  <1> QED BY <1>8 DEF P

LEMMA CartsFirst == ASSUME ShopConstantsOK, ShopInit PROVE CartsStacked
  <1>1. \A p \in Players : stored[p] = cart[p] /\ reply[p] = <<>> /\ Stacked(cart[p])
    BY DEF ShopInit, ShopConstantsOK
  <1>2. DOMAIN <<>> = {}
    OBVIOUS
  <1> QED BY <1>1, <1>2 DEF CartsStacked

(* A cart is saved, or nothing is. *)
LEMMA SavesStacked ==
  ASSUME ShopInv, CartsStacked, NEW p \in Players, \A q \in Players : Stacked(cart'[q]), Saves(p) \/ UNCHANGED server
  PROVE  CartsStacked'
  <1>1. CASE UNCHANGED server
    BY <1>1 DEF CartsStacked, server
  <1>2. CASE Saves(p)
    <2>1. stored \in [Players -> Bags(CartSlots)] /\ reply \in [Players -> Seq(Replies)]
      BY DEF ShopInv, Stores
    <2>2. stored' = [stored EXCEPT ![p] = cart'[p]] /\ reply' = [reply EXCEPT ![p] = Append(reply[p], Saved)]
      BY <1>2 DEF Saves
    <2>3. \A q \in Players : Stacked(stored'[q])
      BY <2>1, <2>2 DEF CartsStacked
    <2>4. \A q \in Players \ {p} : reply'[q] = reply[q]
      BY <2>1, <2>2
    <2>5. reply'[p] = Append(reply[p], Saved) /\ reply[p] \in Seq(Replies)
      BY <2>1, <2>2
    <2>6. \A i \in DOMAIN reply'[p] : (i \in DOMAIN reply[p] /\ reply'[p][i] = reply[p][i]) \/ reply'[p][i] = Saved
      BY <2>5
    <2> QED BY <2>3, <2>4, <2>6 DEF CartsStacked
  <1> QED BY <1>1, <1>2

(* The cart of one player changes. *)
LEMMA OneCartStacked ==
  ASSUME ShopInv, CartsStacked, NEW p \in Players, NEW c, Stacked(c), cart' = [cart EXCEPT ![p] = c]
  PROVE  \A q \in Players : Stacked(cart'[q])
  BY DEF ShopInv, Owned, CartsStacked

LEMMA ReplyStacked ==
  ASSUME ShopConstantsOK, ShopInv, CartsStacked, NEW p \in Players, ReceiveReply(p)
  PROVE  CartsStacked'
  <1> DEFINE r == Head(reply[p])
             packed == Packed(stored[p])
  <1>1. reply \in [Players -> Seq(Replies)] /\ reply[p] # <<>> /\ UNCHANGED stored
    BY DEF ReceiveReply, ShopInv, Stores
  <1>2. /\ \/ reply' = [reply EXCEPT ![p] = Append(Tail(reply[p]), Loaded(packed))]
           \/ reply' = [reply EXCEPT ![p] = Tail(reply[p])]
        /\ cart' = cart \/ (r # Saved /\ cart' = [cart EXCEPT ![p] = r.cart])
    BY Zenon DEF ReceiveReply
  <1>3. Stacked(packed)
    <2>1. stored[p] \in Bags(CartSlots) /\ Stacked(stored[p])
      BY DEF ShopInv, Stores, CartsStacked
    <2> QED BY <2>1, PackedStacked
  <1>4. Loaded(packed).cart = packed
    BY DEF Loaded
  <1> HIDE DEF packed
  <1>5. r = reply[p][1] /\ 1 \in DOMAIN reply[p] /\ reply[p] \in Seq(Replies)
    BY <1>1
  <1>6. \A q \in Players : Stacked(cart'[q])
    <2>1. r # Saved => Stacked(r.cart)
      BY <1>5 DEF CartsStacked
    <2> HIDE DEF r
    <2>2. CASE cart' = cart
      BY <2>2 DEF CartsStacked
    <2>3. CASE r # Saved /\ cart' = [cart EXCEPT ![p] = r.cart]
      BY <2>1, <2>3, OneCartStacked
    <2> QED BY <1>2, <2>2, <2>3
  <1>7. \A q \in Players \ {p} : reply'[q] = reply[q]
    BY <1>1, <1>2
  <1>8. reply'[p] = Append(Tail(reply[p]), Loaded(packed)) \/ reply'[p] = Tail(reply[p])
    BY <1>1, <1>2
  <1>9. \A i \in DOMAIN reply'[p] : \/ \E j \in DOMAIN reply[p] : reply'[p][i] = reply[p][j]
                                    \/ reply'[p][i] = Loaded(packed)
    <2> DEFINE t == Tail(reply[p])
    <2>1. t \in Seq(Replies) /\ Len(t) = Len(reply[p]) - 1 /\ Len(t) \in Nat
      BY <1>1, <1>5
    <2>2. \A i \in 1 .. Len(t) : i + 1 \in DOMAIN reply[p] /\ t[i] = reply[p][i + 1]
      BY <1>1, <1>5
    <2> HIDE DEF t
    <2>3. DOMAIN t = 1 .. Len(t)
      BY <2>1
    <2>4. \A y : \A i \in DOMAIN Append(t, y) : (i \in 1 .. Len(t) /\ Append(t, y)[i] = t[i]) \/ Append(t, y)[i] = y
      BY <2>1
    <2>5. CASE reply'[p] = t
      BY <2>2, <2>3, <2>5
    <2>6. CASE reply'[p] = Append(t, Loaded(packed))
      BY <2>2, <2>4, <2>6
    <2> QED BY <1>8, <2>5, <2>6 DEF t
  <1>10. \A i \in DOMAIN reply'[p] : reply'[p][i] = Saved \/ Stacked(reply'[p][i].cart)
    BY <1>3, <1>4, <1>9 DEF CartsStacked
  <1> QED BY <1>1, <1>6, <1>7, <1>10 DEF CartsStacked

(* What a purchase leaves in the cart. *)
LEMMA GivesStacked ==
  ASSUME ShopConstantsOK, NEW N \in Nat, NEW src \in Bags(N), NEW dst \in Bags(N), Stacked(src),
         NEW M, NEW order, NEW pos, Gives(N, src, dst, M, order, pos)
  PROVE  Stacked(dst)
  <1>1. \A i \in 1 .. N : dst[i].kind \in {Void, src[i].kind}
    BY DEF Gives
  <1>2. DOMAIN src = 1 .. N /\ DOMAIN dst = 1 .. N /\ Void \notin Stackable
    BY DEF Bags, ShopConstantsOK
  <1> QED BY <1>1, <1>2 DEF Stacked

LEMMA StepStacked == ASSUME ShopConstantsOK, ShopInv, CartsStacked, [ShopNext]_shopvars PROVE CartsStacked'
  <1>0. /\ CartSlots \in Nat /\ Slots \in Nat
        /\ \A p \in Players : cart[p] \in Bags(CartSlots) /\ Stacked(cart[p])
        /\ \A p \in Players : inventory[p] \in Bags(Slots)
    BY DEF ShopConstantsOK, ShopInv, Owned, CartsStacked
  <1>1. ASSUME NEW p \in Players, UNCHANGED cart, Saves(p) \/ UNCHANGED server PROVE CartsStacked'
    <2>1. \A q \in Players : Stacked(cart'[q])
      BY <1>0, <1>1
    <2> QED BY <1>1, <2>1, SavesStacked
  <1>2. ASSUME NEW p \in Players, NEW c, Stacked(c), cart' = [cart EXCEPT ![p] = c],
               NEW q \in Players, Saves(q) \/ UNCHANGED server
        PROVE  CartsStacked'
    <2>1. \A x \in Players : Stacked(cart'[x])
      BY <1>2, OneCartStacked
    <2> QED BY <1>2, <2>1, SavesStacked
  <1>3. CASE UNCHANGED shopvars
    BY <1>3 DEF CartsStacked, shopvars, server, goods
  <1>4. ASSUME NEW p \in Players, Act(p) PROVE CartsStacked'
    <2>1. ASSUME NEW i \in 1 .. Slots, pc_putitemtocart(p, i) PROVE CartsStacked'
      <3> DEFINE k == inventory[p][i].kind
                 filled == additem(cart[p], k, 1, FALSE)
      <3>1. cart' = [cart EXCEPT ![p] = filled] /\ UNCHANGED server /\ inventory[p][i] # Nothing
        BY <2>1 DEF pc_putitemtocart
      <3>2. k \in Kinds /\ 1 \in 1 .. MaxAmount
        <4>1. inventory[p][i] \in ItemIn(Kinds)
          BY <1>0 DEF Bags
        <4> QED BY <3>1, <4>1, ItemFacts
      <3>3. filled = cart[p] \/ filled = Put(cart[p], k, 1)
        BY DEF additem, Put
      <3> HIDE DEF k, filled
      <3>4. Stacked(filled)
        BY <1>0, <3>2, <3>3, OneMore
      <3> QED BY <1>2, <3>1, <3>4
    <2>2. ASSUME NEW i \in 1 .. CartSlots, pc_getitemfromcart(p, i) \/ TakenFromCart(p, i) PROVE CartsStacked'
      <3> DEFINE less == delitem(cart[p], i, 1)
      <3>1. cart' = [cart EXCEPT ![p] = less] /\ UNCHANGED server
        BY <2>2 DEF pc_getitemfromcart, TakenFromCart
      <3>2. Stacked(less)
        BY <1>0, OneLess
      <3> HIDE DEF less
      <3> QED BY <1>2, <3>1, <3>2
    <2>3. CASE \/ WeightDrops(p) \/ Costs(p) \/ \E i \in 1 .. Slots : TakenFromBackpack(p, i)
      <3>1. UNCHANGED cart /\ UNCHANGED server
        BY <2>3 DEF WeightDrops, Costs, TakenFromBackpack, goods
      <3> QED BY <1>1, <3>1
    <2>4. CASE pc_autosave_cart(p) \/ SkillVending(p)
      <3>1. UNCHANGED cart /\ (Saves(p) \/ UNCHANGED server)
        BY <2>4 DEF pc_autosave_cart, SkillVending
      <3> QED BY <1>1, <3>1
    <2>5. CASE CancelVending(p) \/ Autotrade(p)
      <3>1. UNCHANGED cart /\ UNCHANGED server
        BY <2>5 DEF CancelVending, Autotrade, goods
      <3> QED BY <1>1, <3>1
    <2>6. CASE Close(p) \/ map_quit_shop(p)
      <3>1. UNCHANGED cart /\ (Saves(p) \/ UNCHANGED server)
        BY <2>6 DEF Close, map_quit_shop, goods
      <3> QED BY <1>1, <3>1
    <2>7. CASE \E S \in SUBSET (1 .. CartSlots) : \E n \in [S -> 1 .. MaxAmount], v \in PriceTags :
                 vending_openvending(p, S, n, v)
      <3>1. \A S, n, v : vending_openvending(p, S, n, v) => UNCHANGED cart /\ Saves(p)
        BY Zenon DEF vending_openvending
      <3> QED BY <1>1, <2>7, <3>1
    <2>8. CASE \E S \in SUBSET Wanted, limit \in 1 .. MaxZeny :
                 \E n \in [S -> 1 .. MaxAmount], v \in [S -> Offered] : buyingstore_create(p, S, n, v, limit)
      <3>1. \A S, n, v, limit : buyingstore_create(p, S, n, v, limit) => UNCHANGED cart /\ UNCHANGED server
        BY Zenon DEF buyingstore_create, goods
      <3> QED BY <1>1, <2>8, <3>1
    <2>9. CASE \E owner \in Players : OpenList(p, owner)
      <3>1. \A owner : OpenList(p, owner) => UNCHANGED cart /\ UNCHANGED server
        BY Zenon DEF OpenList, goods
      <3> QED BY <1>1, <2>9, <3>1
    <2>10. ASSUME NEW S \in SUBSET DOMAIN seen[p].list, NEW n \in [S -> 1 .. MaxAmount],
                  vending_purchasereq(p, S, n)
           PROVE  CartsStacked'
      <3>1. CASE UNCHANGED cart /\ UNCHANGED server
        BY <1>1, <3>1
      <3>2. CASE Bought(p, S, n)
        <4> DEFINE s == Owner(p)
                   rest == CartLeft(p, S, n)
        <4>1. s \in Players \ {p} /\ rest \in Bags(CartSlots)
          BY <3>2, PurchaseFacts, CartLeftType DEF Bought
        <4>2. cart' = [cart EXCEPT ![s] = rest] /\ Saves(s)
          <5>1. s \in DOMAIN cart /\ p \in DOMAIN inventory
            BY <4>1 DEF ShopInv, Owned
          <5> QED BY <3>2, <5>1, PurchaseIs DEF Bought
        <4>3. PICK pos : Gives(CartSlots, cart[s], rest, Cardinality(S), PurchaseOrder(p, S, n), pos)
          BY <3>2, PurchaseGives DEF Bought
        <4> HIDE DEF s, rest
        <4>4. Stacked(rest)
          BY <1>0, <4>1, <4>3, GivesStacked
        <4> QED BY <1>2, <4>1, <4>2, <4>4
      <3>3. (UNCHANGED cart /\ UNCHANGED server) \/ Bought(p, S, n)
        BY <2>10 DEF vending_purchasereq, Bought, Owner, server, goods
      <3> QED BY <3>1, <3>2, <3>3
    <2>11. CASE \E S \in SUBSET (1 .. Slots) : \E n \in [S -> 1 .. MaxAmount] : buyingstore_trade(p, S, n)
      <3>1. \A S, n : buyingstore_trade(p, S, n) => UNCHANGED cart /\ UNCHANGED server
        BY Zenon DEF buyingstore_trade
      <3> QED BY <1>1, <2>11, <3>1
    <2> QED BY <1>4, <2>1, <2>2, <2>3, <2>4, <2>5, <2>6, <2>7, <2>8, <2>9, <2>10, <2>11, ActCases
  <1>5. ASSUME NEW p \in Players, ReceiveReply(p) PROVE CartsStacked'
    BY <1>5, ReplyStacked
  <1> QED BY <1>3, <1>4, <1>5 DEF ShopNext

-----------------------------------------------------------------------------
(* What is handed over arrives.                                            *)

(* A stack with room, or a free slot, takes it. *)
LEMMA PutFits ==
  ASSUME ShopConstantsOK, NEW N \in Nat, NEW inv \in Bags(N), NEW k \in Kinds, NEW n \in 1 .. MaxAmount,
         StackOf(inv, k) # {} \/ FreeSlots(inv) # {},
         \A t \in StackOf(inv, k) : n <= MaxAmount - inv[t].amount
  PROVE  \E j \in 1 .. N : /\ Into(N, inv, k, n, Put(inv, k, n), j)
                           /\ StackOf(inv, k) # {} => inv[j].kind = k
  <1>0. StackOf(inv, k) \in SUBSET (1 .. N) /\ \A t \in StackOf(inv, k) : inv[t].kind = k
    BY DEF StackOf, Bags
  <1>1. CASE StackOf(inv, k) # {}
    <2>1. PICK t : t = First(StackOf(inv, k))
      OBVIOUS
    <2>2. t \in StackOf(inv, k)
      <3>1. StackOf(inv, k) \in SUBSET Nat
        BY <1>0
      <3> QED BY <1>1, <2>1, <3>1, FirstIsIn
    <2>3. t \in 1 .. N /\ inv[t].kind = k /\ k \in Stackable
      BY <1>0, <2>2 DEF StackOf
    <2>4. inv[t] = [kind |-> k, amount |-> inv[t].amount] /\ inv[t].amount \in 1 .. MaxAmount
      <3>1. inv[t] \in ItemIn(Kinds) /\ inv[t] # Nothing
        BY <2>3 DEF Bags, Nothing, ShopConstantsOK
      <3> QED BY <2>3, <3>1 DEF ItemIn
    <2>5. MaxAmount \in Nat /\ n \in Nat /\ n <= MaxAmount - inv[t].amount
      BY <2>2 DEF ShopConstantsOK
    <2>6. ~(n > MaxAmount - inv[t].amount) /\ inv[t].amount + n \in 1 .. MaxAmount
      BY <2>4, <2>5
    <2>7. Put(inv, k, n) = [inv EXCEPT ![t].amount = @ + n]
      BY <1>1, <2>1, <2>6 DEF Put
    <2>8. [inv EXCEPT ![t].amount = @ + n] = [inv EXCEPT ![t] = [kind |-> k, amount |-> inv[t].amount + n]]
      <3> DEFINE x == inv[t]
      <3>1. [x EXCEPT !.amount = @ + n] = [kind |-> k, amount |-> x.amount + n]
        <4>1. x = [kind |-> k, amount |-> x.amount]
          BY <2>4
        <4> HIDE DEF x
        <4> QED BY <4>1
      <3>2. [inv EXCEPT ![t].amount = @ + n] = [inv EXCEPT ![t] = [x EXCEPT !.amount = @ + n]]
        OBVIOUS
      <3> QED BY <3>1, <3>2
    <2>9. Into(N, inv, k, n, Put(inv, k, n), t)
      BY <2>3, <2>6, <2>7, <2>8 DEF Into
    <2> QED BY <2>3, <2>9
  <1>2. CASE StackOf(inv, k) = {}
    <2>1. PICK t : t = First(FreeSlots(inv))
      OBVIOUS
    <2>2. t \in 1 .. N /\ inv[t] = Nothing
      <3>1. FreeSlots(inv) \in SUBSET Nat /\ DOMAIN inv = 1 .. N
        BY DEF FreeSlots, Bags
      <3>2. t \in FreeSlots(inv)
        BY <1>2, <2>1, <3>1, FirstIsIn
      <3> QED BY <3>1, <3>2 DEF FreeSlots
    <2>3. Put(inv, k, n) = [inv EXCEPT ![t] = [kind |-> k, amount |-> n]]
      BY <1>2, <2>1 DEF Put
    <2>4. inv[t].amount + n = n /\ n \in 1 .. MaxAmount
      BY <2>2 DEF Nothing, ShopConstantsOK
    <2>5. k \in Stackable => \A i \in 1 .. N : inv[i].kind # k
      BY <1>2 DEF StackOf, Bags
    <2>6. Into(N, inv, k, n, Put(inv, k, n), t)
      BY <2>2, <2>3, <2>4, <2>5 DEF Into
    <2> QED BY <1>2, <2>2, <2>6
  <1> QED BY <1>1, <1>2

(* n pieces of x, in slot j, change the count, the weight and the slots. *)
LEMMA CountInto ==
  ASSUME ShopConstantsOK, NEW N \in Nat, NEW inv \in Bags(N), NEW x \in Kinds, NEW n \in 1 .. MaxAmount,
         NEW new \in Bags(N), NEW j \in 1 .. N, Into(N, inv, x, n, new, j), NEW k \in Kinds
  PROVE  Count(new, k) = Count(inv, k) + Among(x, k, n)
  <1>1. n \in Nat /\ Among(x, k, n) \in Nat
    BY DEF Among
  <1>2. /\ inv[j] = Nothing \/ inv[j].kind = x
        /\ new = [inv EXCEPT ![j] = [kind |-> x, amount |-> inv[j].amount + n]]
    BY DEF Into
  <1>3. \A i \in (1 .. N) \ {j} : new[i] = inv[i]
    BY <1>2 DEF Bags
  <1>4. new[j].kind = x /\ new[j].amount = inv[j].amount + n
    BY <1>2 DEF Bags
  <1>5. Count(new, k) = Count(inv, k) + (PiecesAs(new[j], k) - PiecesAs(inv[j], k))
    BY <1>3, CountChanges
  <1>6. inv[j].amount \in Nat /\ (inv[j] = Nothing => inv[j].amount = 0 /\ inv[j].kind # k)
    <2>1. inv[j] \in ItemIn(Kinds) /\ k # Void
      BY DEF Bags, ShopConstantsOK
    <2> QED BY <2>1, ItemFacts
  <1>7. PiecesAs(new[j], k) - PiecesAs(inv[j], k) = Among(x, k, n)
    BY <1>1, <1>2, <1>4, <1>6 DEF PiecesAs, Among
  <1>8. Count(inv, k) \in Nat
    BY CountIs
  <1> QED BY <1>1, <1>5, <1>7, <1>8

LoadOf(inv) == [i \in 1 .. Slots |-> Load(inv[i])]

LEMMA WeightIs ==
  ASSUME ShopConstantsOK, NEW inv \in Bags(Slots)
  PROVE  /\ IsFiniteSet(1 .. Slots) /\ LoadOf(inv) \in [1 .. Slots -> Int]
         /\ WeightIn(inv) = Sum(LoadOf(inv)) /\ WeightIn(inv) \in Nat
  <1>1. Slots \in Nat /\ IsFiniteSet(1 .. Slots)
    <2>1. Slots \in Nat
      BY DEF ShopConstantsOK
    <2> QED BY <2>1, FS_Interval
  <1>2. ASSUME NEW i \in 1 .. Slots PROVE Load(inv[i]) \in Nat
    <2>1. inv[i] \in ItemIn(Kinds)
      BY DEF Bags
    <2>2. inv[i].amount \in Nat /\ (inv[i] # Nothing => inv[i].kind \in Kinds)
      BY <2>1, ItemFacts
    <2>3. \A k \in Kinds : Weight[k] \in Nat
      BY DEF ShopConstantsOK
    <2>4. \A w, a \in Nat : w * a \in Nat
      OBVIOUS
    <2> QED BY <2>2, <2>3, <2>4 DEF Load
  <1>3. LoadOf(inv) \in [1 .. Slots -> Nat] /\ LoadOf(inv) \in [1 .. Slots -> Int]
    BY <1>2 DEF LoadOf
  <1>4. WeightIn(inv) = Sum(LoadOf(inv))
    BY DEF WeightIn, LoadOf
  <1> QED BY <1>1, <1>3, <1>4, SumType

LEMMA WeightInto ==
  ASSUME ShopConstantsOK, NEW inv \in Bags(Slots), NEW x \in Kinds, NEW n \in 1 .. MaxAmount,
         NEW new \in Bags(Slots), NEW j \in 1 .. Slots, Into(Slots, inv, x, n, new, j)
  PROVE  WeightIn(new) = WeightIn(inv) + Weight[x] * n
  <1>1. /\ inv[j] = Nothing \/ inv[j].kind = x
        /\ new = [inv EXCEPT ![j] = [kind |-> x, amount |-> inv[j].amount + n]]
    BY DEF Into
  <1>2. \A i \in (1 .. Slots) \ {j} : new[i] = inv[i]
    BY <1>1 DEF Bags
  <1>3. new[j] = [kind |-> x, amount |-> inv[j].amount + n]
    BY <1>1 DEF Bags
  <1>4. n \in Nat /\ Weight[x] \in Nat /\ inv[j].amount \in Nat /\ (inv[j] = Nothing => inv[j].amount = 0)
    <2>1. inv[j] \in ItemIn(Kinds)
      BY DEF Bags
    <2>2. inv[j].amount \in Nat /\ (inv[j] = Nothing => inv[j].amount = 0)
      BY <2>1, ItemFacts
    <2> QED BY <2>2 DEF ShopConstantsOK
  <1>5. Load(new[j]) = Load(inv[j]) + Weight[x] * n
    <2>1. x # Void
      BY DEF ShopConstantsOK
    <2>2. new[j] # Nothing /\ Load(new[j]) = Weight[x] * (inv[j].amount + n)
      BY <1>3, <2>1 DEF Load, Nothing
    <2>3. Load(inv[j]) = Weight[x] * inv[j].amount
      <3>1. CASE inv[j] = Nothing
        <4>1. \A w \in Nat : w * 0 = 0
          OBVIOUS
        <4> QED BY <1>4, <3>1, <4>1 DEF Load
      <3>2. CASE inv[j] # Nothing
        BY <1>1, <3>2 DEF Load
      <3> QED BY <3>1, <3>2
    <2>4. \A w, a, b \in Nat : w * (a + b) = w * a + w * b
      OBVIOUS
    <2>5. Weight[x] * (inv[j].amount + n) = Weight[x] * inv[j].amount + Weight[x] * n
      BY <1>4, <2>4
    <2> QED BY <2>2, <2>3, <2>5, Zenon
  <1>6. /\ LoadOf(inv) \in [1 .. Slots -> Int] /\ WeightIn(inv) = Sum(LoadOf(inv)) /\ IsFiniteSet(1 .. Slots)
        /\ LoadOf(new) \in [1 .. Slots -> Int] /\ WeightIn(new) = Sum(LoadOf(new))
    BY WeightIs
  <1>7. /\ \A i \in (1 .. Slots) \ {j} : LoadOf(new)[i] = LoadOf(inv)[i]
        /\ LoadOf(new)[j] = Load(new[j]) /\ LoadOf(inv)[j] = Load(inv[j])
    BY <1>2 DEF LoadOf
  <1>8. Sum(LoadOf(new)) = Sum(LoadOf(inv)) + (LoadOf(new)[j] - LoadOf(inv)[j])
    <2>1. PICK f, g : f = LoadOf(inv) /\ g = LoadOf(new)
      OBVIOUS
    <2>2. Sum(g) = Sum(f) + (g[j] - f[j])
      BY <1>6, <1>7, <2>1, SumChanges
    <2> QED BY <2>1, <2>2
  <1>9. Load(inv[j]) \in Int /\ Weight[x] * n \in Int /\ WeightIn(inv) \in Int
    <2>1. \A w, a \in Nat : w * a \in Int
      OBVIOUS
    <2>2. WeightIn(inv) \in Nat
      BY WeightIs
    <2> QED BY <1>4, <1>6, <1>7, <2>1, <2>2
  <1> QED BY <1>5, <1>6, <1>7, <1>8, <1>9

LEMMA FreeInto ==
  ASSUME ShopConstantsOK, NEW N \in Nat, NEW inv \in Bags(N), NEW x \in Kinds, NEW n \in 1 .. MaxAmount,
         NEW new \in Bags(N), NEW j \in 1 .. N, Into(N, inv, x, n, new, j)
  PROVE  /\ IsFiniteSet(FreeSlots(inv)) /\ Cardinality(FreeSlots(inv)) \in Nat /\ Cardinality(FreeSlots(new)) \in Nat
         /\ FreeSlots(new) = FreeSlots(inv) \ {j}
         /\ Cardinality(FreeSlots(new)) >= Cardinality(FreeSlots(inv)) - 1
         /\ inv[j].kind = x => FreeSlots(new) = FreeSlots(inv)
  <1>1. DOMAIN inv = 1 .. N /\ DOMAIN new = 1 .. N /\ x # Void
    BY DEF Bags, ShopConstantsOK
  <1>2. new = [inv EXCEPT ![j] = [kind |-> x, amount |-> inv[j].amount + n]]
    BY DEF Into
  <1>3. FreeSlots(new) = FreeSlots(inv) \ {j}
    <2>1. new[j] # Nothing
      BY <1>1, <1>2 DEF Nothing
    <2>2. \A i \in (1 .. N) \ {j} : new[i] = inv[i]
      BY <1>1, <1>2
    <2> QED BY <1>1, <2>1, <2>2 DEF FreeSlots
  <1>4. inv[j].kind = x => j \notin FreeSlots(inv)
    BY <1>1 DEF FreeSlots, Nothing
  <1>5. IsFiniteSet(FreeSlots(inv)) /\ Cardinality(FreeSlots(inv)) \in Nat
    <2>1. FreeSlots(inv) \in SUBSET (1 .. N)
      BY <1>1 DEF FreeSlots
    <2> QED BY <2>1, PartFinite
  <1>6. /\ IsFiniteSet(FreeSlots(inv) \ {j})
        /\ Cardinality(FreeSlots(inv) \ {j}) = IF j \in FreeSlots(inv) THEN Cardinality(FreeSlots(inv)) - 1 ELSE Cardinality(FreeSlots(inv))
    BY <1>5, FS_RemoveElement
  <1>7. Cardinality(FreeSlots(new)) \in Nat
    BY <1>3, <1>6, FS_CardinalityType
  <1>8. Cardinality(FreeSlots(new)) >= Cardinality(FreeSlots(inv)) - 1
    BY <1>3, <1>5, <1>6
  <1> QED BY <1>3, <1>4, <1>5, <1>7, <1>8

(* An order of M lines fits into an inventory: line m is what f[m] of S    *)
(* stands for, which weighs q[f[m]], and those in fresh need a free slot.  *)
EachOnce(f, M, S) == f \in [1 .. M -> S] /\ \A i, j \in 1 .. M : i # j => f[i] # f[j]
FitsIn(p, inv, M, order, S, f, q, fresh) ==
  /\ IsFiniteSet(S) /\ EachOnce(f, M, S)
  /\ q \in [S -> Nat] /\ \A m \in 1 .. M : q[f[m]] = Weight[order[m].kind] * order[m].amount
  /\ max_weight[p] \in Nat /\ WeightIn(inv) + Sum(q) <= max_weight[p]
  /\ fresh \in SUBSET S /\ Cardinality(fresh) <= Cardinality(FreeSlots(inv))
  /\ \A m \in 1 .. M : f[m] \notin fresh => StackOf(inv, order[m].kind) # {}
  /\ \A m \in 1 .. M : \A t \in StackOf(inv, order[m].kind) : order[m].amount <= MaxAmount - inv[t].amount
  /\ \A l, m \in 1 .. M : l # m /\ order[l].kind \in Stackable => order[l].kind # order[m].kind

(* After m lines: the rest still fits, and its stacks are as they were. *)
Given(f, m) == {f[l] : l \in 1 .. m}
RestOf(S, f, q, m) == [x \in S |-> IF x \in Given(f, m) THEN 0 ELSE q[x]]
Underway(inv, M, order, S, f, q, fresh, now, m) ==
  /\ now \in Bags(Slots)
  /\ WeightIn(now) + Sum(RestOf(S, f, q, m)) = WeightIn(inv) + Sum(q)
  /\ Cardinality(fresh \ Given(f, m)) <= Cardinality(FreeSlots(now))
  /\ \A l \in 1 .. M : l > m => /\ StackOf(now, order[l].kind) = StackOf(inv, order[l].kind)
                                /\ \A t \in StackOf(inv, order[l].kind) : now[t] = inv[t]

LEMMA GivenGrows ==
  ASSUME NEW M \in Nat, NEW S, NEW f, EachOnce(f, M, S), NEW m \in 1 .. M
  PROVE  /\ Given(f, m) = Given(f, m - 1) \cup {f[m]} /\ f[m] \notin Given(f, m - 1) /\ f[m] \in S
         /\ Given(f, 0) = {}
  <1>1. 1 .. m = (1 .. (m - 1)) \cup {m} /\ 1 .. (m - 1) \in SUBSET (1 .. M) /\ m \notin 1 .. (m - 1)
    OBVIOUS
  <1>2. Given(f, m) = Given(f, m - 1) \cup {f[m]}
    BY <1>1 DEF Given
  <1>3. f[m] \notin Given(f, m - 1) /\ f[m] \in S
    BY <1>1 DEF Given, EachOnce
  <1>4. Given(f, 0) = {}
    BY DEF Given
  <1> QED BY <1>2, <1>3, <1>4

(* What is still to be given, and weighs what. *)
LEMMA RestShrinks ==
  ASSUME NEW M \in Nat, NEW S, IsFiniteSet(S), NEW f, EachOnce(f, M, S),
         NEW q \in [S -> Nat], NEW m \in 1 .. M
  PROVE  /\ Sum(RestOf(S, f, q, m)) \in Nat
         /\ Sum(RestOf(S, f, q, m - 1)) = Sum(RestOf(S, f, q, m)) + q[f[m]]
  <1> DEFINE a == RestOf(S, f, q, m - 1)
             b == RestOf(S, f, q, m)
  <1>1. Given(f, m) = Given(f, m - 1) \cup {f[m]} /\ f[m] \notin Given(f, m - 1) /\ f[m] \in S
    BY GivenGrows
  <1>2. \A l : RestOf(S, f, q, l) \in [S -> Nat]
    BY DEF RestOf
  <1>3. a \in [S -> Int] /\ b \in [S -> Int] /\ b \in [S -> Nat]
    <2>1. a \in [S -> Nat] /\ b \in [S -> Nat]
      BY <1>2
    <2>2. \A n \in Nat : n \in Int
      OBVIOUS
    <2> HIDE DEF a, b
    <2> QED BY <2>1, <2>2
  <1>4. \A x \in S \ {f[m]} : b[x] = a[x]
    BY <1>1 DEF RestOf
  <1>5. a[f[m]] = q[f[m]] /\ b[f[m]] = 0
    BY <1>1 DEF RestOf
  <1> HIDE DEF a, b
  <1>6. PICK x \in S : x = f[m]
    BY <1>1
  <1>7. Sum(a) \in Int /\ Sum(b) = Sum(a) + (b[x] - a[x])
    <2>1. \A y \in S \ {x} : b[y] = a[y]
      BY <1>4, <1>6
    <2> QED BY <1>3, <2>1, SumChanges
  <1>8. Sum(b) \in Nat
    BY <1>3, SumType
  <1>9. q[f[m]] \in Nat
    BY <1>1
  <1>10. Sum(a) = Sum(b) + q[f[m]]
    BY <1>5, <1>6, <1>7, <1>8, <1>9
  <1> QED BY <1>8, <1>10 DEF a, b

(* A line arrives as a whole, and the rest still fits. *)
LEMMA LineArrives ==
  ASSUME ShopConstantsOK, NEW p, NEW inv \in Bags(Slots), NEW M \in Nat, NEW order \in Orders(M),
         NEW S, NEW f, NEW q, NEW fresh, FitsIn(p, inv, M, order, S, f, q, fresh),
         NEW m \in 1 .. M, NEW now, Underway(inv, M, order, S, f, q, fresh, now, m - 1)
  PROVE  /\ Underway(inv, M, order, S, f, q, fresh, AddOne(p, now, order[m]), m)
         /\ \E j \in 1 .. Slots : Into(Slots, now, order[m].kind, order[m].amount, AddOne(p, now, order[m]), j)
  <1> DEFINE k == order[m].kind
             n == order[m].amount
             new == AddOne(p, now, order[m])
             w == Weight[k] * n
  <1>1. /\ IsFiniteSet(S) /\ EachOnce(f, M, S)
        /\ q \in [S -> Nat] /\ q[f[m]] = w
        /\ max_weight[p] \in Nat /\ WeightIn(inv) + Sum(q) <= max_weight[p]
        /\ fresh \in SUBSET S
        /\ f[m] \notin fresh => StackOf(inv, k) # {}
        /\ \A t \in StackOf(inv, k) : n <= MaxAmount - inv[t].amount
        /\ \A l \in 1 .. M : l # m /\ order[l].kind \in Stackable => order[l].kind # k
    BY DEF FitsIn
  <1>2. /\ now \in Bags(Slots)
        /\ WeightIn(now) + Sum(RestOf(S, f, q, m - 1)) = WeightIn(inv) + Sum(q)
        /\ Cardinality(fresh \ Given(f, m - 1)) <= Cardinality(FreeSlots(now))
        /\ \A l \in 1 .. M : l > m - 1 => /\ StackOf(now, order[l].kind) = StackOf(inv, order[l].kind)
                                          /\ \A t \in StackOf(inv, order[l].kind) : now[t] = inv[t]
    BY DEF Underway
  <1>3. k \in Kinds /\ n \in 1 .. MaxAmount /\ n \in Nat /\ MaxAmount \in Nat /\ Slots \in Nat
        /\ w \in Nat
    <2>1. k \in Kinds /\ n \in 1 .. MaxAmount /\ MaxAmount \in Nat /\ Slots \in Nat
      BY DEF Orders, ShopConstantsOK
    <2>2. q[f[m]] \in Nat
      <3>1. f[m] \in S
        BY <1>1 DEF EachOnce
      <3> QED BY <1>1, <3>1
    <2>3. q[f[m]] = w
      BY <1>1
    <2> HIDE DEF k, n, w
    <2>4. n \in Nat
      BY <2>1
    <2> QED BY <2>1, <2>2, <2>3, <2>4
  <1>4. Given(f, m) = Given(f, m - 1) \cup {f[m]} /\ f[m] \notin Given(f, m - 1) /\ f[m] \in S
    BY <1>1, GivenGrows
  <1>5. Sum(RestOf(S, f, q, m)) \in Nat /\ Sum(RestOf(S, f, q, m - 1)) = Sum(RestOf(S, f, q, m)) + w
    <2>1. /\ Sum(RestOf(S, f, q, m)) \in Nat
          /\ Sum(RestOf(S, f, q, m - 1)) = Sum(RestOf(S, f, q, m)) + q[f[m]]
      <3>1. IsFiniteSet(S) /\ EachOnce(f, M, S) /\ q \in [S -> Nat]
        BY <1>1
      <3> QED BY <3>1, RestShrinks
    <2>2. q[f[m]] = w
      BY <1>1
    <2> HIDE DEF w
    <2> QED BY <2>1, <2>2
  <1>6. WeightIn(now) \in Nat /\ WeightIn(inv) \in Nat /\ Sum(q) \in Nat
    <2>1. WeightIn(now) \in Nat
      BY <1>2, WeightIs
    <2>2. WeightIn(inv) \in Nat
      BY WeightIs
    <2>3. Sum(q) \in Nat
      BY <1>1, SumType
    <2> QED BY <2>1, <2>2, <2>3
  <1>7. new = Put(now, k, n)
    <2>1. ~(WeightIn(now) + w > max_weight[p])
      <3>1. PICK a, b, c, d, e : /\ a = WeightIn(now) /\ b = Sum(RestOf(S, f, q, m)) /\ c = max_weight[p]
                                 /\ d = w /\ e = WeightIn(inv) + Sum(q)
        OBVIOUS
      <3> HIDE DEF w
      <3>2. a \in Nat /\ b \in Nat /\ c \in Nat /\ d \in Nat /\ e \in Nat
        BY <1>1, <1>3, <1>5, <1>6, <3>1
      <3>3. a + (b + d) = e /\ e <= c
        BY <1>1, <1>2, <1>5, <3>1
      <3>4. ~(a + d > c)
        BY <3>2, <3>3
      <3> QED BY <3>1, <3>4
    <2> QED BY <2>1 DEF AddOne, additem, Put
  <1>8. StackOf(now, k) = StackOf(inv, k) /\ \A t \in StackOf(now, k) : n <= MaxAmount - now[t].amount
    <2>1. m > m - 1
      OBVIOUS
    <2>2. StackOf(now, k) = StackOf(inv, k) /\ \A t \in StackOf(inv, k) : now[t] = inv[t]
      BY <1>2, <2>1
    <2> HIDE DEF k, n
    <2> QED BY <1>1, <2>2
  <1>9. /\ IsFiniteSet(fresh) /\ IsFiniteSet(fresh \ Given(f, m - 1)) /\ IsFiniteSet(fresh \ Given(f, m))
        /\ Cardinality(fresh \ Given(f, m - 1)) \in Nat /\ Cardinality(fresh \ Given(f, m)) \in Nat
        /\ Cardinality(fresh \ Given(f, m)) <= Cardinality(fresh \ Given(f, m - 1))
        /\ f[m] \in fresh => Cardinality(fresh \ Given(f, m)) = Cardinality(fresh \ Given(f, m - 1)) - 1
    <2> DEFINE a == fresh \ Given(f, m - 1)
    <2>1. IsFiniteSet(fresh)
      BY <1>1, FS_Subset
    <2>2. a \in SUBSET fresh
      OBVIOUS
    <2>3. fresh \ Given(f, m) = a \ {f[m]} /\ (f[m] \in fresh => f[m] \in a)
      BY <1>4
    <2> HIDE DEF a
    <2>4. IsFiniteSet(a)
      BY <2>1, <2>2, FS_Subset
    <2>5. /\ IsFiniteSet(a \ {f[m]})
          /\ Cardinality(a \ {f[m]}) = IF f[m] \in a THEN Cardinality(a) - 1 ELSE Cardinality(a)
      BY <2>4, FS_RemoveElement
    <2>6. Cardinality(a) \in Nat /\ Cardinality(a \ {f[m]}) \in Nat
      BY <2>4, <2>5, FS_CardinalityType
    <2>7. /\ Cardinality(a \ {f[m]}) <= Cardinality(a)
          /\ f[m] \in fresh => Cardinality(a \ {f[m]}) = Cardinality(a) - 1
      BY <2>3, <2>5, <2>6
    <2> QED BY <2>1, <2>3, <2>4, <2>5, <2>6, <2>7 DEF a
  <1>10. Cardinality(FreeSlots(now)) \in Nat /\ (StackOf(now, k) = {} => FreeSlots(now) # {})
    <2>1. FreeSlots(now) \in SUBSET (1 .. Slots)
      BY <1>2 DEF FreeSlots, Bags
    <2>2. Cardinality(FreeSlots(now)) \in Nat
      BY <1>3, <2>1, PartFinite
    <2>3. ASSUME StackOf(now, k) = {}, FreeSlots(now) = {} PROVE FALSE
      <3>1. f[m] \in fresh
        BY <1>1, <1>8, <2>3
      <3>2. Cardinality(FreeSlots(now)) = 0
        BY <2>3, FS_EmptySet
      <3> QED BY <1>2, <1>9, <3>1, <3>2
    <2> QED BY <2>2, <2>3
  <1> HIDE DEF k, n, new, w
  <1>11. PICK j \in 1 .. Slots : Into(Slots, now, k, n, new, j) /\ (StackOf(now, k) # {} => now[j].kind = k)
    <2>1. StackOf(now, k) # {} \/ FreeSlots(now) # {}
      BY <1>10
    <2>2. \E j \in 1 .. Slots : /\ Into(Slots, now, k, n, Put(now, k, n), j)
                                /\ StackOf(now, k) # {} => now[j].kind = k
      BY <1>2, <1>3, <1>8, <2>1, PutFits
    <2> QED BY <1>7, <2>2
  <1>12. new \in Bags(Slots)
    <2>1. Grown(Slots, now, k, n, new)
      BY <1>11 DEF Grown
    <2> QED BY <1>2, <1>3, <2>1, GrownType
  <1>13. WeightIn(new) + Sum(RestOf(S, f, q, m)) = WeightIn(inv) + Sum(q)
    <2>1. WeightIn(new) = WeightIn(now) + Weight[k] * n
      BY <1>2, <1>3, <1>11, <1>12, WeightInto
    <2>2. WeightIn(new) = WeightIn(now) + w
      BY <2>1 DEF w
    <2> QED BY <1>2, <1>3, <1>5, <1>6, <2>2
  <1>14. Cardinality(fresh \ Given(f, m)) <= Cardinality(FreeSlots(new))
    <2>1. /\ Cardinality(FreeSlots(new)) \in Nat
          /\ Cardinality(FreeSlots(new)) >= Cardinality(FreeSlots(now)) - 1
          /\ now[j].kind = k => FreeSlots(new) = FreeSlots(now)
      BY <1>2, <1>3, <1>11, <1>12, FreeInto
    <2>2. CASE StackOf(now, k) # {}
      BY <1>2, <1>9, <1>10, <1>11, <2>1, <2>2
    <2>3. CASE StackOf(now, k) = {}
      <3>1. f[m] \in fresh
        BY <1>1, <1>8, <2>3
      <3> QED BY <1>2, <1>9, <1>10, <2>1, <3>1
    <2> QED BY <2>2, <2>3
  <1>15. ASSUME NEW l \in 1 .. M, l > m
         PROVE  /\ StackOf(new, order[l].kind) = StackOf(inv, order[l].kind)
                /\ \A t \in StackOf(inv, order[l].kind) : new[t] = inv[t]
    <2> DEFINE x == order[l].kind
    <2>1. /\ StackOf(now, x) = StackOf(inv, x) /\ \A t \in StackOf(inv, x) : now[t] = inv[t]
      <3>1. l > m - 1
        BY <1>15
      <3> QED BY <1>2, <3>1
    <2>2. l # m
      BY <1>15
    <2>3. x \in Stackable => x # k /\ x # Void
      <3>1. x \in Stackable => x # k
        BY <1>1, <2>2
      <3> QED BY <3>1 DEF ShopConstantsOK
    <2> HIDE DEF x
    <2>4. ASSUME x \notin Stackable PROVE StackOf(new, x) = StackOf(inv, x) /\ \A t \in StackOf(inv, x) : new[t] = inv[t]
      BY <2>4 DEF StackOf
    <2>5. ASSUME x \in Stackable PROVE StackOf(new, x) = StackOf(inv, x) /\ \A t \in StackOf(inv, x) : new[t] = inv[t]
      <3>1. DOMAIN now = 1 .. Slots /\ DOMAIN new = 1 .. Slots /\ DOMAIN inv = 1 .. Slots
        BY <1>2, <1>12 DEF Bags
      <3>2. /\ now[j] = Nothing \/ now[j].kind = k
            /\ new = [now EXCEPT ![j] = [kind |-> k, amount |-> now[j].amount + n]]
        BY <1>11 DEF Into
      <3>3. now[j].kind # x /\ new[j].kind # x /\ \A i \in (1 .. Slots) \ {j} : new[i] = now[i]
        BY <2>3, <2>5, <3>1, <3>2 DEF Nothing
      <3>4. StackOf(new, x) = StackOf(now, x) /\ j \notin StackOf(now, x) /\ StackOf(now, x) \in SUBSET (1 .. Slots)
        BY <3>1, <3>3 DEF StackOf
      <3> QED BY <2>1, <3>3, <3>4
    <2> QED BY <2>1, <2>4, <2>5 DEF x
  <1>16. Underway(inv, M, order, S, f, q, fresh, new, m)
    BY <1>12, <1>13, <1>14, <1>15 DEF Underway
  <1> QED BY <1>11, <1>16 DEF k, n, new

(* The source changes by one line at a time, from what it was to what is   *)
(* left.                                                                   *)
LEMMA SourceSteps ==
  ASSUME ShopConstantsOK, NEW N \in Nat, NEW src \in Bags(N), NEW dst \in Bags(N), NEW M \in Nat, NEW order \in Orders(M),
         NEW pos, Gives(N, src, dst, M, order, pos), NEW k \in Kinds, NEW m \in 1 .. M
  PROVE  Count(After(N, src, dst, pos, m), k) + Among(order[m].kind, k, order[m].amount)
           = Count(After(N, src, dst, pos, m - 1), k)
  <1> DEFINE a == After(N, src, dst, pos, m - 1)
             b == After(N, src, dst, pos, m)
             j == pos[m]
             o == order[m]
  <1>1. /\ j \in 1 .. N /\ o.kind = src[j].kind /\ Taken(src, dst, j, o.amount)
        /\ \A l \in 1 .. M : l # m => pos[l] # j
    BY DEF Gives
  <1>2. o.kind \in Kinds /\ o.amount \in 1 .. MaxAmount /\ o.amount \in Nat
    BY DEF Orders, ShopConstantsOK
  <1>3. /\ \A x \in 1 .. N : a[x] = (IF \E l \in 1 .. (m - 1) : pos[l] = x THEN dst[x] ELSE src[x])
        /\ \A x \in 1 .. N : b[x] = (IF \E l \in 1 .. m : pos[l] = x THEN dst[x] ELSE src[x])
    BY DEF After
  <1>4. a \in Bags(N) /\ b \in Bags(N)
    BY DEF After, Bags
  <1> HIDE DEF a, b
  <1>5. \A l : l \in 1 .. m <=> l \in 1 .. (m - 1) \/ l = m
    OBVIOUS
  <1>6. \A x \in (1 .. N) \ {j} : (\E l \in 1 .. m : pos[l] = x) <=> (\E l \in 1 .. (m - 1) : pos[l] = x)
    BY <1>5
  <1>7. ~ \E l \in 1 .. (m - 1) : pos[l] = j
    <2>1. \A l \in 1 .. (m - 1) : l \in 1 .. M /\ l # m
      OBVIOUS
    <2> QED BY <1>1, <2>1
  <1>8. \E l \in 1 .. m : pos[l] = j
    OBVIOUS
  <1> HIDE DEF j, o
  <1>9. (\A x \in (1 .. N) \ {j} : b[x] = a[x]) /\ a[j] = src[j] /\ b[j] = dst[j]
    BY <1>1, <1>3, <1>6, <1>7, <1>8
  <1>10. Taken(a, b, j, o.amount) /\ o.kind = a[j].kind
    BY <1>1, <1>9 DEF Taken
  <1>11. Count(b, k) + Among(a[j].kind, k, o.amount) = Count(a, k)
    BY <1>1, <1>2, <1>4, <1>9, <1>10, CountTaken
  <1> QED BY <1>10, <1>11 DEF a, b, o

LEMMA SourceEnds ==
  ASSUME NEW N \in Nat, NEW src \in Bags(N), NEW dst \in Bags(N), NEW M \in Nat, NEW pos \in [1 .. M -> 1 .. N],
         \A i \in 1 .. N : dst[i] # src[i] => \E m \in 1 .. M : pos[m] = i
  PROVE  /\ After(N, src, dst, pos, 0) = src /\ After(N, src, dst, pos, M) = dst
         /\ \A m : After(N, src, dst, pos, m) \in Bags(N)
  <1>1. \A i \in 1 .. N : ~ \E l \in 1 .. 0 : pos[l] = i
    OBVIOUS
  <1>2. After(N, src, dst, pos, 0) = src
    BY <1>1 DEF After, Bags
  <1>3. \A i \in 1 .. N : (IF \E l \in 1 .. M : pos[l] = i THEN dst[i] ELSE src[i]) = dst[i]
    OBVIOUS
  <1>4. After(N, src, dst, pos, M) = dst
    BY <1>3 DEF After, Bags
  <1>5. \A m : After(N, src, dst, pos, m) \in Bags(N)
    BY DEF After, Bags
  <1> QED BY <1>2, <1>4, <1>5

(* An order that fits arrives as it leaves. *)
LEMMA AllHandedOver ==
  ASSUME ShopConstantsOK, NEW p, NEW inv \in Bags(Slots), NEW M \in Nat, NEW order \in Orders(M),
         NEW S, NEW f, NEW q, NEW fresh, FitsIn(p, inv, M, order, S, f, q, fresh),
         NEW N \in Nat, NEW src \in Bags(N), NEW dst \in Bags(N), NEW pos, Gives(N, src, dst, M, order, pos),
         NEW k \in Kinds
  PROVE  Count(Received(p, inv, order), k) + Count(dst, k) = Count(inv, k) + Count(src, k)
  <1>0. PICK F : Fills(p, inv, order, M, F)
    <2>1. DOMAIN order = 1 .. M
      BY DEF Orders
    <2> QED BY <2>1, ReceivedSteps
  <1>1. /\ F[0] = inv /\ F[M] = Received(p, inv, order)
        /\ \A m \in 1 .. M : F[m] = AddOne(p, F[m - 1], order[m])
    BY <1>0 DEF Fills
  <1> DEFINE H(m) == After(N, src, dst, pos, m)
  <1>2. H(0) = src /\ H(M) = dst /\ \A m : H(m) \in Bags(N)
    <2>1. /\ pos \in [1 .. M -> 1 .. N]
          /\ \A i \in 1 .. N : dst[i] # src[i] => \E m \in 1 .. M : pos[m] = i
      BY DEF Gives
    <2> QED BY <2>1, SourceEnds
  <1>3. \A m \in 1 .. M : Count(H(m), k) + Among(order[m].kind, k, order[m].amount) = Count(H(m - 1), k)
    BY SourceSteps
  <1> HIDE DEF H
  <1> DEFINE all == Count(inv, k) + Count(src, k)
             Good(m) == /\ Underway(inv, M, order, S, f, q, fresh, F[m], m)
                        /\ Count(F[m], k) + Count(H(m), k) = all
             Bad == {m \in 0 .. M : ~Good(m)}
  <1>4. Good(0)
    <2>1. IsFiniteSet(S) /\ q \in [S -> Nat] /\ fresh \in SUBSET S /\ Cardinality(fresh) <= Cardinality(FreeSlots(inv))
      BY DEF FitsIn
    <2>2. Given(f, 0) = {}
      BY DEF Given
    <2>3. RestOf(S, f, q, 0) = q
      BY <2>1, <2>2 DEF RestOf
    <2>4. fresh \ Given(f, 0) = fresh
      BY <2>2
    <2>5. Underway(inv, M, order, S, f, q, fresh, inv, 0)
      BY <2>1, <2>3, <2>4 DEF Underway
    <2> QED BY <1>1, <1>2, <2>5
  <1>5. Bad = {}
    <2> SUFFICES ASSUME Bad # {} PROVE FALSE
      OBVIOUS
    <2>1. PICK m \in Bad : \A j \in Bad : m <= j
      <3>1. Bad \in SUBSET Nat
        OBVIOUS
      <3> HIDE DEF Bad
      <3> QED BY <3>1, Additive!LeastElement
    <2> HIDE DEF Good
    <2>2. m \in 1 .. M
      <3>1. m \in 0 .. M /\ m # 0
        BY <1>4, <2>1
      <3> QED BY <3>1
    <2>3. Good(m - 1)
      <3>1. m - 1 \in 0 .. M /\ ~(m <= m - 1)
        BY <2>2
      <3> QED BY <2>1, <3>1
    <2> DEFINE i == F[m - 1]
               o == order[m]
               new == AddOne(p, i, o)
    <2>4. F[m] = new /\ o.kind \in Kinds /\ o.amount \in 1 .. MaxAmount /\ o.amount \in Nat /\ Slots \in Nat
      <3>1. F[m] = new
        BY <1>1, <2>2
      <3>2. o \in [kind : Kinds, amount : 1 .. MaxAmount]
        BY <2>2 DEF Orders
      <3>3. MaxAmount \in Nat /\ Slots \in Nat
        BY DEF ShopConstantsOK
      <3> HIDE DEF o, new
      <3> QED BY <3>1, <3>2, <3>3
    <2>5. Underway(inv, M, order, S, f, q, fresh, i, m - 1) /\ Count(i, k) + Count(H(m - 1), k) = all
      BY <2>3 DEF Good
    <2>6. /\ Underway(inv, M, order, S, f, q, fresh, new, m)
          /\ \E j \in 1 .. Slots : Into(Slots, i, o.kind, o.amount, new, j)
      BY <2>2, <2>5, LineArrives
    <2> HIDE DEF new
    <2>7. i \in Bags(Slots) /\ new \in Bags(Slots)
      BY <2>5, <2>6 DEF Underway
    <2> HIDE DEF i, o
    <2>8. PICK j \in 1 .. Slots : Into(Slots, i, o.kind, o.amount, new, j)
      BY <2>6
    <2>9. Count(new, k) = Count(i, k) + Among(o.kind, k, o.amount)
      BY <2>4, <2>7, <2>8, CountInto
    <2>10. Count(H(m), k) + Among(o.kind, k, o.amount) = Count(H(m - 1), k)
      BY <1>3, <2>2 DEF o
    <2>11. Count(i, k) \in Nat /\ Count(H(m), k) \in Nat /\ Among(o.kind, k, o.amount) \in Nat
      <3>1. Count(i, k) \in Nat
        BY <2>4, <2>7, CountIs
      <3>2. Count(H(m), k) \in Nat
        BY <1>2, CountIs
      <3>3. Among(o.kind, k, o.amount) \in Nat
        BY <2>4 DEF Among
      <3> QED BY <3>1, <3>2, <3>3
    <2>12. Count(new, k) + Count(H(m), k) = all
      <3> HIDE DEF all
      <3>1. PICK a, b, c, d, e : /\ a = Count(i, k) /\ b = Count(H(m), k) /\ c = Among(o.kind, k, o.amount)
                                 /\ d = Count(new, k) /\ e = Count(H(m - 1), k)
        OBVIOUS
      <3>2. a \in Nat /\ b \in Nat /\ c \in Nat
        BY <2>11, <3>1
      <3>3. a + e = all /\ d = a + c /\ b + c = e
        BY <2>5, <2>9, <2>10, <3>1
      <3>4. d + b = all
        BY <3>2, <3>3
      <3> QED BY <3>1, <3>4
    <2>13. Good(m)
      BY <2>4, <2>6, <2>12 DEF Good
    <2> QED BY <2>1, <2>13
  <1>6. Good(M)
    <2>1. M \in 0 .. M
      OBVIOUS
    <2> HIDE DEF Good
    <2> QED BY <1>5, <2>1
  <1>7. Count(F[M], k) + Count(H(M), k) = all
    BY <1>6
  <1> QED BY <1>1, <1>2, <1>7

(* Each kind of an order becomes less where it comes from. *)
LEMMA GivesLess ==
  ASSUME ShopConstantsOK, NEW N \in Nat, NEW src \in Bags(N), NEW dst \in Bags(N), NEW M \in Nat, NEW order \in Orders(M),
         NEW pos, Gives(N, src, dst, M, order, pos), NEW m \in 1 .. M, NEW k, k = order[m].kind
  PROVE  Count(dst, k) < Count(src, k)
  <1> DEFINE j == pos[m]
             n == order[m].amount
             mid == [src EXCEPT ![j] = dst[j]]
  <1>1. /\ j \in 1 .. N /\ k = src[j].kind /\ Taken(src, dst, j, n)
        /\ \A i \in 1 .. N : dst[i].kind \in {Void, src[i].kind} /\ dst[i].amount <= src[i].amount
    BY DEF Gives
  <1>2. k \in Kinds /\ n \in 1 .. MaxAmount /\ n \in Nat
    <2>1. order[m] \in [kind : Kinds, amount : 1 .. MaxAmount] /\ MaxAmount \in Nat
      BY DEF Orders, ShopConstantsOK
    <2> QED BY <2>1
  <1>3. /\ mid \in Bags(N) /\ mid[j] = dst[j] /\ \A i \in (1 .. N) \ {j} : mid[i] = src[i]
    BY <1>1 DEF Bags
  <1> HIDE DEF j, n, mid
  <1>4. Count(mid, k) + n = Count(src, k)
    <2>1. Taken(src, mid, j, n)
      BY <1>1, <1>3 DEF Taken
    <2>2. Count(mid, k) + Among(src[j].kind, k, n) = Count(src, k)
      BY <1>1, <1>2, <1>3, <2>1, CountTaken
    <2> QED BY <1>1, <2>2 DEF Among
  <1>5. Count(dst, k) <= Count(mid, k)
    <2>1. ASSUME NEW i \in 1 .. N PROVE PiecesAs(dst[i], k) <= PiecesAs(mid[i], k)
      <3>1. dst[i].amount \in Nat /\ src[i].amount \in Nat /\ k # Void
        <4>1. dst[i] \in ItemIn(Kinds) /\ src[i] \in ItemIn(Kinds) /\ k # Void
          BY <1>2 DEF Bags, ShopConstantsOK
        <4> QED BY <4>1, ItemFacts
      <3>2. mid[i] = dst[i] \/ mid[i] = src[i]
        BY <1>3
      <3>3. dst[i].kind \in {Void, src[i].kind} /\ dst[i].amount <= src[i].amount
        BY <1>1
      <3> QED BY <3>1, <3>2, <3>3 DEF PiecesAs
    <2> QED BY <1>3, <2>1, CountAtMost
  <1>6. Count(dst, k) \in Nat /\ Count(mid, k) \in Nat
    <2>1. Count(dst, k) \in Nat
      BY CountIs
    <2>2. Count(mid, k) \in Nat
      BY <1>3, CountIs
    <2> QED BY <2>1, <2>2
  <1> QED BY <1>2, <1>4, <1>5, <1>6

(* What pc_checkadditem finds, when only one kind has this nameid there. *)
LEMMA CheckFits ==
  ASSUME ShopConstantsOK, NEW inv \in Bags(Slots), Stacked(inv), NEW k \in Kinds, NEW n \in 1 .. MaxAmount,
         pc_checkadditem(inv, k, n) # "overamount", \A i \in Alike(inv, k) : inv[i].kind = k
  PROVE  /\ pc_checkadditem(inv, k, n) # "new" => StackOf(inv, k) # {}
         /\ \A t \in StackOf(inv, k) : n <= MaxAmount - inv[t].amount
  <1>1. DOMAIN inv = 1 .. Slots /\ Slots \in Nat /\ MaxAmount \in Nat /\ k # Void
    BY DEF Bags, ShopConstantsOK
  <1>2. Alike(inv, k) \in SUBSET (1 .. Slots)
    BY <1>1 DEF Alike
  <1>3. ~(n > MaxAmount)
    BY <1>1
  <1>4. ASSUME pc_checkadditem(inv, k, n) # "new" PROVE StackOf(inv, k) # {}
    <2>1. k \in Stackable /\ Alike(inv, k) # {}
      BY <1>3, <1>4 DEF pc_checkadditem
    <2> QED BY <1>1, <1>2, <2>1 DEF StackOf
  <1>5. ASSUME NEW t \in StackOf(inv, k) PROVE n <= MaxAmount - inv[t].amount
    <2>1. t \in 1 .. Slots /\ k \in Stackable /\ inv[t].kind = k
      BY <1>1, <1>5 DEF StackOf
    <2>2. t \in Alike(inv, k)
      BY <1>1, <2>1 DEF Alike, Nothing
    <2>3. \A i \in Alike(inv, k) : i = t
      BY <1>1, <1>2, <2>1 DEF Stacked
    <2>4. First(Alike(inv, k)) = t
      <3>1. Alike(inv, k) \in SUBSET Nat
        BY <1>1, <1>2
      <3> QED BY <2>2, <2>3, <3>1, FirstOfOne
    <2>5. ~(n > MaxAmount - inv[First(Alike(inv, k))].amount)
      BY <1>3, <2>1, <2>2 DEF pc_checkadditem
    <2>6. inv[t].amount \in Nat
      <3>1. inv[t] \in ItemIn(Kinds)
        BY <2>1 DEF Bags
      <3> QED BY <3>1, ItemFacts
    <2> QED BY <1>1, <2>4, <2>5, <2>6
  <1> QED BY <1>4, <1>5

(* Only x and y have other things than before, together as many, and so    *)
(* have all.                                                               *)
HaveSame(invs, carts, invs2, carts2, k, x, y) ==
  /\ \A z \in Players \ {x, y} : invs2[z] = invs[z] /\ carts2[z] = carts[z]
  /\ Has(invs2[x], carts2[x], k) + Has(invs2[y], carts2[y], k)
       = Has(invs[x], carts[x], k) + Has(invs[y], carts[y], k)

LEMMA TotalSame ==
  ASSUME ShopConstantsOK, NEW invs \in [Players -> Bags(Slots)], NEW carts \in [Players -> Bags(CartSlots)],
         NEW invs2 \in [Players -> Bags(Slots)], NEW carts2 \in [Players -> Bags(CartSlots)],
         NEW k, NEW x \in Players, NEW y \in Players \ {x},
         HaveSame(invs, carts, invs2, carts2, k, x, y)
  PROVE  Total(invs2, carts2, k) = Total(invs, carts, k)
  <1> DEFINE T1 == Total(invs, carts, k)
             T2 == Total(invs2, carts2, k)
  <1>1. /\ HasOf(invs, carts, k) \in [Players -> Int] /\ HasOf(invs2, carts2, k) \in [Players -> Int]
        /\ T1 = Sum(HasOf(invs, carts, k)) /\ T2 = Sum(HasOf(invs2, carts2, k)) /\ IsFiniteSet(Players)
    <2>1. /\ IsFiniteSet(Players) /\ HasOf(invs, carts, k) \in [Players -> Int] /\ T1 = Sum(HasOf(invs, carts, k))
      BY TotalIs
    <2>2. HasOf(invs2, carts2, k) \in [Players -> Int] /\ T2 = Sum(HasOf(invs2, carts2, k))
      BY TotalIs
    <2> QED BY <2>1, <2>2
  <1>2. T1 \in Int /\ T2 \in Int
    <2>1. \A f \in [Players -> Int] : Sum(f) \in Int
      <3> SUFFICES ASSUME NEW f \in [Players -> Int] PROVE Sum(f) \in Int
        OBVIOUS
      <3>1. \A z \in Players : f[z] <= f[z]
        <4>1. \A i \in Int : i <= i
          OBVIOUS
        <4> QED BY <4>1
      <3> QED BY <1>1, <3>1, SumAtMost
    <2> QED BY <1>1, <2>1
  <1>3. /\ \A z \in Players : Has(invs[z], carts[z], k) \in Int
        /\ \A z \in Players : Has(invs2[z], carts2[z], k) \in Int
    <2>1. Slots \in Nat /\ CartSlots \in Nat
      BY DEF ShopConstantsOK
    <2>2. \A c \in Bags(Slots) : Count(c, k) \in Nat
      BY <2>1, CountIs
    <2>3. \A c \in Bags(CartSlots) : Count(c, k) \in Nat
      BY <2>1, CountIs
    <2>4. \A c \in Bags(Slots), d \in Bags(CartSlots) : Has(c, d, k) \in Int
      BY <2>2, <2>3 DEF Has
    <2> QED BY <2>4
  <1>4. /\ Has(invs2[x], carts2[x], k) + Has(invs2[y], carts2[y], k)
             <= Has(invs[x], carts[x], k) + Has(invs[y], carts[y], k)
        /\ Has(invs[x], carts[x], k) + Has(invs[y], carts[y], k)
             <= Has(invs2[x], carts2[x], k) + Has(invs2[y], carts2[y], k)
    BY <1>3 DEF HaveSame
  <1>5. T2 <= T1
    <2>1. \A z \in Players \ {x, y} : invs2[z] = invs[z] /\ carts2[z] = carts[z]
      BY DEF HaveSame
    <2> QED BY <1>4, <2>1, TotalOfTwo
  <1>6. T1 <= T2
    <2>1. \A z \in Players \ {x, y} : invs[z] = invs2[z] /\ carts[z] = carts2[z]
      BY DEF HaveSame
    <2> QED BY <1>4, <2>1, TotalOfTwo
  <1> HIDE DEF T1, T2
  <1>7. T2 = T1
    BY <1>2, <1>5, <1>6
  <1> QED BY <1>7 DEF T1, T2

-----------------------------------------------------------------------------
(* A purchase arrives.                                                     *)

LEMMA NothingElse ==
  ASSUME NEW p, ~MayMiss(p), NEW x \in Players \ {p}, NEW k \in Gone(x)
  PROVE  \A i \in Alike(inventory[p], k) : inventory[p][i].kind = k
  BY DEF MayMiss

LEMMA BoughtGone ==
  ASSUME ShopConstantsOK, ShopInv, NEW q \in Players, NEW S \in SUBSET DOMAIN seen[q].list,
         NEW n \in [S -> 1 .. MaxAmount], Bought(q, S, n), NEW m \in 1 .. Cardinality(S)
  PROVE  PurchaseOrder(q, S, n)[m].kind \in Gone(Owner(q))
  <1> DEFINE s == Owner(q)
             order == PurchaseOrder(q, S, n)
             M == Cardinality(S)
             rest == CartLeft(q, S, n)
             pos == Positions(q, S)
             k == order[m].kind
  <1>1. s \in Players \ {q}
    BY PurchaseFacts DEF Bought
  <1>2. /\ inventory' = [inventory EXCEPT ![q] = Received(q, inventory[q], order)]
        /\ cart' = [cart EXCEPT ![s] = rest]
    BY BoughtPays
  <1>3. Gives(CartSlots, cart[s], rest, M, order, pos)
    BY PurchaseGives DEF Bought
  <1>4. M \in Nat /\ order \in Orders(M)
    BY PurchaseOrderType DEF Bought
  <1>5. rest \in Bags(CartSlots)
    BY CartLeftType DEF Bought
  <1> HIDE DEF s, order, M, rest, pos
  <1>6. /\ inventory \in [Players -> Bags(Slots)] /\ cart \in [Players -> Bags(CartSlots)]
        /\ Slots \in Nat /\ CartSlots \in Nat
    BY DEF ShopInv, Owned, ShopConstantsOK
  <1>7. m \in 1 .. M /\ cart[s] \in Bags(CartSlots) /\ inventory[s] \in Bags(Slots) /\ k \in Kinds
    <2>1. m \in 1 .. M
      BY DEF M
    <2>2. order[m] \in [kind : Kinds, amount : 1 .. MaxAmount]
      BY <1>4, <2>1 DEF Orders
    <2> QED BY <1>1, <1>6, <2>1, <2>2
  <1>8. Count(rest, k) < Count(cart[s], k)
    BY <1>3, <1>4, <1>5, <1>6, <1>7, GivesLess
  <1> HIDE DEF k
  <1>9. inventory'[s] = inventory[s] /\ cart'[s] = rest
    BY <1>1, <1>2, <1>6
  <1>10. Count(inventory[s], k) \in Nat /\ Count(rest, k) \in Nat /\ Count(cart[s], k) \in Nat
    <2>1. Count(inventory[s], k) \in Nat
      BY <1>6, <1>7, CountIs
    <2>2. Count(rest, k) \in Nat /\ Count(cart[s], k) \in Nat
      BY <1>5, <1>6, <1>7, CountIs
    <2> QED BY <2>1, <2>2
  <1>11. Count(inventory'[s], k) + Count(cart'[s], k) < Count(inventory[s], k) + Count(cart[s], k)
    BY <1>8, <1>9, <1>10
  <1> QED BY <1>7, <1>11 DEF Gone, k, order, s

(* What each line of a purchase weighs, and which need a free slot. *)
PurchaseWeights(b, S, n) == [j \in S |-> n[j] * Weight[cart[Owner(b)][At(b, j)].kind]]
PurchaseFresh(b, S, n) ==
  {j \in S : pc_checkadditem(inventory[b], cart[Owner(b)][At(b, j)].kind, n[j]) = "new"}

LEMMA PurchaseChecks ==
  ASSUME NEW b, NEW S, NEW n, PurchaseAccepted(b, S, n)
  PROVE  /\ WeightIn(inventory[b]) + Sum(PurchaseWeights(b, S, n)) <= max_weight[b]
         /\ \A j \in S : pc_checkadditem(inventory[b], cart[Owner(b)][At(b, j)].kind, n[j]) # "overamount"
         /\ Cardinality(PurchaseFresh(b, S, n)) <= Cardinality(FreeSlots(inventory[b]))
  BY Zenon DEF PurchaseAccepted, PurchaseWeights, PurchaseFresh, WeightOf, Owner, At

LEMMA PurchaseFits ==
  ASSUME ShopConstantsOK, ShopInv, CartsStacked, NEW q \in Players, NEW S \in SUBSET DOMAIN seen[q].list,
         NEW n \in [S -> 1 .. MaxAmount], Bought(q, S, n), ~MayMiss(q)
  PROVE  FitsIn(q, inventory[q], Cardinality(S), PurchaseOrder(q, S, n), S, InOrder(S),
                PurchaseWeights(q, S, n), PurchaseFresh(q, S, n))
  <1> DEFINE s == Owner(q)
             c == cart[s]
             inv == inventory[q]
             M == Cardinality(S)
             f == InOrder(S)
             order == PurchaseOrder(q, S, n)
             w == PurchaseWeights(q, S, n)
             fresh == PurchaseFresh(q, S, n)
             K(j) == c[At(q, j)].kind
  <1>1. /\ s \in Players \ {q} /\ IsFiniteSet(S) /\ \A j \in S : AsSeen(q, n, j)
        /\ \A i, j \in S : At(q, i) = At(q, j) => i = j
        /\ \E N \in Nat : S \in SUBSET (1 .. N)
    BY PurchaseFacts DEF Bought
  <1>2. /\ M \in Nat /\ f \in [1 .. M -> S] /\ \A i, j \in 1 .. M : i # j => f[i] # f[j]
    BY <1>1, InOrderFacts
  <1>3. \A m \in 1 .. M : order[m].kind = K(f[m]) /\ order[m].amount = n[f[m]]
    BY DEF PurchaseOrder
  <1>4. order \in Orders(M)
    BY PurchaseOrderType DEF Bought
  <1>5. /\ WeightIn(inv) + Sum(w) <= max_weight[q]
        /\ \A j \in S : pc_checkadditem(inv, K(j), n[j]) # "overamount"
        /\ Cardinality(fresh) <= Cardinality(FreeSlots(inv))
    BY PurchaseChecks DEF Bought
  <1>6. w = [j \in S |-> n[j] * Weight[K(j)]] /\ fresh = {j \in S : pc_checkadditem(inv, K(j), n[j]) = "new"}
    BY DEF PurchaseWeights, PurchaseFresh
  <1>7. \A m \in 1 .. M : order[m].kind \in Gone(s)
    BY BoughtGone
  <1>8. /\ inv \in Bags(Slots) /\ Stacked(inv) /\ c \in Bags(CartSlots) /\ Stacked(c) /\ max_weight[q] \in Nat
        /\ Slots \in Nat /\ CartSlots \in Nat /\ MaxAmount \in Nat /\ Weight \in [Kinds -> Nat]
    BY <1>1 DEF ShopInv, Owned, Flags, ShopConstantsOK, CartsStacked
  <1>9. \A j \in S : At(q, j) \in 1 .. CartSlots
    BY <1>1 DEF AsSeen
  <1> HIDE DEF s, c, inv, M, f, order, w, fresh
  <1>10. \A j \in S : \E m \in 1 .. M : f[m] = j
    BY <1>1, InOrderOnto DEF M, f
  <1>11. ASSUME NEW j \in S PROVE K(j) \in Kinds /\ n[j] \in 1 .. MaxAmount /\ n[j] \in Nat /\ K(j) \in Gone(s)
    <2>1. PICK m \in 1 .. M : f[m] = j
      BY <1>10
    <2>2. order[m].kind = K(j) /\ order[m] \in [kind : Kinds, amount : 1 .. MaxAmount] /\ order[m].kind \in Gone(s)
      BY <1>3, <1>4, <1>7, <2>1 DEF Orders
    <2> HIDE DEF K
    <2>3. n[j] \in 1 .. MaxAmount
      OBVIOUS
    <2>4. n[j] \in Nat
      BY <1>8, <2>3
    <2> QED BY <2>2, <2>3, <2>4
  <1>12. ASSUME NEW j \in S
         PROVE  /\ j \notin fresh => StackOf(inv, K(j)) # {}
                /\ \A t \in StackOf(inv, K(j)) : n[j] <= MaxAmount - inv[t].amount
    <2>1. K(j) \in Kinds /\ n[j] \in 1 .. MaxAmount /\ K(j) \in Gone(s)
      BY <1>11
    <2>2. \A i \in Alike(inv, K(j)) : inv[i].kind = K(j)
      BY <1>1, <2>1, NothingElse DEF inv
    <2>3. pc_checkadditem(inv, K(j), n[j]) # "overamount"
      BY <1>5
    <2>4. j \notin fresh => pc_checkadditem(inv, K(j), n[j]) # "new"
      BY <1>6
    <2> HIDE DEF K
    <2> QED BY <1>8, <2>1, <2>2, <2>3, <2>4, CheckFits
  <1>13. w \in [S -> Nat]
    <2>1. \A a, b \in Nat : a * b \in Nat
      OBVIOUS
    <2>2. \A j \in S : n[j] \in Nat /\ Weight[K(j)] \in Nat
      BY <1>8, <1>11
    <2> HIDE DEF K
    <2>3. \A j \in S : n[j] * Weight[K(j)] \in Nat
      BY <2>1, <2>2
    <2> QED BY <1>6, <2>3
  <1>14. ASSUME NEW m \in 1 .. M PROVE w[f[m]] = Weight[order[m].kind] * order[m].amount
    <2>1. \A a, b \in Nat : a * b = b * a
      OBVIOUS
    <2>2. n[f[m]] \in Nat /\ Weight[K(f[m])] \in Nat /\ f[m] \in S
      BY <1>2, <1>8, <1>11
    <2> HIDE DEF K
    <2>3. w[f[m]] = n[f[m]] * Weight[K(f[m])]
      BY <1>6, <2>2
    <2> QED BY <1>3, <2>1, <2>2, <2>3
  <1>15. ASSUME NEW l \in 1 .. M, NEW m \in 1 .. M, l # m, order[l].kind \in Stackable
         PROVE  order[l].kind # order[m].kind
    <2>1. f[l] \in S /\ f[m] \in S /\ f[l] # f[m]
      BY <1>2, <1>15
    <2>2. At(q, f[l]) # At(q, f[m]) /\ At(q, f[l]) \in 1 .. CartSlots /\ At(q, f[m]) \in 1 .. CartSlots
      BY <1>1, <1>9, <2>1
    <2>3. DOMAIN c = 1 .. CartSlots
      BY <1>8 DEF Bags
    <2>4. order[l].kind = c[At(q, f[l])].kind /\ order[m].kind = c[At(q, f[m])].kind
      BY <1>3
    <2> QED BY <1>8, <1>15, <2>2, <2>3, <2>4 DEF Stacked
  <1>16. fresh \in SUBSET S
    BY <1>6
  <1>17. \A m \in 1 .. M : /\ f[m] \notin fresh => StackOf(inv, order[m].kind) # {}
                           /\ \A t \in StackOf(inv, order[m].kind) : order[m].amount <= MaxAmount - inv[t].amount
    <2> HIDE DEF K
    <2> QED BY <1>2, <1>3, <1>12
  <1>18. FitsIn(q, inv, M, order, S, f, w, fresh)
    BY <1>1, <1>2, <1>5, <1>8, <1>13, <1>14, <1>15, <1>16, <1>17 DEF FitsIn, EachOnce
  <1> QED BY <1>18 DEF inv, M, order, f, w, fresh

-----------------------------------------------------------------------------
(* A sale arrives.                                                         *)

LEMMA SoldGone ==
  ASSUME ShopConstantsOK, ShopInv, NEW b \in Players, NEW o, NEW S \in SUBSET (1 .. Slots),
         NEW n \in [S -> 1 .. MaxAmount], SoldTo(o, b, S, n), UNCHANGED cart
  PROVE  /\ \A m \in 1 .. Cardinality(S) : SaleOrder(b, S, n)[m].kind \in Gone(b)
         /\ \A x \in Players \ {o} : Gone(x) \subseteq Wanted
  <1> DEFINE order == SaleOrder(b, S, n)
             M == Cardinality(S)
             rest == BackpackLeft(b, S, n)
             pos == InOrder(S)
  <1>1. o \in Players \ {b} /\ HandsOver(o, b, S, n)
    BY SoldPays
  <1>2. inventory' = [inventory EXCEPT ![o] = Received(o, inventory[o], order), ![b] = rest]
    BY <1>1 DEF HandsOver
  <1>3. Gives(Slots, inventory[b], rest, M, order, pos)
    BY SaleGives
  <1>4. M \in Nat /\ order \in Orders(M)
    <2>1. \A i \in S : AsWanted(o, b, n, i)
      BY SaleFacts DEF SoldTo
    <2>2. \A i \in S : Kind(b, i) \in Wanted
      BY <2>1 DEF AsWanted
    <2> QED BY <2>2, SaleOrderType
  <1>5. rest \in Bags(Slots)
    BY BackpackLeftType
  <1>6. /\ inventory \in [Players -> Bags(Slots)] /\ cart \in [Players -> Bags(CartSlots)]
        /\ Slots \in Nat /\ CartSlots \in Nat
    BY DEF ShopInv, Owned, ShopConstantsOK
  <1>7. \A k \in Kinds : Count(inventory[b], k) - Count(rest, k) > 0 => WantedLine(o, k) # {}
    BY SoldAsWanted
  <1>8. IsStore(list[o])
    BY SaleFacts DEF SoldTo
  <1> HIDE DEF order, M, rest, pos
  <1>9. inventory'[b] = rest /\ \A x \in Players \ {o, b} : inventory'[x] = inventory[x]
    BY <1>1, <1>2, <1>6
  <1>10. \A k : \A x \in Players : Count(inventory[x], k) \in Nat /\ Count(cart[x], k) \in Nat /\ Count(rest, k) \in Nat
    <2> SUFFICES ASSUME NEW k, NEW x \in Players
                 PROVE  Count(inventory[x], k) \in Nat /\ Count(cart[x], k) \in Nat /\ Count(rest, k) \in Nat
      OBVIOUS
    <2>1. inventory[x] \in Bags(Slots) /\ cart[x] \in Bags(CartSlots)
      BY <1>6
    <2>2. Count(inventory[x], k) \in Nat /\ Count(rest, k) \in Nat
      BY <1>5, <1>6, <2>1, CountIs
    <2>3. Count(cart[x], k) \in Nat
      BY <1>6, <2>1, CountIs
    <2> QED BY <2>2, <2>3
  <1>11. ASSUME NEW m \in 1 .. M PROVE order[m].kind \in Gone(b)
    <2> DEFINE k == order[m].kind
    <2>1. order[m] \in [kind : Kinds, amount : 1 .. MaxAmount]
      BY <1>4 DEF Orders
    <2>2. k \in Kinds /\ inventory[b] \in Bags(Slots)
      BY <1>6, <2>1
    <2>3. Count(rest, k) < Count(inventory[b], k)
      BY <1>3, <1>4, <1>5, <1>6, <2>2, GivesLess
    <2> HIDE DEF k
    <2>4. Count(inventory'[b], k) + Count(cart'[b], k) < Count(inventory[b], k) + Count(cart[b], k)
      BY <1>9, <1>10, <2>3
    <2> QED BY <2>2, <2>4 DEF Gone, k
  <1>12. ASSUME NEW x \in Players \ {o}, NEW k \in Gone(x) PROVE k \in Wanted
    <2>1. k \in Kinds /\ Count(inventory'[x], k) + Count(cart'[x], k) < Count(inventory[x], k) + Count(cart[x], k)
      BY DEF Gone
    <2>2. x = b
      BY <1>9, <1>10, <2>1
    <2>3. Count(inventory[b], k) - Count(rest, k) > 0
      BY <1>9, <1>10, <2>1, <2>2
    <2>4. PICK j \in DOMAIN list[o] : list[o][j].kind = k
      BY <1>7, <2>1, <2>3 DEF WantedLine
    <2>5. list[o][j] \in StoreLine
      BY <1>8, <2>4 DEF IsStore
    <2> QED BY <2>4, <2>5 DEF StoreLine
  <1> QED BY <1>11, <1>12 DEF order, M

(* What each line of a sale weighs, and which need a free slot. *)
SaleWeights(b, S, n) == [i \in S |-> n[i] * Weight[Kind(b, i)]]
SaleFresh(o, b, S) == {i \in S : StackOf(inventory[o], Kind(b, i)) = {}}

LEMMA SaleChecks ==
  ASSUME NEW o, NEW b, NEW S, NEW n, NEW limit, SaleAccepted(o, b, S, n, limit)
  PROVE  /\ WeightIn(inventory[o]) > max_weight[o] \/ WeightIn(inventory[o]) + Sum(SaleWeights(b, S, n)) <= max_weight[o]
         /\ \A i \in S : pc_checkadditem(inventory[o], Kind(b, i), n[i]) # "overamount"
  BY Zenon DEF SaleAccepted, SaleWeights, WeightOf, Kind

(* The kinds that need a free slot are no more than there are free slots. *)
LEMMA SaleHasRoom ==
  ASSUME ShopConstantsOK, ShopInv, NEW b \in Players, NEW o, NEW S \in SUBSET (1 .. Slots),
         NEW n \in [S -> 1 .. MaxAmount], SoldTo(o, b, S, n), UNCHANGED cart, ~MayMiss(o)
  PROVE  Cardinality(SaleFresh(o, b, S)) <= Cardinality(FreeSlots(inventory[o]))
  <1> DEFINE inv == inventory[o]
             fresh == SaleFresh(o, b, S)
             moved == UNION {Gone(x) : x \in Players \ {o}}
             new == {k \in moved : StackOf(inv, k) = {}}
             h == [i \in fresh |-> Kind(b, i)]
             M == Cardinality(S)
  <1>1. o \in Players \ {b} /\ shop[o] = "buyingstore" /\ \A i \in S : AsWanted(o, b, n, i)
    BY SaleFacts DEF SoldTo
  <1>2. IsFiniteSet(new) /\ Cardinality(new) \in Nat
    <2>1. moved \subseteq Wanted
      BY SoldGone
    <2>2. IsFiniteSet(Wanted) /\ new \subseteq Wanted
      BY <2>1 DEF ShopConstantsOK
    <2> QED BY <2>2, FS_Subset, FS_CardinalityType
  <1>3. Cardinality(FreeSlots(inv)) \in Nat /\ Cardinality(new) <= Cardinality(FreeSlots(inv))
    <2>1. Slots \in Nat /\ inv \in Bags(Slots)
      BY <1>1 DEF ShopInv, Owned, ShopConstantsOK
    <2>2. FreeSlots(inv) \in SUBSET (1 .. Slots)
      BY <2>1 DEF FreeSlots, Bags
    <2>3. Cardinality(FreeSlots(inv)) \in Nat
      BY <2>1, <2>2, PartFinite
    <2>4. shop[o] = "buyingstore" => ~(Cardinality(new) > Cardinality(FreeSlots(inv)))
      BY DEF MayMiss
    <2> HIDE DEF new, inv
    <2> QED BY <1>1, <1>2, <2>3, <2>4
  <1>4. ASSUME NEW i \in S PROVE Kind(b, i) \in moved
    <2>1. S \in SUBSET (1 .. Slots) /\ Slots \in Nat
      BY DEF ShopConstantsOK
    <2>2. PICK m \in 1 .. M : InOrder(S)[m] = i
      BY <2>1, InOrderOnto
    <2>3. SaleOrder(b, S, n)[m].kind = Kind(b, i)
      BY <2>2 DEF SaleOrder
    <2>4. SaleOrder(b, S, n)[m].kind \in Gone(b)
      BY SoldGone
    <2>5. b \in Players \ {o}
      BY <1>1
    <2> QED BY <2>3, <2>4, <2>5
  <1>5. fresh \in SUBSET S /\ fresh \in SUBSET (1 .. Slots) /\ \A i \in fresh : StackOf(inv, Kind(b, i)) = {}
    BY DEF SaleFresh
  <1>6. \A i, j \in fresh : Kind(b, i) = Kind(b, j) => i = j
    BY <1>1, <1>5 DEF AsWanted
  <1>7. \A i \in fresh : Kind(b, i) \in new
    <2> HIDE DEF moved, fresh, inv
    <2> QED BY <1>4, <1>5
  <1> HIDE DEF new, fresh, inv
  <1>8. h \in Injection(fresh, new)
    BY <1>6, <1>7 DEF Injection, IsInjective
  <1> HIDE DEF h
  <1>9. IsFiniteSet(fresh) /\ Cardinality(fresh) <= Cardinality(new)
    BY <1>2, <1>8, FS_Injection
  <1>10. Cardinality(fresh) \in Nat
    BY <1>9, FS_CardinalityType
  <1>11. Cardinality(fresh) <= Cardinality(FreeSlots(inv))
    BY <1>2, <1>3, <1>9, <1>10
  <1> QED BY <1>11 DEF fresh, inv

LEMMA SaleFits ==
  ASSUME ShopConstantsOK, ShopInv, NEW b \in Players, NEW o, NEW S \in SUBSET (1 .. Slots),
         NEW n \in [S -> 1 .. MaxAmount], SoldTo(o, b, S, n), UNCHANGED cart, ~MayMiss(o)
  PROVE  FitsIn(o, inventory[o], Cardinality(S), SaleOrder(b, S, n), S, InOrder(S),
                SaleWeights(b, S, n), SaleFresh(o, b, S))
  <1> DEFINE inv == inventory[o]
             M == Cardinality(S)
             f == InOrder(S)
             order == SaleOrder(b, S, n)
             w == SaleWeights(b, S, n)
             fresh == SaleFresh(o, b, S)
  <1>1. o \in Players \ {b} /\ shop[o] = "buyingstore" /\ \A i \in S : AsWanted(o, b, n, i)
    BY SaleFacts DEF SoldTo
  <1>2. /\ inv \in Bags(Slots) /\ Stacked(inv) /\ max_weight[o] \in Nat
        /\ Slots \in Nat /\ MaxAmount \in Nat /\ Weight \in [Kinds -> Nat]
    BY <1>1 DEF ShopInv, Owned, Flags, ShopConstantsOK
  <1>3. WeightIn(inv) \in Nat
    BY <1>2, WeightIs
  <1>4. /\ IsFiniteSet(S) /\ M \in Nat /\ f \in [1 .. M -> S] /\ \A i, j \in 1 .. M : i # j => f[i] # f[j]
        /\ \A i \in S : \E m \in 1 .. M : f[m] = i
    BY <1>2, InOrderFacts, InOrderOnto
  <1>5. \A m \in 1 .. M : order[m].kind = Kind(b, f[m]) /\ order[m].amount = n[f[m]]
    BY DEF SaleOrder
  <1>6. \A m \in 1 .. M : order[m].kind \in Gone(b)
    BY SoldGone
  <1>7. /\ WeightIn(inv) > max_weight[o] \/ WeightIn(inv) + Sum(w) <= max_weight[o]
        /\ \A i \in S : pc_checkadditem(inv, Kind(b, i), n[i]) # "overamount"
    BY SaleChecks DEF SoldTo
  <1>8. ~(WeightIn(inv) > max_weight[o])
    BY <1>1 DEF MayMiss, WeightOf
  <1>9. Cardinality(fresh) <= Cardinality(FreeSlots(inv))
    BY SaleHasRoom
  <1>10. w = [i \in S |-> n[i] * Weight[Kind(b, i)]] /\ fresh = {i \in S : StackOf(inv, Kind(b, i)) = {}}
    BY DEF SaleWeights, SaleFresh
  <1> HIDE DEF inv, M, f, order, w, fresh
  <1>11. ASSUME NEW i \in S PROVE Kind(b, i) \in Kinds /\ n[i] \in 1 .. MaxAmount /\ n[i] \in Nat /\ Kind(b, i) \in Gone(b)
    <2>1. PICK m \in 1 .. M : f[m] = i
      BY <1>4
    <2>2. Kind(b, i) \in Gone(b)
      BY <1>5, <1>6, <2>1
    <2>3. Kind(b, i) \in Kinds
      BY <2>2 DEF Gone
    <2>4. n[i] \in 1 .. MaxAmount
      OBVIOUS
    <2>5. n[i] \in Nat
      BY <1>2, <2>4
    <2> QED BY <2>2, <2>3, <2>4, <2>5
  <1>12. ASSUME NEW i \in S PROVE \A t \in StackOf(inv, Kind(b, i)) : n[i] <= MaxAmount - inv[t].amount
    <2> DEFINE k == Kind(b, i)
    <2>1. k \in Kinds /\ n[i] \in 1 .. MaxAmount /\ k \in Gone(b) /\ b \in Players \ {o}
      BY <1>1, <1>11
    <2> HIDE DEF k
    <2>2. \A j \in Alike(inv, k) : inv[j].kind = k
      BY <2>1, NothingElse DEF inv
    <2>3. pc_checkadditem(inv, k, n[i]) # "overamount"
      BY <1>7 DEF k
    <2>4. \A t \in StackOf(inv, k) : n[i] <= MaxAmount - inv[t].amount
      BY <1>2, <2>1, <2>2, <2>3, CheckFits
    <2> QED BY <2>4 DEF k
  <1>13. w \in [S -> Nat]
    <2>1. \A x, y \in Nat : x * y \in Nat
      OBVIOUS
    <2>2. \A i \in S : n[i] \in Nat /\ Weight[Kind(b, i)] \in Nat
      BY <1>2, <1>11
    <2>3. \A i \in S : n[i] * Weight[Kind(b, i)] \in Nat
      BY <2>1, <2>2
    <2> QED BY <1>10, <2>3
  <1>14. ASSUME NEW m \in 1 .. M PROVE w[f[m]] = Weight[order[m].kind] * order[m].amount
    <2>1. \A x, y \in Nat : x * y = y * x
      OBVIOUS
    <2>2. n[f[m]] \in Nat /\ Weight[Kind(b, f[m])] \in Nat /\ f[m] \in S
      BY <1>2, <1>4, <1>11
    <2>3. w[f[m]] = n[f[m]] * Weight[Kind(b, f[m])]
      BY <1>10, <2>2
    <2> QED BY <1>5, <2>1, <2>2, <2>3
  <1>15. ASSUME NEW l \in 1 .. M, NEW m \in 1 .. M, l # m PROVE order[l].kind # order[m].kind
    <2>1. f[l] \in S /\ f[m] \in S /\ f[l] # f[m] /\ f[l] \in 1 .. Slots
      BY <1>4, <1>15
    <2>2. AsWanted(o, b, n, f[m])
      BY <1>1, <2>1
    <2>3. Kind(b, f[l]) # Kind(b, f[m])
      BY <2>1, <2>2 DEF AsWanted
    <2> QED BY <1>5, <2>3
  <1>16. fresh \in SUBSET S /\ WeightIn(inv) + Sum(w) <= max_weight[o]
    <2>1. WeightIn(inv) + Sum(w) <= max_weight[o]
      BY <1>7, <1>8
    <2> QED BY <1>10, <2>1
  <1>17. \A m \in 1 .. M : /\ f[m] \notin fresh => StackOf(inv, order[m].kind) # {}
                           /\ \A t \in StackOf(inv, order[m].kind) : order[m].amount <= MaxAmount - inv[t].amount
    BY <1>4, <1>5, <1>10, <1>12
  <1>18. FitsIn(o, inv, M, order, S, f, w, fresh)
    BY <1>2, <1>4, <1>9, <1>13, <1>14, <1>15, <1>16, <1>17 DEF FitsIn, EachOnce
  <1> QED BY <1>18 DEF inv, M, order, f, w, fresh

-----------------------------------------------------------------------------
(* Whoever pays gets what it pays for.                                     *)

LEMMA BoughtDelivers ==
  ASSUME ShopConstantsOK, ShopInv, CartsStacked, Owned', NEW q \in Players, NEW S \in SUBSET DOMAIN seen[q].list,
         NEW n \in [S -> 1 .. MaxAmount], Bought(q, S, n), ~MayMiss(q), NEW k \in Kinds
  PROVE  Total(inventory', cart', k) = Total(inventory, cart, k)
  <1> DEFINE s == Owner(q)
             order == PurchaseOrder(q, S, n)
             M == Cardinality(S)
             got == Received(q, inventory[q], order)
             rest == CartLeft(q, S, n)
             pos == Positions(q, S)
             w == PurchaseWeights(q, S, n)
             fresh == PurchaseFresh(q, S, n)
             f == InOrder(S)
  <1>1. s \in Players \ {q}
    BY PurchaseFacts DEF Bought
  <1>2. inventory' = [inventory EXCEPT ![q] = got] /\ cart' = [cart EXCEPT ![s] = rest]
    BY BoughtPays
  <1>3. Gives(CartSlots, cart[s], rest, M, order, pos)
    BY PurchaseGives DEF Bought
  <1>4. M \in Nat /\ order \in Orders(M)
    BY PurchaseOrderType DEF Bought
  <1>5. rest \in Bags(CartSlots)
    BY CartLeftType DEF Bought
  <1>6. FitsIn(q, inventory[q], M, order, S, f, w, fresh)
    BY PurchaseFits
  <1> HIDE DEF s, order, M, rest, pos, w, fresh, f
  <1>7. /\ inventory \in [Players -> Bags(Slots)] /\ cart \in [Players -> Bags(CartSlots)]
        /\ Slots \in Nat /\ CartSlots \in Nat
    BY DEF ShopInv, Owned, ShopConstantsOK
  <1>8. inventory' \in [Players -> Bags(Slots)] /\ cart' \in [Players -> Bags(CartSlots)]
    BY DEF Owned
  <1>9. inventory[q] \in Bags(Slots) /\ cart[s] \in Bags(CartSlots)
    BY <1>1, <1>7
  <1>10. Count(got, k) + Count(rest, k) = Count(inventory[q], k) + Count(cart[s], k)
    BY <1>3, <1>4, <1>5, <1>6, <1>7, <1>9, AllHandedOver
  <1> HIDE DEF got
  <1>11. PICK invs, carts : invs = inventory' /\ carts = cart'
    OBVIOUS
  <1>12. /\ invs \in [Players -> Bags(Slots)] /\ carts \in [Players -> Bags(CartSlots)]
         /\ invs = [inventory EXCEPT ![q] = got] /\ carts = [cart EXCEPT ![s] = rest]
    BY <1>2, <1>8, <1>11
  <1>13. invs[q] = got /\ invs[s] = inventory[s] /\ carts[q] = cart[q] /\ carts[s] = rest
    BY <1>1, <1>7, <1>12
  <1>14. \A z \in Players \ {q, s} : invs[z] = inventory[z] /\ carts[z] = cart[z]
    BY <1>7, <1>12
  <1>15. got \in Bags(Slots) /\ inventory[s] \in Bags(Slots) /\ cart[q] \in Bags(CartSlots)
    BY <1>1, <1>7, <1>12, <1>13
  <1>16. /\ Count(got, k) \in Nat /\ Count(inventory[s], k) \in Nat /\ Count(inventory[q], k) \in Nat
         /\ Count(rest, k) \in Nat /\ Count(cart[q], k) \in Nat /\ Count(cart[s], k) \in Nat
    <2>1. Count(got, k) \in Nat /\ Count(inventory[s], k) \in Nat /\ Count(inventory[q], k) \in Nat
      BY <1>7, <1>9, <1>15, CountIs
    <2>2. Count(rest, k) \in Nat /\ Count(cart[q], k) \in Nat /\ Count(cart[s], k) \in Nat
      BY <1>5, <1>7, <1>9, <1>15, CountIs
    <2> QED BY <2>1, <2>2
  <1>17. HaveSame(inventory, cart, invs, carts, k, q, s)
    BY <1>10, <1>13, <1>14, <1>16 DEF Has, HaveSame
  <1>18. Total(invs, carts, k) = Total(inventory, cart, k)
    <2>1. /\ inventory \in [Players -> Bags(Slots)] /\ cart \in [Players -> Bags(CartSlots)]
          /\ invs \in [Players -> Bags(Slots)] /\ carts \in [Players -> Bags(CartSlots)]
          /\ q \in Players /\ s \in Players \ {q}
      BY <1>1, <1>7, <1>12
    <2> QED BY <1>17, <2>1, TotalSame
  <1> QED BY <1>11, <1>18

LEMMA SoldDelivers ==
  ASSUME ShopConstantsOK, ShopInv, Owned', NEW q \in Players, NEW o, NEW S \in SUBSET (1 .. Slots),
         NEW n \in [S -> 1 .. MaxAmount], SoldTo(o, q, S, n), UNCHANGED cart, ~MayMiss(o), NEW k \in Kinds
  PROVE  Total(inventory', cart', k) = Total(inventory, cart, k)
  <1> DEFINE order == SaleOrder(q, S, n)
             M == Cardinality(S)
             got == Received(o, inventory[o], order)
             rest == BackpackLeft(q, S, n)
             f == InOrder(S)
             w == SaleWeights(q, S, n)
             fresh == SaleFresh(o, q, S)
  <1>1. o \in Players \ {q} /\ inventory' = [inventory EXCEPT ![o] = got, ![q] = rest]
    <2>1. o \in Players \ {q} /\ HandsOver(o, q, S, n)
      BY SoldPays
    <2> QED BY <2>1 DEF HandsOver
  <1>2. Gives(Slots, inventory[q], rest, M, order, f)
    BY SaleGives
  <1>3. M \in Nat /\ order \in Orders(M)
    <2>1. \A i \in S : AsWanted(o, q, n, i)
      BY SaleFacts DEF SoldTo
    <2>2. \A i \in S : Kind(q, i) \in Wanted
      BY <2>1 DEF AsWanted
    <2> QED BY <2>2, SaleOrderType
  <1>4. rest \in Bags(Slots)
    BY BackpackLeftType
  <1>5. FitsIn(o, inventory[o], M, order, S, f, w, fresh)
    BY SaleFits
  <1> HIDE DEF order, M, rest, f, w, fresh
  <1>6. /\ inventory \in [Players -> Bags(Slots)] /\ cart \in [Players -> Bags(CartSlots)]
        /\ Slots \in Nat /\ CartSlots \in Nat
    BY DEF ShopInv, Owned, ShopConstantsOK
  <1>7. inventory' \in [Players -> Bags(Slots)]
    BY DEF Owned
  <1>8. inventory[q] \in Bags(Slots) /\ inventory[o] \in Bags(Slots)
    BY <1>1, <1>6
  <1>9. Count(got, k) + Count(rest, k) = Count(inventory[o], k) + Count(inventory[q], k)
    BY <1>2, <1>3, <1>4, <1>5, <1>6, <1>8, AllHandedOver
  <1> HIDE DEF got
  <1>10. PICK invs : invs = inventory'
    OBVIOUS
  <1>11. invs \in [Players -> Bags(Slots)] /\ invs = [inventory EXCEPT ![o] = got, ![q] = rest]
    BY <1>1, <1>7, <1>10
  <1>12. invs[o] = got /\ invs[q] = rest
    BY <1>1, <1>6, <1>11
  <1>13. \A z \in Players \ {o, q} : invs[z] = inventory[z] /\ cart[z] = cart[z]
    BY <1>6, <1>11
  <1>14. got \in Bags(Slots) /\ cart[o] \in Bags(CartSlots) /\ cart[q] \in Bags(CartSlots)
    BY <1>1, <1>6, <1>11, <1>12
  <1>15. /\ Count(got, k) \in Nat /\ Count(inventory[o], k) \in Nat /\ Count(inventory[q], k) \in Nat
         /\ Count(rest, k) \in Nat /\ Count(cart[q], k) \in Nat /\ Count(cart[o], k) \in Nat
    <2>1. Count(got, k) \in Nat /\ Count(inventory[o], k) \in Nat /\ Count(inventory[q], k) \in Nat
      BY <1>6, <1>8, <1>14, CountIs
    <2>2. Count(rest, k) \in Nat /\ Count(cart[q], k) \in Nat /\ Count(cart[o], k) \in Nat
      BY <1>4, <1>6, <1>14, CountIs
    <2> QED BY <2>1, <2>2
  <1>16. HaveSame(inventory, cart, invs, cart, k, o, q)
    BY <1>9, <1>12, <1>13, <1>15 DEF Has, HaveSame
  <1>17. o \in Players /\ q \in Players \ {o}
    BY <1>1
  <1>18. Total(invs, cart, k) = Total(inventory, cart, k)
    <2>1. /\ inventory \in [Players -> Bags(Slots)] /\ cart \in [Players -> Bags(CartSlots)]
          /\ invs \in [Players -> Bags(Slots)]
      BY <1>6, <1>11
    <2> QED BY <1>16, <1>17, <2>1, TotalSame
  <1> QED BY <1>10, <1>18

LEMMA StepDelivers == ASSUME ShopConstantsOK, ShopInv, CartsStacked, Owned', ShopNext PROVE Delivers
  <1> SUFFICES ASSUME NEW p \in Players, NEW k \in Kinds, zeny'[p] < zeny[p], ~MayMiss(p)
               PROVE  Total(inventory', cart', k) = Total(inventory, cart, k)
    BY DEF Delivers
  <1>1. \/ UNCHANGED <<inventory, cart>>
        \/ \E S \in SUBSET DOMAIN seen[p].list : \E n \in [S -> 1 .. MaxAmount] : Bought(p, S, n)
        \/ /\ UNCHANGED cart
           /\ \E b \in Players, S \in SUBSET (1 .. Slots) : \E n \in [S -> 1 .. MaxAmount] : SoldTo(p, b, S, n)
    BY WhoPays
  <1>2. CASE UNCHANGED <<inventory, cart>>
    BY <1>2
  <1>3. CASE \E S \in SUBSET DOMAIN seen[p].list : \E n \in [S -> 1 .. MaxAmount] : Bought(p, S, n)
    <2>1. PICK S \in SUBSET DOMAIN seen[p].list : \E n \in [S -> 1 .. MaxAmount] : Bought(p, S, n)
      BY <1>3
    <2>2. PICK n \in [S -> 1 .. MaxAmount] : Bought(p, S, n)
      BY <2>1
    <2> QED BY <2>2, BoughtDelivers
  <1>4. CASE /\ UNCHANGED cart
             /\ \E b \in Players, S \in SUBSET (1 .. Slots) : \E n \in [S -> 1 .. MaxAmount] : SoldTo(p, b, S, n)
    <2>1. PICK b \in Players, S \in SUBSET (1 .. Slots) : \E n \in [S -> 1 .. MaxAmount] : SoldTo(p, b, S, n)
      BY <1>4
    <2>2. PICK n \in [S -> 1 .. MaxAmount] : SoldTo(p, b, S, n)
      BY <2>1
    <2> QED BY <1>4, <2>2, SoldDelivers
  <1> QED BY <1>1, <1>2, <1>3, <1>4

(* Whatever the kinds, slots and weights are and however a shop has aged,  *)
(* whoever pays in a shop receives every piece that the other one hands    *)
(* over, although nobody looks at what pc_additem answers, but for the two *)
(* cases of MayMiss: another kind with the same nameid, and the owner of a *)
(* buying store that has no room for what it wants.                        *)
THEOREM OrdersAreDelivered == ShopConstantsOK => (ShopSpec => Delivered)
  <1> SUFFICES ASSUME ShopConstantsOK PROVE ShopSpec => Delivered
    OBVIOUS
  <1>1. ShopInit => ShopInv /\ CartsStacked
    BY ShopFirst, CartsFirst
  <1>2. ShopInv /\ CartsStacked /\ [ShopNext]_shopvars => ShopInv' /\ CartsStacked'
    BY StepTypes, StepStacked
  <1>3. ShopInv /\ CartsStacked /\ ShopInv' /\ [ShopNext]_shopvars => [Delivers]_goods
    <2> SUFFICES ASSUME ShopInv, CartsStacked, ShopInv', [ShopNext]_shopvars, ~UNCHANGED goods PROVE Delivers
      OBVIOUS
    <2>1. ShopNext
      BY DEF shopvars
    <2>2. Owned'
      BY DEF ShopInv
    <2> QED BY <2>1, <2>2, StepDelivers
  <1> QED BY <1>1, <1>2, <1>3, PTL DEF ShopSpec, Delivered
=============================================================================
