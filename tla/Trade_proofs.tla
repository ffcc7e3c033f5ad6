---------------------------- MODULE Trade_proofs ----------------------------
(* Theorems about trades, for any number of players and items: who trades  *)
(* with whom, if nobody can ask for a trade in the middle of one, and what  *)
(* becomes of their goods, whoever asks when.                              *)
EXTENDS Trade, FiniteSetTheorems, TLAPS

(* What all players own is a sum over the players: what a sum over a       *)
(* finite set is, and how it changes with one summand.                     *)
Plus(x, y) == x + y
FoldSum(f) == FoldFunction(LAMBDA x, y : x + y, 0, f)

Additive == INSTANCE FoldTheorems WITH op <- Plus, base <- 0

(* A sum is unfolded one summand at a time. *)
LEMMA SumUnfolds ==
  ASSUME NEW S, IsFiniteSet(S), NEW f, DOMAIN f = S
  PROVE  \E g : Additive!Unfolds(g, f, SUBSET S) /\ FoldSum(f) = g[S]
  <1>1. Additive!IsFiniteSet(S)
    BY DEF Additive!IsFiniteSet, IsFiniteSet
  <1>2. \E g : Additive!Unfolds(g, f, SUBSET S) /\ Additive!FoldFunction(Plus, 0, f) = g[S]
    BY <1>1, Additive!FoldUnfolds
  <1>3. Additive!FoldFunction(Plus, 0, f) = FoldFunction(Plus, 0, f)
    BY DEF Additive!FoldFunction, Additive!FoldFunctionOnSet, Additive!MapThenFoldSet, FoldFunction,
       FoldFunctionOnSet, MapThenFoldSet
  <1>4. FoldFunction(Plus, 0, f) = FoldSum(f)
    BY DEF FoldSum, Plus
  <1> QED BY <1>2, <1>3, <1>4

(* A sum of integers is an integer. *)
THEOREM SumType ==
  ASSUME NEW S, IsFiniteSet(S), NEW f \in [S -> Int]
  PROVE  FoldSum(f) \in Int
  <1>1. PICK g : Additive!Unfolds(g, f, SUBSET S) /\ FoldSum(f) = g[S]
    BY SumUnfolds
  <1>2. Additive!IsFiniteSet(S)
    BY DEF Additive!IsFiniteSet, IsFiniteSet
  <1> DEFINE Q == {s \in SUBSET S : g[s] \in Int}
  <1>3. {} \in Q
    BY <1>1 DEF Additive!Unfolds
  <1>4. ASSUME NEW s \in SUBSET S, s # {}, Additive!Others(s) \in Q PROVE s \in Q
    <2>1. Additive!Picked(s) \in S
      BY <1>2, <1>4, Additive!PickedType
    <2>2. g[s] = f[Additive!Picked(s)] + g[Additive!Others(s)]
      BY <1>1, <1>4 DEF Additive!Unfolds, Plus
    <2> QED BY <1>4, <2>1, <2>2
  <1> HIDE DEF Q
  <1>5. Q = SUBSET S
    <2>1. Q \in SUBSET SUBSET S
      BY DEF Q
    <2> QED BY <1>3, <1>4, <2>1, <1>2, Additive!SubsetInduction
  <1> QED BY <1>1, <1>5 DEF Q

(* When one summand changes, the sum changes by as much. *)
THEOREM SumChange ==
  ASSUME NEW S, IsFiniteSet(S), NEW f \in [S -> Int], NEW g \in [S -> Int],
         NEW x \in S, \A y \in S \ {x} : g[y] = f[y]
  PROVE  FoldSum(g) = FoldSum(f) - f[x] + g[x]
  <1>1. PICK F1 : Additive!Unfolds(F1, f, SUBSET S) /\ FoldSum(f) = F1[S]
    BY SumUnfolds
  <1>2. PICK G1 : Additive!Unfolds(G1, g, SUBSET S) /\ FoldSum(g) = G1[S]
    BY SumUnfolds
  <1>3. Additive!IsFiniteSet(S)
    BY DEF Additive!IsFiniteSet, IsFiniteSet
  <1> DEFINE Q == {s \in SUBSET S : /\ F1[s] \in Int /\ G1[s] \in Int
                                    /\ G1[s] = F1[s] + IF x \in s THEN g[x] - f[x] ELSE 0}
  <1>4. {} \in Q
    BY <1>1, <1>2 DEF Additive!Unfolds
  <1>5. ASSUME NEW s \in SUBSET S, s # {}, Additive!Others(s) \in Q PROVE s \in Q
    <2> DEFINE a == Additive!Picked(s)
               r == Additive!Others(s)
    <2>1. a \in S /\ a \in s /\ r = s \ {a} /\ r \in SUBSET S
      BY <1>3, <1>5, Additive!PickedType DEF Additive!Others
    <2>2. F1[s] = f[a] + F1[r] /\ G1[s] = g[a] + G1[r]
      BY <1>1, <1>2, <1>5 DEF Additive!Unfolds, Plus
    <2>3. /\ F1[r] \in Int /\ G1[r] \in Int
          /\ G1[r] = F1[r] + IF x \in r THEN g[x] - f[x] ELSE 0
      BY <1>5
    <2> HIDE DEF a, r
    <2>4. CASE a = x
      BY <2>1, <2>2, <2>3, <2>4
    <2>5. CASE a # x
      BY <2>1, <2>2, <2>3, <2>5
    <2> QED BY <2>4, <2>5
  <1> HIDE DEF Q
  <1>6. Q = SUBSET S
    <2>1. Q \in SUBSET SUBSET S
      BY DEF Q
    <2> QED BY <1>4, <1>5, <2>1, <1>3, Additive!SubsetInduction
  <1>7. S \in Q
    BY <1>6
  <1> QED BY <1>1, <1>2, <1>7 DEF Q

-----------------------------------------------------------------------------
(* The inductive invariant.  Requests and trades are mutual, between two   *)
(* players in the game; deals are locked in trades only, and who pressed   *)
(* TRADE did so when the partner had locked.                               *)
FlagsOK == /\ online \subseteq Players
           /\ trade_partner \in [Players -> Players \cup {None}]
           /\ trading \in [Players -> BOOLEAN]
           /\ deal_locked \in [Players -> 0 .. 2]
           /\ deal = [p \in Players |-> deal[p]]

Mutual == \A p \in Players : trade_partner[p] # None =>
  /\ p \in online /\ trade_partner[p] \in online
  /\ trade_partner[p] # p
  /\ trade_partner[trade_partner[p]] = p
  /\ trading[trade_partner[p]] <=> trading[p]

Locks == \A p \in Players :
  /\ trading[p] => trade_partner[p] # None
  /\ deal_locked[p] > 0 => trading[p]
  /\ deal_locked[p] = 2 => deal_locked[trade_partner[p]] > 0

Paired == FlagsOK /\ Mutual /\ Locks

LEMMA InitPaired == Init => Paired
  BY TraderAssumption DEF Init, Paired, FlagsOK, Mutual, Locks

-----------------------------------------------------------------------------
(* Partners see the same pair. *)
LEMMA SamePair ==
  ASSUME Paired, NEW p \in online, NEW x \in Players
  PROVE  /\ x \in Parties(p) /\ trade_partner[x] # None => trade_partner[x] \in Parties(p)
         /\ trade_partner[x] \in Parties(p) => x \in Parties(p)
         /\ x \in Parties(p) => (trading[x] <=> trading[p])
  <1>1. p \in Players /\ None \notin Players
    BY TraderAssumption DEF Paired, FlagsOK
  <1>2. CASE trade_partner[p] = None
    BY <1>1, <1>2 DEF Parties, Present, Paired, FlagsOK, Mutual
  <1>3. CASE trade_partner[p] # None
    BY <1>1, <1>3 DEF Parties, Present, Paired, FlagsOK, Mutual
  <1> QED BY <1>2, <1>3

LEMMA WhoIsFreed ==
  ASSUME Paired, NEW p \in online
  PROVE  /\ p \in Players /\ Parties(p) \subseteq Players
         /\ Parties(p) = IF trade_partner[p] = None THEN {p} ELSE {p, trade_partner[p]}
  BY TraderAssumption DEF Parties, Present, Paired, FlagsOK, Mutual

(* p and its partner are free afterwards, everybody else is as before. *)
Freed(p) ==
  /\ FlagsOK'
  /\ \A x \in Players :
       /\ x \in Parties(p) => trade_partner'[x] = None /\ ~trading'[x] /\ deal_locked'[x] = 0
       /\ x \notin Parties(p) => /\ trade_partner'[x] = trade_partner[x]
                                 /\ trading'[x] <=> trading[x]
                                 /\ deal_locked'[x] = deal_locked[x]
                                 /\ deal'[x] = deal[x]

Stays == online' = online
Leaves(p) == online' = online \ {p}

LEMMA FreedPaired ==
  ASSUME Paired, NEW p \in online, Freed(p), Stays \/ Leaves(p)
  PROVE  Paired' /\ KeepsSeen
  <1>1. Mutual'
    BY SamePair, WhoIsFreed DEF Stays, Leaves, Paired, FlagsOK, Mutual, Freed
  <1>2. ASSUME NEW x \in Players, x \notin Parties(p), deal_locked[x] = 2
        PROVE  trade_partner[x] \in Players /\ trade_partner[x] \notin Parties(p)
    BY <1>2, SamePair DEF Paired, FlagsOK, Locks
  <1>3. ASSUME NEW x \in Players PROVE Locks!(x)'
    <2>1. CASE x \in Parties(p)
      BY <2>1, TraderAssumption DEF Freed
    <2>2. CASE x \notin Parties(p)
      BY <2>2, <1>2 DEF Freed, Paired, Locks
    <2> QED BY <2>1, <2>2
  <1>4. KeepsSeen
    BY <1>2 DEF Paired, FlagsOK, Freed, KeepsSeen
  <1> QED BY <1>1, <1>3, <1>4 DEF Freed, Paired, Locks

-----------------------------------------------------------------------------
(* The three ways of being freed. *)
LEMMA CancelFrees ==
  ASSUME Paired, NEW p \in online, NEW locks \in [Players -> 0 .. 2], Stays \/ Leaves(p),
         \A x \in Players \ Parties(p) : locks[x] = deal_locked[x],
         trading[p] \/ locks = deal_locked,
         CancelledAt(p, locks)
  PROVE  Freed(p)
  <1> USE WhoIsFreed DEF Paired, FlagsOK, Freed, Stays, Leaves
  <1>1. CASE trading[p]
    <2>1. /\ trade_partner' = [x \in Players |-> IF x \in Parties(p) THEN None ELSE trade_partner[x]]
          /\ trading' = [x \in Players |-> x \notin Parties(p) /\ trading[x]]
          /\ deal_locked' = [x \in Players |-> IF x \in Parties(p) THEN 0 ELSE locks[x]]
          /\ deal' = [x \in Players |-> IF x \in Parties(p) THEN EmptyDeal ELSE deal[x]]
      BY <1>1 DEF CancelledAt, Without, Reset
    <2>2. FlagsOK'
      BY <2>1
    <2> QED BY <2>1, <2>2
  <1>2. CASE ~trading[p]
    <2>1. \A x \in Parties(p) : ~trading[x] /\ deal_locked[x] = 0
      BY <1>2, SamePair DEF Locks
    <2> QED BY <1>2, <2>1 DEF CancelledAt, Without
  <1> QED BY <1>1, <1>2

LEMMA RefusalFrees ==
  ASSUME Paired, NEW p \in online, Stays \/ Leaves(p),
         ~trading[p], trade_partner[p] # None, TradeRefused(p, trade_partner[p])
  PROVE  Freed(p)
  <1>1. \A x \in Parties(p) : ~trading[x] /\ deal_locked[x] = 0
    BY SamePair, WhoIsFreed DEF Paired, FlagsOK, Locks
  <1>2. Parties(p) = {p, trade_partner[p]}
    BY WhoIsFreed
  <1> QED BY <1>1, <1>2 DEF TradeRefused, Without, Reset, Freed, Paired, FlagsOK, Stays, Leaves

LEMMA ExchangeFrees ==
  ASSUME Paired, NEW p \in online, Stays \/ Leaves(p),
         trade_partner[p] # None, Exchange(p, trade_partner[p])
  PROVE  Freed(p)
  <1>1. Parties(p) = {p, trade_partner[p]} /\ p \in Players /\ trade_partner[p] \in Players
    BY WhoIsFreed
  <1> DEFINE Only(f, v) == [x \in Players |-> IF x \in Parties(p) THEN v ELSE f[x]]
  <1>2. trade_partner' = Only(trade_partner, None) /\ deal_locked' = Only(deal_locked, 0)
    BY <1>1 DEF Exchange, Without, Reset
  <1>4. ASSUME NEW f, f = [x \in Players |-> f[x]], NEW v
        PROVE  [f EXCEPT ![p] = v, ![trade_partner[p]] = v] = Only(f, v)
    BY <1>1, <1>4
  <1>5. trading' = Only(trading, FALSE)
    <2>1. trading = [x \in Players |-> trading[x]]
      BY DEF Paired, FlagsOK
    <2>2. trading' = [trading EXCEPT ![p] = FALSE, ![trade_partner[p]] = FALSE]
      BY DEF Exchange
    <2>3. [trading EXCEPT ![p] = FALSE, ![trade_partner[p]] = FALSE] = Only(trading, FALSE)
      <3> HIDE DEF Only
      <3> QED BY <2>1, <1>4, Zenon
    <2> QED BY <2>2, <2>3, Zenon
  <1>6. deal' = Only(deal, EmptyDeal)
    <2>1. deal = [x \in Players |-> deal[x]]
      BY DEF Paired, FlagsOK
    <2> QED BY <2>1, <1>4 DEF Exchange
  <1>7. FlagsOK'
    <2>1. trading' \in [Players -> BOOLEAN]
      BY <1>5 DEF Paired, FlagsOK
    <2> QED BY <1>2, <1>6, <2>1 DEF Paired, FlagsOK, Stays, Leaves
  <1> QED BY <1>1, <1>2, <1>5, <1>6, <1>7 DEF Freed

-----------------------------------------------------------------------------
(* The deal of a player who has not locked it changes, or gets locked. *)
LEMMA DealPaired ==
  ASSUME Paired, NEW p \in online, MayAdd(p), UNCHANGED <<online, trade_partner, trading>>,
         deal' = [x \in Players |-> deal'[x]],
         \/ UNCHANGED deal_locked /\ \A x \in Players \ {p} : deal'[x] = deal[x]
         \/ Lock(p)
  PROVE  Paired' /\ KeepsSeen
  <1>1. p \in Players
    BY DEF Paired, FlagsOK
  <1>2. Mutual'
    BY DEF Paired, Mutual
  <1>3. ASSUME NEW x \in Players, deal_locked[x] = 2
        PROVE  x # p /\ trade_partner[x] \in Players \ {p}
    BY <1>3, TraderAssumption DEF Paired, FlagsOK, Locks, MayAdd
  <1>4. CASE UNCHANGED deal_locked /\ \A x \in Players \ {p} : deal'[x] = deal[x]
    BY <1>2, <1>3, <1>4 DEF Paired, FlagsOK, Locks, KeepsSeen
  <1>5. CASE Lock(p)
    BY <1>1, <1>2, <1>3, <1>5 DEF Lock, MayAdd, Paired, FlagsOK, Locks, KeepsSeen
  <1> QED BY <1>4, <1>5

-----------------------------------------------------------------------------
(* Every action keeps the invariant and what was agreed upon. *)
LEMMA CancelKeeps ==
  ASSUME Paired, NEW p \in online, Stays \/ Leaves(p), Cancelled(p)
  PROVE  Paired' /\ KeepsSeen
  BY CancelFrees, FreedPaired DEF Cancelled, Paired, FlagsOK

LEMMA RequestKeeps ==
  ASSUME Paired, Asking = {}, NEW p \in Players, NEW target \in Players,
         trade_traderequest(p, target)
  PROVE  Paired' /\ KeepsSeen
  <1> DEFINE previous == IF Present(p) THEN {p, trade_partner[p]} ELSE {p}
             cleared == [x \in Players |-> IF x \in previous THEN None ELSE trade_partner[x]]
  <1>1. /\ p \in online /\ target \in online /\ p # target /\ ~trading[p]
        /\ UNCHANGED <<online, trading, deal_locked, deal>>
        /\ \/ trade_partner' = cleared
           \/ /\ cleared[target] = None
              /\ trade_partner' = [cleared EXCEPT ![p] = target, ![target] = p]
    BY DEF trade_traderequest
  <1>2. previous = Parties(p)
    BY DEF Parties
  <1>3. \A x \in previous : ~trading[x] /\ deal_locked[x] = 0 /\ x \in Players
    BY <1>1, <1>2, SamePair, WhoIsFreed DEF Paired, FlagsOK, Locks
  <1>4. /\ cleared[p] = None /\ cleared \in [Players -> Players \cup {None}]
        /\ \A x \in Players : cleared[x] = None => ~trading[x] /\ deal_locked[x] = 0
    BY <1>2, <1>3, WhoIsFreed, <1>1 DEF Paired, FlagsOK, Locks
  <1>5. \A x \in Players : cleared[x] # None =>
          /\ x \notin previous /\ cleared[x] = trade_partner[x]
          /\ cleared[x] \in Players /\ cleared[cleared[x]] = x
    BY <1>1, <1>2, SamePair DEF Paired, FlagsOK, Mutual
  <1> HIDE DEF previous, cleared
  <1>6. CASE trade_partner' = cleared
    <2>1. Mutual'
      BY <1>1, <1>5, <1>6 DEF Paired, FlagsOK, Mutual
    <2>2. Locks'
      BY <1>1, <1>4, <1>5, <1>6 DEF Paired, FlagsOK, Locks
    <2>3. KeepsSeen
      BY <1>1, <1>4, <1>5, <1>6 DEF Paired, FlagsOK, Locks, KeepsSeen
    <2> QED BY <1>1, <1>4, <1>6, <2>1, <2>2, <2>3 DEF Paired, FlagsOK
  <1>7. CASE /\ cleared[target] = None
             /\ trade_partner' = [cleared EXCEPT ![p] = target, ![target] = p]
    <2>1. \A x \in Players :
            trade_partner'[x] = IF x = p THEN target ELSE IF x = target THEN p ELSE cleared[x]
      BY <1>1, <1>4, <1>7
    <2>2. \A x \in Players : cleared[x] # None => cleared[x] # p /\ cleared[x] # target
      BY <1>4, <1>5, <1>7, TraderAssumption
    <2>3. Mutual'
      BY <1>1, <1>4, <1>5, <1>7, <2>1, <2>2 DEF Paired, FlagsOK, Mutual
    <2>4. Locks'
      BY <1>1, <1>4, <1>5, <1>7, <2>1, TraderAssumption DEF Paired, FlagsOK, Locks
    <2>5. KeepsSeen
      BY <1>1, <1>4, <1>5, <1>7, <2>1 DEF Paired, FlagsOK, Locks, KeepsSeen
    <2>6. trade_partner' \in [Players -> Players \cup {None}]
      BY <1>1, <1>4, <1>7
    <2> QED BY <1>1, <2>3, <2>4, <2>5, <2>6 DEF Paired, FlagsOK
  <1> QED BY <1>1, <1>6, <1>7

LEMMA AnswerKeeps ==
  ASSUME Paired, NEW p \in Players, trade_tradeack(p)
  PROVE  Paired' /\ KeepsSeen
  <1> DEFINE q == trade_partner[p]
  <1>1. p \in online /\ ~trading[p] /\ q # None /\ q \in Players /\ UNCHANGED online
    BY DEF trade_tradeack, Paired, FlagsOK
  <1>2. Answers(p, q)
    BY <1>1 DEF Answers, Paired, Mutual
  <1>3. CASE TradeRefused(p, q)
    BY <1>1, <1>3, RefusalFrees, FreedPaired DEF Stays
  <1>4. CASE TradeStarts(p, q)
    <2>1. /\ trading' = [trading EXCEPT ![p] = TRUE, ![q] = TRUE]
          /\ deal' = [deal EXCEPT ![p] = EmptyDeal, ![q] = EmptyDeal]
          /\ UNCHANGED <<trade_partner, deal_locked>>
      BY <1>4 DEF TradeStarts
    <2>2. trading' \in [Players -> BOOLEAN] /\ deal' = [x \in Players |-> deal'[x]]
      BY <2>1 DEF Paired, FlagsOK
    <2>3. \A x \in Players : trading'[x] <=> (x = p \/ x = q \/ trading[x])
      BY <1>1, <2>1 DEF Paired, FlagsOK
    <2>4. deal_locked[p] = 0 /\ deal_locked[q] = 0
      BY <1>1, <1>2 DEF Answers, Paired, FlagsOK, Locks
    <2>5. Mutual'
      <3> SUFFICES ASSUME NEW x \in Players, trade_partner[x] # None
                   PROVE  trading'[trade_partner[x]] <=> trading'[x]
        BY <1>1, <2>1 DEF Paired, Mutual
      <3>1. trade_partner[x] \in Players /\ (trading[trade_partner[x]] <=> trading[x])
        BY DEF Paired, FlagsOK, Mutual
      <3>2. x \in {p, q} <=> trade_partner[x] \in {p, q}
        BY <1>1, <1>2 DEF Answers, Paired, Mutual
      <3> QED BY <2>3, <3>1, <3>2
    <2>6. Locks'
      <3> SUFFICES ASSUME NEW x \in Players PROVE Locks!(x)'
        BY DEF Locks
      <3>1. x \in {p, q} => trade_partner[x] # None
        BY <1>1, <1>2, TraderAssumption DEF Answers
      <3> QED BY <2>1, <2>3, <2>4, <3>1 DEF Paired, FlagsOK, Locks
    <2>7. ASSUME NEW x \in Players, deal_locked[x] = 2
          PROVE  x \notin {p, q} /\ trade_partner[x] \in Players \ {p, q}
      BY <1>1, <1>2, <2>4, <2>7 DEF Answers, Paired, FlagsOK, Mutual, Locks
    <2>8. \A x \in Players \ {p, q} : deal'[x] = deal[x]
      BY <2>1 DEF Paired, FlagsOK
    <2>9. KeepsSeen
      BY <2>1, <2>7, <2>8 DEF Paired, FlagsOK, KeepsSeen
    <2> QED BY <1>1, <2>1, <2>2, <2>5, <2>6, <2>9 DEF Paired, FlagsOK
  <1> QED BY <1>2, <1>3, <1>4 DEF trade_tradeack

(* Under the invariant, partners are there whenever a deal may change. *)
LEMMA PartnerIsThere ==
  ASSUME Paired, NEW p \in online, trading[p]
  PROVE  p \in Players /\ trade_partner[p] \in Players /\ Present(p)
  BY DEF Paired, FlagsOK, Mutual, Locks, Present

LEMMA AddItemKeeps ==
  ASSUME Paired, NEW p \in Players, NEW i \in 1 .. Slots, NEW n \in Pieces,
         trade_tradeadditem(p, i, n)
  PROVE  Paired' /\ KeepsSeen
  <1>1. p \in online /\ MayAdd(p) /\ UNCHANGED online /\ AddItem(p, i, n)
    BY PartnerIsThere DEF trade_tradeadditem, MayAdd, WithPartner
  <1>2. UNCHANGED flags /\ \E d : deal' = [deal EXCEPT ![p] = d]
    BY <1>1, Zenon DEF AddItem
  <1>3. PICK d : deal' = [deal EXCEPT ![p] = d]
    BY <1>2
  <1>4. deal' = [x \in Players |-> deal'[x]] /\ \A x \in Players \ {p} : deal'[x] = deal[x]
    BY <1>3 DEF Paired, FlagsOK
  <1> QED BY <1>1, <1>2, <1>4, DealPaired DEF flags

LEMMA AddZenyKeeps ==
  ASSUME Paired, NEW p \in Players, NEW n \in 0 .. MaxZeny, trade_tradeaddzeny(p, n)
  PROVE  Paired' /\ KeepsSeen
  <1>1. p \in online /\ MayAdd(p) /\ UNCHANGED online /\ AddZeny(p, n)
    BY PartnerIsThere DEF trade_tradeaddzeny, MayAdd, WithPartner
  <1>2. CASE Cancelled(p)
    BY <1>1, <1>2, CancelKeeps DEF Stays
  <1>3. CASE deal' = [deal EXCEPT ![p].zeny = n] /\ UNCHANGED flags
    <2>1. deal' = [x \in Players |-> deal'[x]] /\ \A x \in Players \ {p} : deal'[x] = deal[x]
      BY <1>3 DEF Paired, FlagsOK
    <2> QED BY <1>1, <1>3, <2>1, DealPaired DEF flags
  <1> QED BY <1>1, <1>2, <1>3 DEF AddZeny

LEMMA LockKeeps ==
  ASSUME Paired, NEW p \in Players, trade_tradeok(p)
  PROVE  Paired' /\ KeepsSeen
  <1>1. p \in online /\ MayAdd(p) /\ UNCHANGED online /\ Lock(p)
    BY PartnerIsThere DEF trade_tradeok, MayAdd, WithPartner
  <1> QED BY <1>1, DealPaired DEF Lock, Paired, FlagsOK

LEMMA LeaveKeeps ==
  ASSUME Paired, NEW p \in Players, unit_remove_map(p)
  PROVE  Paired' /\ KeepsSeen
  <1> DEFINE stay == UNCHANGED <<flags, deal>>
  <1>1. p \in online /\ online' = online \ {p}
    BY DEF unit_remove_map
  <1>2. CASE trade_partner[p] # None /\ Cancelled(p)
    BY <1>1, <1>2, CancelKeeps DEF Leaves
  <1>3. CASE trade_partner[p] = None /\ stay
    <2>1. \A x \in Players : trade_partner[x] # p
      BY <1>3, TraderAssumption DEF Paired, FlagsOK, Mutual
    <2> QED BY <1>1, <1>3, <2>1 DEF flags, Paired, FlagsOK, Mutual, Locks, KeepsSeen
  <1> QED BY <1>2, <1>3 DEF unit_remove_map

LEMMA ReturnKeeps ==
  ASSUME Paired, NEW p \in Players, pc_reg_received(p)
  PROVE  Paired' /\ KeepsSeen
  <1>1. p \notin online /\ trade_partner[p] = None /\ ~trading[p] /\ deal_locked[p] = 0
    BY DEF pc_reg_received, Paired, FlagsOK, Mutual, Locks
  <1>2. \A x \in Players : trade_partner[x] # p
    BY <1>1, TraderAssumption DEF Paired, FlagsOK, Mutual
  <1>3. /\ UNCHANGED <<trade_partner, deal_locked>>
        /\ trading' \in [Players -> BOOLEAN]
        /\ \A x \in Players : trading'[x] <=> trading[x]
        /\ deal' = [deal EXCEPT ![p] = EmptyDeal]
    BY <1>1 DEF pc_reg_received, Paired, FlagsOK
  <1>4. FlagsOK'
    BY <1>3 DEF pc_reg_received, Paired, FlagsOK
  <1>5. Mutual'
    BY <1>2, <1>3 DEF pc_reg_received, Paired, FlagsOK, Mutual
  <1>6. Locks'
    BY <1>3 DEF Paired, FlagsOK, Locks
  <1>7. KeepsSeen
    BY <1>1, <1>2, <1>3 DEF Paired, FlagsOK, Locks, KeepsSeen
  <1> QED BY <1>4, <1>5, <1>6, <1>7 DEF Paired

LEMMA ConfirmKeeps ==
  ASSUME Paired, NEW p \in Players, HasButton(p), trade_tradecommit(p)
  PROVE  Paired' /\ KeepsSeen
  <1> DEFINE q == trade_partner[p]
             locks == [deal_locked EXCEPT ![p] = 2]
  <1>1. /\ p \in online /\ q \in online /\ trading[p] /\ deal_locked[p] > 0 /\ Stays
        /\ q \in Players /\ q # None /\ q # p /\ trade_partner[q] = p /\ trading[q]
        /\ deal_locked[q] > 0 /\ Confirm(p)
    BY PartnerIsThere DEF trade_tradecommit, HasButton, Paired, FlagsOK, Mutual, Locks, Stays
  <1>2. locks \in [Players -> 0 .. 2] /\ \A x \in Players \ {p} : locks[x] = deal_locked[x]
    BY DEF Paired, FlagsOK
  <1>3. CASE deal_locked' = locks /\ UNCHANGED <<trade_partner, trading, deal>>
    <2>1. FlagsOK' /\ Mutual'
      BY <1>1, <1>2, <1>3 DEF Paired, FlagsOK, Mutual, Stays
    <2>2. \A x \in Players : locks[x] > 0 <=> deal_locked[x] > 0
      BY <1>1 DEF Paired, FlagsOK
    <2>3. \A x \in Players \ {p} : deal_locked[x] = 2 => trade_partner[x] \in Players
      BY DEF Paired, FlagsOK, Locks
    <2>4. Locks'
      BY <1>1, <1>2, <1>3, <2>2, <2>3 DEF Paired, Locks
    <2> QED BY <1>3, <2>1, <2>4 DEF Paired, KeepsSeen
  <1>4. ASSUME NEW w \in {p, q}, CancelledAt(w, locks)
        PROVE  Paired' /\ KeepsSeen
    <2>1. Parties(w) = {p, q} /\ trading[w] /\ w \in online
      <3>1. CASE w = p
        BY <1>1, <3>1, WhoIsFreed
      <3>2. CASE w = q
        <4>1. Parties(q) = {q, trade_partner[q]}
          BY <1>1, WhoIsFreed, TraderAssumption
        <4> QED BY <1>1, <3>2, <4>1
      <3> QED BY <3>1, <3>2
    <2>2. \A x \in Players \ Parties(w) : locks[x] = deal_locked[x]
      BY <1>2, <2>1
    <2> HIDE DEF locks
    <2>3. Freed(w)
      BY <1>1, <1>2, <1>4, <2>1, <2>2, CancelFrees
    <2> QED BY <1>1, <2>1, <2>3, FreedPaired
  <1>5. CASE Exchange(p, q)
    BY <1>1, <1>5, ExchangeFrees, FreedPaired
  <1> QED BY <1>1, <1>3, <1>4, <1>5 DEF Confirm

LEMMA StutterKeeps ==
  ASSUME Paired, UNCHANGED <<online, flags, deal>>
  PROVE  Paired' /\ KeepsSeen
  BY DEF Paired, FlagsOK, Mutual, Locks, KeepsSeen, flags

LEMMA NextKeeps ==
  ASSUME Paired, Asking = {}, [Next]_vars
  PROVE  Paired' /\ KeepsSeen
  <1>1. ASSUME NEW p \in Players, trade_tradecancel(p)
        PROVE  Paired' /\ KeepsSeen
    BY <1>1, CancelKeeps DEF trade_tradecancel, Stays
  <1>2. ASSUME NEW p \in Players, NEW i \in 1 .. Slots, battle_consume_ammo(p, i)
        PROVE  Paired' /\ KeepsSeen
    BY <1>2, StutterKeeps DEF battle_consume_ammo
  <1>3. ASSUME NEW p \in Players, NEW k \in Kinds, pc_getitemfromcart(p, k)
        PROVE  Paired' /\ KeepsSeen
    BY <1>3, StutterKeeps DEF pc_getitemfromcart
  <1>4. CASE UNCHANGED vars
    BY <1>4, StutterKeeps DEF vars
  <1> QED
    BY <1>1, <1>2, <1>3, <1>4, RequestKeeps, AnswerKeeps, AddItemKeeps, AddZenyKeeps,
       LockKeeps, LeaveKeeps, ReturnKeeps, ConfirmKeeps DEF Next

-----------------------------------------------------------------------------
(* Who trades has one partner, who trades with the same player, whatever   *)
(* the order of requests, answers, cancellations, exchanges and departures *)
(* (trade.cpp:57).                                                         *)
THEOREM Pairs ==
  ASSUME Asking = {}
  PROVE  Spec => []TradingPairs
  <1>1. Paired /\ [Next]_vars => Paired'
    BY NextKeeps
  <1>2. Paired => TradingPairs
    BY TraderAssumption DEF Paired, FlagsOK, Mutual, Locks, TradingPairs, Present
  <1> QED BY InitPaired, <1>1, <1>2, PTL DEF Spec

(* From the moment a player presses TRADE until the trade ends, neither    *)
(* its partner nor the two deals change (the deal_locked tests of          *)
(* trade_tradeadditem, trade_tradeaddzeny and trade_tradecommit).          *)
THEOREM Agreement ==
  ASSUME Asking = {}
  PROVE  Spec => SeenIsFinal
  <1>1. Paired /\ [Next]_vars => Paired'
    BY NextKeeps
  <1>2. Paired /\ [Next]_vars => [KeepsSeen]_vars
    BY NextKeeps
  <1> QED BY InitPaired, <1>1, <1>2, PTL DEF Spec, SeenIsFinal

-----------------------------------------------------------------------------
(* Slots, stacks and inventories. *)

LEMMA FirstIsIn ==
  ASSUME NEW S \in SUBSET Nat, S # {}
  PROVE  First(S) \in S /\ \A j \in S : First(S) <= j
  <1>1. \E i \in S : \A j \in S : i <= j
    BY Additive!LeastElement
  <1> QED BY <1>1 DEF First

LEMMA SlotType ==
  ASSUME NEW inv \in Inventory, NEW i \in 1 .. Slots
  PROVE  /\ inv[i] = Nothing \/ inv[i] \in Stack
         /\ inv[i].amount \in 0 .. MaxAmount
         /\ inv[i].amount > 0 \/ inv[i].kind \in Kinds => inv[i] \in Stack
  BY SizesAssumption, TraderAssumption DEF Inventory, Nothing, Stack

(* What is added goes to one slot, an empty one or a stack of its kind. *)
LEMMA AddedSlot ==
  ASSUME NEW inv \in Inventory, NEW k \in Kinds, NEW n \in 1 .. MaxAmount, Takes(inv, k, n)
  PROVE  \E j \in 1 .. Slots :
           /\ inv[j] = Nothing \/ inv[j].kind = k
           /\ pc_additem(inv, k, n) =
                [inv EXCEPT ![j] = [kind |-> k, amount |-> inv[j].amount + n]]
           /\ inv[j].amount + n \in 1 .. MaxAmount
  <1> USE SizesAssumption
  <1>1. CASE StackOf(inv, k) # {}
    <2> DEFINE j == First(StackOf(inv, k))
    <2>1. j \in 1 .. Slots /\ inv[j].kind = k
      BY <1>1, FirstIsIn DEF StackOf
    <2>2. inv[j] \in Stack /\ n <= MaxAmount - inv[j].amount
      BY <1>1, <2>1, SlotType DEF Takes
    <2>3. pc_additem(inv, k, n) = [inv EXCEPT ![j].amount = @ + n]
      BY <1>1 DEF pc_additem
    <2> HIDE DEF j
    <2>4. inv[j] = [kind |-> k, amount |-> inv[j].amount]
      BY <2>1, <2>2 DEF Stack
    <2>5. [inv[j] EXCEPT !.amount = @ + n] = [kind |-> k, amount |-> inv[j].amount + n]
      BY <2>4
    <2>6. pc_additem(inv, k, n) =
            [inv EXCEPT ![j] = [kind |-> k, amount |-> inv[j].amount + n]]
      BY <2>3, <2>5
    <2>7. inv[j].amount + n \in 1 .. MaxAmount
      BY <2>2 DEF Stack
    <2> QED BY <2>1, <2>6, <2>7
  <1>2. CASE StackOf(inv, k) = {}
    <2> DEFINE j == First(Free(inv))
    <2>1. j \in 1 .. Slots /\ inv[j] = Nothing
      BY <1>2, FirstIsIn DEF Takes, Free
    <2>2. pc_additem(inv, k, n) = [inv EXCEPT ![j] = [kind |-> k, amount |-> n]]
      BY <1>2 DEF pc_additem
    <2>3. inv[j].amount + n = n
      BY <2>1 DEF Nothing
    <2> HIDE DEF j
    <2> QED BY <2>1, <2>2, <2>3
  <1> QED BY <1>1, <1>2

LEMMA AddedType ==
  ASSUME NEW inv \in Inventory, NEW k \in Kinds, NEW n \in 1 .. MaxAmount, Takes(inv, k, n)
  PROVE  /\ pc_additem(inv, k, n) \in Inventory
         /\ \A i \in 1 .. Slots : pc_additem(inv, k, n)[i].amount >= inv[i].amount
  <1>1. PICK j \in 1 .. Slots :
           /\ pc_additem(inv, k, n) =
                [inv EXCEPT ![j] = [kind |-> k, amount |-> inv[j].amount + n]]
           /\ inv[j].amount + n \in 1 .. MaxAmount
    BY AddedSlot
  <1>2. [kind |-> k, amount |-> inv[j].amount + n] \in Stack
    BY <1>1 DEF Stack
  <1>3. \A i \in 1 .. Slots : inv[i].amount \in Int
    BY SlotType, SizesAssumption
  <1> QED BY <1>1, <1>2, <1>3 DEF Inventory

LEMMA DeletedType ==
  ASSUME NEW inv \in Inventory, NEW i \in 1 .. Slots, NEW n \in 1 .. MaxAmount,
         n <= inv[i].amount
  PROVE  /\ inv[i] \in Stack
         /\ pc_delitem(inv, i, n) \in Inventory
         /\ \A j \in 1 .. Slots \ {i} : pc_delitem(inv, i, n)[j] = inv[j]
         /\ \/ pc_delitem(inv, i, n)[i] = Nothing /\ inv[i].amount = n
            \/ /\ pc_delitem(inv, i, n)[i].kind = inv[i].kind
               /\ pc_delitem(inv, i, n)[i].amount = inv[i].amount - n
  <1> USE SizesAssumption
  <1>1. inv[i] \in Stack
    BY SlotType
  <1> DEFINE r == IF inv[i].amount = n
                   THEN Nothing ELSE [kind |-> inv[i].kind, amount |-> inv[i].amount - n]
  <1>2. pc_delitem(inv, i, n) = [inv EXCEPT ![i] = r]
    BY DEF pc_delitem
  <1>3. r \in Stack \cup {Nothing}
    BY <1>1 DEF Stack
  <1>4. \/ r = Nothing /\ inv[i].amount = n
        \/ r.kind = inv[i].kind /\ r.amount = inv[i].amount - n
    BY <1>1 DEF Stack
  <1> HIDE DEF r
  <1> QED BY <1>1, <1>2, <1>3, <1>4 DEF Inventory

-----------------------------------------------------------------------------
(* How many pieces of a kind there are. *)

LEMMA SumIsFoldSum == \A f : Sum(f) = FoldSum(f)
  BY DEF Sum, FoldSum

PiecesIn(inv, k) == [i \in 1 .. Slots |-> IF inv[i].kind = k THEN inv[i].amount ELSE 0]

LEMMA PiecesType ==
  ASSUME NEW inv \in Inventory, NEW k
  PROVE  /\ PiecesIn(inv, k) \in [1 .. Slots -> Int]
         /\ InBackpack(inv, k) = FoldSum(PiecesIn(inv, k))
         /\ InBackpack(inv, k) \in Int
         /\ IsFiniteSet(1 .. Slots)
  <1>1. PiecesIn(inv, k) \in [1 .. Slots -> Int]
    BY SlotType, SizesAssumption DEF PiecesIn
  <1>2. InBackpack(inv, k) = FoldSum(PiecesIn(inv, k))
    BY SumIsFoldSum DEF InBackpack, PiecesIn
  <1>3. IsFiniteSet(1 .. Slots)
    BY FS_Interval, SizesAssumption
  <1> QED BY <1>1, <1>2, <1>3, SumType

(* One slot changes. *)
LEMMA BackpackChange ==
  ASSUME NEW inv \in Inventory, NEW new \in Inventory, NEW i \in 1 .. Slots,
         \A j \in 1 .. Slots \ {i} : new[j] = inv[j], NEW k
  PROVE  InBackpack(new, k) = InBackpack(inv, k) - PiecesIn(inv, k)[i] + PiecesIn(new, k)[i]
  <1> DEFINE f == PiecesIn(inv, k)
             g == PiecesIn(new, k)
  <1>1. \A j \in 1 .. Slots \ {i} : g[j] = f[j]
    BY DEF PiecesIn
  <1>2. /\ f \in [1 .. Slots -> Int] /\ InBackpack(inv, k) = FoldSum(f)
        /\ g \in [1 .. Slots -> Int] /\ InBackpack(new, k) = FoldSum(g)
        /\ IsFiniteSet(1 .. Slots)
    BY PiecesType
  <1> HIDE DEF f, g
  <1>3. FoldSum(g) = FoldSum(f) - f[i] + g[i]
    BY <1>1, <1>2, SumChange
  <1> QED BY <1>2, <1>3 DEF f, g

LEMMA BackpackAdded ==
  ASSUME NEW inv \in Inventory, NEW k \in Kinds, NEW n \in 1 .. MaxAmount, Takes(inv, k, n),
         NEW x \in Kinds
  PROVE  InBackpack(pc_additem(inv, k, n), x) = InBackpack(inv, x) + IF x = k THEN n ELSE 0
  <1> DEFINE new == pc_additem(inv, k, n)
  <1>1. PICK j \in 1 .. Slots :
           /\ inv[j] = Nothing \/ inv[j].kind = k
           /\ new = [inv EXCEPT ![j] = [kind |-> k, amount |-> inv[j].amount + n]]
    BY AddedSlot
  <1>2. new \in Inventory /\ inv[j].amount \in Int /\ n \in Int
    BY AddedType, SlotType, SizesAssumption
  <1>3. /\ \A i \in 1 .. Slots \ {j} : new[i] = inv[i]
        /\ new[j] = [kind |-> k, amount |-> inv[j].amount + n]
    BY <1>1 DEF Inventory
  <1>4. /\ PiecesIn(inv, x)[j] = IF inv[j].kind = x THEN inv[j].amount ELSE 0
        /\ PiecesIn(new, x)[j] = IF k = x THEN inv[j].amount + n ELSE 0
    BY <1>3 DEF PiecesIn
  <1>5. inv[j].kind # k => inv[j].amount = 0 /\ inv[j].kind \notin Kinds
    BY <1>1, TraderAssumption DEF Nothing
  <1> HIDE DEF new
  <1>6. InBackpack(new, x) = InBackpack(inv, x) - PiecesIn(inv, x)[j] + PiecesIn(new, x)[j]
    BY <1>2, <1>3, BackpackChange
  <1>7. InBackpack(inv, x) \in Int
    BY PiecesType
  <1>8. InBackpack(new, x) = InBackpack(inv, x) + IF x = k THEN n ELSE 0
    BY <1>2, <1>4, <1>5, <1>6, <1>7
  <1> QED BY <1>8 DEF new

LEMMA BackpackDeleted ==
  ASSUME NEW inv \in Inventory, NEW i \in 1 .. Slots, NEW n \in 1 .. MaxAmount,
         n <= inv[i].amount, NEW x \in Kinds
  PROVE  InBackpack(pc_delitem(inv, i, n), x)
           = InBackpack(inv, x) - IF x = inv[i].kind THEN n ELSE 0
  <1> DEFINE new == pc_delitem(inv, i, n)
  <1>1. /\ new \in Inventory
        /\ \A j \in 1 .. Slots \ {i} : new[j] = inv[j]
        /\ \/ new[i] = Nothing /\ inv[i].amount = n
           \/ new[i].kind = inv[i].kind /\ new[i].amount = inv[i].amount - n
    BY DeletedType
  <1>2. inv[i].amount \in Int /\ n \in Int /\ InBackpack(inv, x) \in Int
    BY SlotType, PiecesType, SizesAssumption
  <1> HIDE DEF new
  <1>3. /\ PiecesIn(inv, x)[i] = IF inv[i].kind = x THEN inv[i].amount ELSE 0
        /\ PiecesIn(new, x)[i] = IF new[i].kind = x THEN new[i].amount ELSE 0
    BY DEF PiecesIn
  <1>4. InBackpack(new, x) = InBackpack(inv, x) - PiecesIn(inv, x)[i] + PiecesIn(new, x)[i]
    BY <1>1, BackpackChange
  <1>5. InBackpack(new, x) = InBackpack(inv, x) - IF x = inv[i].kind THEN n ELSE 0
    <2>1. CASE new[i] = Nothing /\ inv[i].amount = n
      <3>1. PiecesIn(new, x)[i] = 0
        BY <1>3, <2>1, TraderAssumption DEF Nothing
      <3> QED BY <1>2, <1>3, <1>4, <2>1, <3>1
    <2>2. CASE new[i].kind = inv[i].kind /\ new[i].amount = inv[i].amount - n
      BY <1>2, <1>3, <1>4, <2>2
    <2> QED BY <1>1, <2>1, <2>2
  <1> QED BY <1>5 DEF new

Inventories == [Players -> Inventory]
Carts == [Players -> [Kinds -> Nat]]

LEMMA HoldingType ==
  ASSUME NEW inv \in Inventories, NEW c \in Carts, NEW k \in Kinds
  PROVE  Holding(inv, c, k) \in Int
  <1> DEFINE f == [q \in Players |-> InBackpack(inv[q], k) + c[q][k]]
  <1>1. \A q \in Players : inv[q] \in Inventory /\ c[q][k] \in Int
    BY DEF Inventories, Carts
  <1>2. \A q \in Players : InBackpack(inv[q], k) \in Int
    BY <1>1, PiecesType
  <1>3. f \in [Players -> Int] /\ Holding(inv, c, k) = FoldSum(f)
    BY <1>1, <1>2, SumIsFoldSum DEF Holding
  <1> HIDE DEF f
  <1> QED BY <1>3, PlayersAssumption, SumType

(* One player's belongings change. *)
LEMMA HoldingChange ==
  ASSUME NEW inv \in Inventories, NEW c \in Carts, NEW inv2 \in Inventories, NEW c2 \in Carts,
         NEW p \in Players, \A q \in Players \ {p} : inv2[q] = inv[q] /\ c2[q] = c[q],
         NEW k \in Kinds
  PROVE  /\ Holding(inv, c, k) \in Int
         /\ Holding(inv2, c2, k) = Holding(inv, c, k)
              - (InBackpack(inv[p], k) + c[p][k]) + (InBackpack(inv2[p], k) + c2[p][k])
  <1> DEFINE f == [q \in Players |-> InBackpack(inv[q], k) + c[q][k]]
             g == [q \in Players |-> InBackpack(inv2[q], k) + c2[q][k]]
  <1>1. \A q \in Players : /\ inv[q] \in Inventory /\ inv2[q] \in Inventory
                           /\ c[q][k] \in Int /\ c2[q][k] \in Int
    BY DEF Inventories, Carts
  <1>2. \A q \in Players : InBackpack(inv[q], k) \in Int /\ InBackpack(inv2[q], k) \in Int
    BY <1>1, PiecesType
  <1>3. f \in [Players -> Int] /\ g \in [Players -> Int]
    BY <1>1, <1>2
  <1>4. \A q \in Players \ {p} : g[q] = f[q]
    OBVIOUS
  <1>5. Holding(inv, c, k) = FoldSum(f) /\ Holding(inv2, c2, k) = FoldSum(g)
    BY SumIsFoldSum DEF Holding
  <1>6. f[p] = InBackpack(inv[p], k) + c[p][k] /\ g[p] = InBackpack(inv2[p], k) + c2[p][k]
    OBVIOUS
  <1> HIDE DEF f, g
  <1>7. FoldSum(f) \in Int /\ FoldSum(g) = FoldSum(f) - f[p] + g[p]
    BY <1>3, <1>4, PlayersAssumption, SumType, SumChange
  <1> QED BY <1>5, <1>6, <1>7

-----------------------------------------------------------------------------
(* The exchange of one entry of a deal. *)

(* A deal as the type invariant has it: each slot of an inventory once.    *)
DealOK(d) == /\ d \in Deal
             /\ Len(d.item) <= DealSlots
             /\ IsInjective([n \in DOMAIN d.item |-> d.item[n].index])

LEMMA DealEntries ==
  ASSUME NEW d, DealOK(d)
  PROVE  /\ DOMAIN d.item = 1 .. Len(d.item) /\ Len(d.item) \in Nat
         /\ \A n \in 1 .. Len(d.item) : /\ d.item[n] \in DealItem
                                        /\ d.item[n].index \in 1 .. Slots
                                        /\ d.item[n].amount \in 1 .. MaxAmount
         /\ \A n, m \in 1 .. Len(d.item) : d.item[n].index = d.item[m].index => n = m
  <1>1. d.item \in Seq(DealItem)
    BY DEF DealOK, Deal
  <1>2. DOMAIN d.item = 1 .. Len(d.item) /\ Len(d.item) \in Nat
    BY <1>1
  <1>3. \A n \in 1 .. Len(d.item) : d.item[n] \in DealItem
    BY <1>1
  <1> DEFINE f == [n \in DOMAIN d.item |-> d.item[n].index]
  <1>4. IsInjective(f)
    BY DEF DealOK
  <1>5. \A n, m \in 1 .. Len(d.item) : d.item[n].index = d.item[m].index => n = m
    BY <1>2, <1>4 DEF IsInjective
  <1> QED BY <1>2, <1>3, <1>5 DEF DealItem

(* Whatever is left of the deal of a player, it has: inv is what the       *)
(* players hold after the first n entries of both deals.                   *)
Covered(inv, p, n) ==
  \A m \in 1 .. Len(deal[p].item) :
    m > n => deal[p].item[m].amount <= inv[p][deal[p].item[m].index].amount

LEMMA CoveredLess ==
  ASSUME NEW inv, NEW p \in Players, DealOK(deal[p]), NEW n \in Nat \ {0},
         Covered(inv, p, n - 1)
  PROVE  Covered(inv, p, n)
  <1>1. Len(deal[p].item) \in Nat
    BY DealEntries
  <1>2. \A m \in 1 .. Len(deal[p].item) : m > n => m > n - 1
    BY <1>1
  <1> QED BY <1>2 DEF Covered

LEMMA GivenKeeps ==
  ASSUME NEW inv \in Inventories, NEW from \in Players, NEW to \in Players, from # to,
         NEW n \in Nat \ {0}, DealOK(deal[from]), Covered(inv, from, n - 1)
  PROVE  /\ Given(inv, from, to, n) \in Inventories
         /\ \A c \in Carts, x \in Kinds : Holding(Given(inv, from, to, n), c, x) = Holding(inv, c, x)
         /\ \A q \in Players, j \in 1 .. Slots :
              \/ q = from /\ n <= Len(deal[from].item) /\ j = deal[from].item[n].index
              \/ Given(inv, from, to, n)[q][j].amount >= inv[q][j].amount
  <1> DEFINE d == deal[from].item
             i == d[n].index
             a == d[n].amount
             k == inv[from][i].kind
             more == pc_additem(inv[to], k, a)
             less == pc_delitem(inv[from], i, a)
             mid == [inv EXCEPT ![to] = more]
             end == [inv EXCEPT ![to] = more, ![from] = less]
  <1>0. \A q \in Players, j \in 1 .. Slots : inv[q] \in Inventory /\ inv[q][j].amount \in Int
    BY SlotType, SizesAssumption DEF Inventories
  <1>1. CASE ~(n <= Len(d) /\ Takes(inv[to], k, a))
    <2>1. Given(inv, from, to, n) = inv
      BY <1>1 DEF Given
    <2> QED BY <2>1, <1>0
  <1>2. CASE n <= Len(d) /\ Takes(inv[to], k, a)
    <2>1. Given(inv, from, to, n) = end
      BY <1>2, Zenon DEF Given
    <2>2. /\ n \in 1 .. Len(d) /\ i \in 1 .. Slots /\ a \in 1 .. MaxAmount
          /\ a <= inv[from][i].amount
      <3>1. /\ Len(d) \in Nat
            /\ \A m \in 1 .. Len(d) : d[m].index \in 1 .. Slots /\ d[m].amount \in 1 .. MaxAmount
        BY DealEntries
      <3>2. \A m \in 1 .. Len(d) : m > n - 1 => d[m].amount <= inv[from][d[m].index].amount
        BY DEF Covered
      <3> HIDE DEF d
      <3>3. n \in 1 .. Len(d) /\ n > n - 1
        BY <1>2, <3>1
      <3> QED BY <3>1, <3>2, <3>3
    <2> HIDE DEF d, i, a, k, more, less, mid, end
    <2>3. /\ inv[from][i] \in Stack /\ less \in Inventory
          /\ \A j \in 1 .. Slots \ {i} : less[j] = inv[from][j]
      BY <1>0, <2>2, DeletedType DEF less
    <2>4. k \in Kinds
      BY <2>3 DEF k, Stack
    <2>5. more \in Inventory /\ \A j \in 1 .. Slots : more[j].amount >= inv[to][j].amount
      BY <1>0, <1>2, <2>2, <2>4, AddedType DEF more
    <2>6. /\ mid \in Inventories /\ end \in Inventories
          /\ mid[to] = more /\ end[from] = less /\ end[to] = more
          /\ \A q \in Players \ {to} : mid[q] = inv[q]
          /\ \A q \in Players \ {from} : end[q] = mid[q]
      BY <2>3, <2>5 DEF Inventories, mid, end
    <2>7. ASSUME NEW c \in Carts, NEW x \in Kinds
          PROVE  Holding(end, c, x) = Holding(inv, c, x)
      <3>1. InBackpack(more, x) = InBackpack(inv[to], x) + IF x = k THEN a ELSE 0
        BY <1>0, <1>2, <2>2, <2>4, BackpackAdded DEF more
      <3>2. InBackpack(less, x) = InBackpack(inv[from], x) - IF x = k THEN a ELSE 0
        BY <1>0, <2>2, BackpackDeleted DEF less, k
      <3>3. /\ Holding(inv, c, x) \in Int
            /\ Holding(mid, c, x) = Holding(inv, c, x)
                 - (InBackpack(inv[to], x) + c[to][x]) + (InBackpack(more, x) + c[to][x])
        BY <2>6, HoldingChange
      <3>4. Holding(end, c, x) = Holding(mid, c, x)
              - (InBackpack(inv[from], x) + c[from][x]) + (InBackpack(less, x) + c[from][x])
        BY <2>6, HoldingChange
      <3>5. InBackpack(inv[to], x) \in Int /\ InBackpack(inv[from], x) \in Int
        <4>1. inv[to] \in Inventory /\ inv[from] \in Inventory
          BY DEF Inventories
        <4> QED BY <4>1, PiecesType
      <3>6. c[to][x] \in Int /\ c[from][x] \in Int /\ a \in Int
        BY <2>2, SizesAssumption DEF Carts
      <3> QED BY <3>1, <3>2, <3>3, <3>4, <3>5, <3>6
    <2>8. ASSUME NEW q \in Players, NEW j \in 1 .. Slots, q # from \/ j # i
          PROVE  end[q][j].amount >= inv[q][j].amount
      <3>1. CASE q = from
        BY <1>0, <2>3, <2>6, <2>8, <3>1
      <3>2. CASE q = to
        BY <2>5, <2>6, <3>2
      <3>3. CASE q # from /\ q # to
        BY <1>0, <2>6, <3>3
      <3> QED BY <3>1, <3>2, <3>3
    <2> QED BY <1>2, <2>1, <2>6, <2>7, <2>8 DEF d, i
  <1> QED BY <1>1, <1>2

(* What is still covered of a deal stays covered.                          *)
LEMMA GivenCovered ==
  ASSUME NEW inv \in Inventories, NEW from \in Players, NEW to \in Players, from # to,
         NEW n \in Nat \ {0}, DealOK(deal[from]), Covered(inv, from, n - 1),
         NEW p \in Players, DealOK(deal[p]), NEW m \in Nat, Covered(inv, p, m),
         p = from => m >= n
  PROVE  Covered(Given(inv, from, to, n), p, m)
  <1> DEFINE d == deal[p].item
             new == Given(inv, from, to, n)
  <1> SUFFICES ASSUME NEW e \in 1 .. Len(d), e > m
               PROVE  d[e].amount <= new[p][d[e].index].amount
    BY DEF Covered
  <1>1. d[e].index \in 1 .. Slots /\ d[e].amount \in Int /\ e \in Nat
    BY DealEntries, SizesAssumption
  <1>2. d[e].amount <= inv[p][d[e].index].amount
    BY DEF Covered
  <1>3. ~(p = from /\ n <= Len(deal[from].item) /\ d[e].index = deal[from].item[n].index)
    BY DealEntries
  <1>4. new[p][d[e].index].amount >= inv[p][d[e].index].amount
    BY <1>1, <1>3, GivenKeeps
  <1>5. new \in Inventories
    BY GivenKeeps
  <1>6. new[p][d[e].index].amount \in Int /\ inv[p][d[e].index].amount \in Int
    <2> DEFINE i == d[e].index
    <2>1. new[p] \in Inventory /\ inv[p] \in Inventory /\ i \in 1 .. Slots
      BY <1>1, <1>5 DEF Inventories
    <2> HIDE DEF new, d, i
    <2>2. new[p][i].amount \in 0 .. MaxAmount
      BY <2>1, SlotType
    <2>3. inv[p][i].amount \in 0 .. MaxAmount
      BY <2>1, SlotType
    <2>4. new[p][i].amount \in Int /\ inv[p][i].amount \in Int
      BY <2>2, <2>3, SizesAssumption
    <2> QED BY <2>4 DEF i
  <1> QED BY <1>1, <1>2, <1>4, <1>6

(* The exchange, entry by entry: the recursive function exists, and what   *)
(* it returns holds as much as before.                                     *)
SwapStep(g, p, q, n) ==
  IF n = 0 THEN inventory ELSE Given(Given(g[n - 1], p, q, n), q, p, n)
Swaps(g, p, q, N) == g = [n \in 0 .. N |-> SwapStep(g, p, q, n)]

LEMMA SwapExists ==
  ASSUME NEW p, NEW q
  PROVE  \A N \in Nat : \E g : Swaps(g, p, q, N)
  <1> DEFINE Bad == {n \in Nat : ~\E g : Swaps(g, p, q, n)}
  <1>1. SUFFICES ASSUME Bad # {} PROVE FALSE
    OBVIOUS
  <1>2. PICK n \in Bad : \A k \in Bad : n <= k
    BY <1>1, Additive!LeastElement
  <1>3. n \in Nat /\ ~\E g : Swaps(g, p, q, n)
    BY <1>2
  <1>4. CASE n = 0
    <2> DEFINE g == [m \in 0 .. 0 |-> inventory]
    <2>1. Swaps(g, p, q, 0)
      BY DEF Swaps, SwapStep
    <2> QED BY <1>3, <1>4, <2>1
  <1>5. CASE n # 0
    <2>1. n - 1 \in Nat /\ n - 1 \notin Bad
      BY <1>2, <1>3, <1>5
    <2>2. PICK g : Swaps(g, p, q, n - 1)
      BY <2>1
    <2> DEFINE h == [m \in 0 .. n |-> SwapStep(g, p, q, m)]
    <2>3. \A m \in 0 .. n - 1 : h[m] = g[m]
      BY <1>3, <2>1, <2>2 DEF Swaps
    <2>4. \A m \in 0 .. n : m # 0 => m - 1 \in 0 .. n - 1
      BY <1>3
    <2>5. \A m \in 0 .. n : h[m] = SwapStep(g, p, q, m)
      OBVIOUS
    <2>6. h = [m \in 0 .. n |-> h[m]]
      OBVIOUS
    <2> HIDE DEF h
    <2>7. \A m \in 0 .. n : SwapStep(g, p, q, m) = SwapStep(h, p, q, m)
      BY <2>3, <2>4 DEF SwapStep
    <2>8. h = [m \in 0 .. n |-> SwapStep(h, p, q, m)]
      BY <2>5, <2>6, <2>7
    <2>9. Swaps(h, p, q, n)
      BY <2>8 DEF Swaps
    <2> QED BY <1>3, <2>9
  <1> QED BY <1>4, <1>5

LEMMA SwapKeeps ==
  ASSUME NEW p \in Players, NEW q \in Players, p # q, inventory \in Inventories,
         DealOK(deal[p]), DealOK(deal[q]), HasDeal(p), HasDeal(q)
  PROVE  /\ Swapped(p, q) \in Inventories
         /\ \A c \in Carts, x \in Kinds :
              Holding(Swapped(p, q), c, x) = Holding(inventory, c, x)
  <1> USE SizesAssumption
  <1> DEFINE swap == CHOOSE g : Swaps(g, p, q, DealSlots)
             Fine(n) == /\ swap[n] \in Inventories
                        /\ Covered(swap[n], p, n) /\ Covered(swap[n], q, n)
                        /\ \A c \in Carts, x \in Kinds :
                             Holding(swap[n], c, x) = Holding(inventory, c, x)
             Bad == {n \in 0 .. DealSlots : ~Fine(n)}
  <1>1. Swapped(p, q) = swap[DealSlots]
    BY DEF Swapped, Swaps, SwapStep
  <1>2. Swaps(swap, p, q, DealSlots)
    BY SwapExists
  <1> HIDE DEF swap
  <1>3. \A n \in 0 .. DealSlots : swap[n] = SwapStep(swap, p, q, n)
    BY <1>2 DEF Swaps
  <1>4. Bad = {}
    <2> SUFFICES ASSUME Bad # {} PROVE FALSE
      OBVIOUS
    <2>1. Bad \in SUBSET Nat
      OBVIOUS
    <2>2. PICK n \in Bad : \A k \in Bad : n <= k
      BY <2>1, Additive!LeastElement
    <2>3. n \in 0 .. DealSlots /\ ~Fine(n)
      BY <2>2
    <2>4. CASE n = 0
      <3>1. swap[0] = inventory
        BY <1>3, <2>3, <2>4 DEF SwapStep
      <3>2. Covered(inventory, p, 0) /\ Covered(inventory, q, 0)
        BY DealEntries DEF HasDeal, Covered
      <3> QED BY <2>3, <2>4, <3>1, <3>2
    <2>5. CASE n # 0
      <3> DEFINE a == swap[n - 1]
                 b == Given(a, p, q, n)
                 c == Given(b, q, p, n)
      <3>1. n \in Nat \ {0} /\ n - 1 \in Nat /\ n - 1 \in 0 .. DealSlots
        BY <2>3, <2>5
      <3>2. Fine(n - 1)
        <4> HIDE DEF Fine
        <4> QED BY <2>2, <3>1
      <3>3. swap[n] = c
        BY <1>3, <2>3, <2>5 DEF SwapStep
      <3>4. a \in Inventories /\ Covered(a, p, n - 1) /\ Covered(a, q, n - 1)
        BY <3>2
      <3>5. Covered(a, p, n)
        BY <3>1, <3>4, CoveredLess
      <3> HIDE DEF a, b, c
      <3>6. /\ b \in Inventories /\ Covered(b, p, n) /\ Covered(b, q, n - 1)
            /\ \A k \in Carts, x \in Kinds : Holding(b, k, x) = Holding(a, k, x)
        <4>1. /\ b \in Inventories
              /\ \A k \in Carts, x \in Kinds : Holding(b, k, x) = Holding(a, k, x)
          BY <3>1, <3>4, GivenKeeps DEF b
        <4>2. Covered(b, p, n)
          BY <3>1, <3>4, <3>5, GivenCovered DEF b
        <4>3. Covered(b, q, n - 1)
          BY <3>1, <3>4, GivenCovered DEF b
        <4> QED BY <4>1, <4>2, <4>3
      <3>7. Covered(b, q, n)
        BY <3>1, <3>6, CoveredLess
      <3>8. /\ c \in Inventories /\ Covered(c, p, n) /\ Covered(c, q, n)
            /\ \A k \in Carts, x \in Kinds : Holding(c, k, x) = Holding(b, k, x)
        <4>1. /\ c \in Inventories
              /\ \A k \in Carts, x \in Kinds : Holding(c, k, x) = Holding(b, k, x)
          BY <3>1, <3>6, GivenKeeps DEF c
        <4>2. Covered(c, q, n)
          BY <3>1, <3>6, <3>7, GivenCovered DEF c
        <4>3. Covered(c, p, n)
          BY <3>1, <3>6, GivenCovered DEF c
        <4> QED BY <4>1, <4>2, <4>3
      <3>9. Fine(n)
        BY <3>2, <3>3, <3>6, <3>8 DEF a
      <3> QED BY <2>3, <3>9
    <2> QED BY <2>4, <2>5
  <1>5. DealSlots \in 0 .. DealSlots
    OBVIOUS
  <1>6. Fine(DealSlots)
    BY <1>4, <1>5
  <1> QED BY <1>1, <1>6

-----------------------------------------------------------------------------
(* Types.  No assumption on who asks when: a partner may have another one. *)

FlagTypes == /\ online \subseteq Players
             /\ trade_partner \in [Players -> Players \cup {None}]
             /\ trading \in [Players -> BOOLEAN]
             /\ deal_locked \in [Players -> 0 .. 2]
DealTypes == deal \in [Players -> Deal] /\ \A p \in Players : DealOK(deal[p])
GoodsTypes == /\ inventory \in Inventories /\ cart \in Carts
              /\ zeny \in [Players -> 0 .. MaxZeny]
NotAlone == \A p \in Players : trade_partner[p] # p

LEMMA TypeParts == TypeOK <=> FlagTypes /\ DealTypes /\ GoodsTypes
  BY DEF TypeOK, FlagTypes, DealTypes, GoodsTypes, DealOK, Inventories, Carts

LEMMA EmptyDealOK == DealOK(EmptyDeal)
  BY SizesAssumption DEF DealOK, Deal, EmptyDeal, IsInjective

LEMMA CancelTypes ==
  ASSUME FlagTypes, DealTypes, NotAlone, NEW w \in Players, NEW locks \in [Players -> 0 .. 2],
         CancelledAt(w, locks)
  PROVE  /\ trade_partner' \in [Players -> Players \cup {None}]
         /\ trading' \in [Players -> BOOLEAN]
         /\ deal_locked' \in [Players -> 0 .. 2]
         /\ NotAlone' /\ DealTypes'
  <1>1. trade_partner' \in [Players -> Players \cup {None}] /\ NotAlone'
    BY TraderAssumption DEF CancelledAt, Without, FlagTypes, NotAlone
  <1>2. trading' \in [Players -> BOOLEAN]
    BY DEF CancelledAt, FlagTypes
  <1>3. deal_locked' \in [Players -> 0 .. 2]
    BY DEF CancelledAt, Reset, FlagTypes
  <1>4. DealTypes'
    BY EmptyDealOK DEF CancelledAt, DealTypes, DealOK
  <1> QED BY <1>1, <1>2, <1>3, <1>4

LEMMA MakesDeal ==
  ASSUME NEW d \in Deal, Len(d.item) <= DealSlots,
         \A m, k \in 1 .. Len(d.item) : d.item[m].index = d.item[k].index => m = k
  PROVE  DealOK(d)
  <1>1. DOMAIN d.item = 1 .. Len(d.item)
    BY DEF Deal
  <1> QED BY <1>1 DEF DealOK, IsInjective

LEMMA EntryFacts ==
  ASSUME DealTypes, NEW p \in Players, NEW i \in 1 .. Slots
  PROVE  LET d == deal[p].item
             e == Entry(p, i)
         IN  /\ e \in 1 .. Len(d) + 1
             /\ e \in 1 .. Len(d) => d[e].index = i
             /\ e = Len(d) + 1 => \A n \in 1 .. Len(d) : d[n].index # i
  <1> DEFINE d == deal[p].item
             there == {n \in DOMAIN d : d[n].index = i}
  <1>1. DOMAIN d = 1 .. Len(d) /\ Len(d) \in Nat
    BY DealEntries DEF DealTypes
  <1>2. CASE there # {}
    <2>1. there \in SUBSET Nat /\ \A n \in there : n \in 1 .. Len(d) /\ d[n].index = i
      BY <1>1
    <2>2. Entry(p, i) = First(there)
      BY <1>2 DEF Entry
    <2> HIDE DEF there
    <2>3. First(there) \in there
      BY <1>2, <2>1, FirstIsIn
    <2>4. Entry(p, i) \in 1 .. Len(d) /\ d[Entry(p, i)].index = i
      BY <2>1, <2>2, <2>3
    <2>5. Entry(p, i) \in 1 .. Len(d) + 1 /\ Entry(p, i) # Len(d) + 1
      BY <1>1, <2>4
    <2> QED BY <2>4, <2>5
  <1>3. CASE there = {}
    <2>1. Entry(p, i) = Len(d) + 1
      BY <1>3 DEF Entry
    <2> QED BY <1>1, <1>3, <2>1
  <1> QED BY <1>2, <1>3

LEMMA AddItemDeal ==
  ASSUME TypeOK, NEW p \in Players, NEW i \in 1 .. Slots, NEW n \in Pieces, AddItem(p, i, n)
  PROVE  \E d : DealOK(d) /\ deal' = [deal EXCEPT ![p] = d]
  <1> USE SizesAssumption
  <1> DEFINE s == inventory[p][i]
             d == deal[p]
             e == Entry(p, i)
             new == e > Len(d.item)
             more == IF ~new /\ d.item[e].amount + n > s.amount
                       THEN s.amount - d.item[e].amount ELSE n
             items == IF new THEN Append(d.item, [index |-> i, amount |-> n])
                             ELSE [d.item EXCEPT ![e].amount = @ + more]
             w == d.weight + Load(s.kind, more)
             d2 == [d EXCEPT !.weight = w, !.item = items]
  <1>1. /\ 0 < n /\ n <= s.amount /\ e <= DealSlots
        /\ deal' = [deal EXCEPT ![p].weight = w, ![p].item = items]
    BY DEF AddItem
  <1>2. /\ DealOK(d) /\ n \in Nat /\ DealTypes
        /\ s \in Stack /\ s.amount \in 1 .. MaxAmount /\ s.kind \in Kinds
    <2>1. inventory[p] \in Inventory
      BY TypeParts DEF GoodsTypes, Inventories
    <2>2. s \in Stack
      BY <1>1, <2>1, SlotType
    <2> QED BY <2>2, TypeParts DEF DealTypes, Stack
  <1>3. /\ e \in 1 .. Len(d.item) + 1
        /\ e \in 1 .. Len(d.item) => d.item[e].index = i
        /\ e = Len(d.item) + 1 => \A m \in 1 .. Len(d.item) : d.item[m].index # i
    BY <1>2, EntryFacts
  <1>4. /\ DOMAIN d.item = 1 .. Len(d.item) /\ Len(d.item) \in Nat
        /\ d.item \in Seq(DealItem) /\ d \in Deal
        /\ \A m \in 1 .. Len(d.item) : d.item[m] \in DealItem
        /\ \A m, k \in 1 .. Len(d.item) : d.item[m].index = d.item[k].index => m = k
    BY <1>2, DealEntries DEF DealOK, Deal
  <1>5. deal' = [deal EXCEPT ![p] = d2]
    BY <1>1, TypeParts DEF DealTypes
  <1> HIDE DEF s, d, e
  <1>6. CASE new
    <2> DEFINE it == [index |-> i, amount |-> n]
    <2>1. e = Len(d.item) + 1 /\ items = Append(d.item, it) /\ more = n
      BY <1>3, <1>4, <1>6
    <2>2. it \in DealItem
      BY <1>1, <1>2 DEF DealItem
    <2>3. items \in Seq(DealItem) /\ Len(items) = Len(d.item) + 1
      BY <1>4, <2>1, <2>2
    <2>4. /\ \A m \in 1 .. Len(d.item) : items[m] = d.item[m]
          /\ items[Len(d.item) + 1] = it
      BY <1>4, <2>1, <2>2
    <2>5. \A m, k \in 1 .. Len(items) : items[m].index = items[k].index => m = k
      BY <1>3, <1>4, <2>1, <2>3, <2>4
    <2>6. w \in Int
      BY <1>2, <1>4, <2>1, KindsAssumption DEF Load, Deal
    <2> HIDE DEF items, w, it, more, new
    <2>7. d2 \in Deal /\ d2.item = items
      BY <1>4, <2>3, <2>6 DEF Deal
    <2> HIDE DEF d2
    <2>8. DealOK(d2)
      BY <1>1, <2>1, <2>3, <2>5, <2>7, MakesDeal
    <2> QED BY <1>5, <2>8
  <1>7. CASE ~new
    <2> DEFINE old == d.item[e]
               it == [index |-> i, amount |-> old.amount + more]
    <2>1. e \in 1 .. Len(d.item) /\ old \in DealItem /\ old.index = i
      BY <1>3, <1>4, <1>7
    <2>2. more \in Int /\ old.amount + more \in 1 .. MaxAmount
      BY <1>1, <1>2, <1>7, <2>1 DEF DealItem
    <2> HIDE DEF more
    <2>3. items = [d.item EXCEPT ![e] = it]
      <3>1. [old EXCEPT !.amount = @ + more] = it
        BY <2>1 DEF DealItem
      <3>2. items = [d.item EXCEPT ![e] = [old EXCEPT !.amount = @ + more]]
        BY <1>7
      <3> QED BY <3>1, <3>2
    <2>4. it \in DealItem
      BY <2>2 DEF DealItem
    <2> HIDE DEF items, it, new, old
    <2>5. items \in Seq(DealItem) /\ Len(items) = Len(d.item)
      BY <1>4, <2>1, <2>3, <2>4
    <2>6. \A m \in 1 .. Len(d.item) : items[m].index = d.item[m].index
      BY <1>4, <2>1, <2>3 DEF it, old
    <2>7. \A m, k \in 1 .. Len(items) : items[m].index = items[k].index => m = k
      BY <1>4, <2>5, <2>6
    <2>8. w \in Int
      BY <1>2, <1>4, <2>2, KindsAssumption DEF Load, Deal
    <2> HIDE DEF w
    <2>9. d2 \in Deal /\ d2.item = items
      BY <1>4, <2>5, <2>8 DEF Deal
    <2> HIDE DEF d2
    <2>10. Len(d.item) <= DealSlots
      BY <1>2 DEF DealOK
    <2>11. DealOK(d2)
      BY <2>5, <2>7, <2>9, <2>10, MakesDeal
    <2> QED BY <1>5, <2>11
  <1> QED BY <1>6, <1>7

(* Every action leaves flags and deals well typed. *)
LEMMA FlagsStep ==
  ASSUME TypeOK, NotAlone, [Next]_vars
  PROVE  FlagTypes' /\ NotAlone' /\ DealTypes'
  <1> DEFINE Good == FlagTypes' /\ NotAlone' /\ DealTypes'
  <1> USE TypeParts
  <1>0. FlagTypes /\ DealTypes /\ None \notin Players
    BY TraderAssumption
  <1>1. ASSUME UNCHANGED <<online, flags, deal>> PROVE Good
    BY <1>0, <1>1 DEF flags, FlagTypes, NotAlone, DealTypes, DealOK
  <1>2. ASSUME NEW p \in Players, UNCHANGED online, Cancelled(p) PROVE Good
    BY <1>0, <1>2, CancelTypes DEF Cancelled, FlagTypes
  <1>3. ASSUME NEW p \in Players, UNCHANGED <<online, flags>>,
               \E d : DealOK(d) /\ deal' = [deal EXCEPT ![p] = d]
        PROVE  Good
    <2>1. PICK d : DealOK(d) /\ deal' = [deal EXCEPT ![p] = d]
      BY <1>3
    <2>2. d \in Deal
      BY <2>1 DEF DealOK
    <2>3. DealTypes'
      BY <1>0, <2>1, <2>2 DEF DealTypes, DealOK
    <2> QED BY <1>0, <1>3, <2>3 DEF flags, FlagTypes, NotAlone
  <1>4. ASSUME NEW p \in Players, NEW q \in Players, trade_traderequest(p, q) PROVE Good
    <2> DEFINE cleared == [x \in Players |->
                 IF x \in (IF Present(p) THEN {p, trade_partner[p]} ELSE {p})
                   THEN None ELSE trade_partner[x]]
    <2>1. /\ cleared \in [Players -> Players \cup {None}]
          /\ \A x \in Players : cleared[x] # x
      BY <1>0 DEF FlagTypes, NotAlone
    <2>2. /\ UNCHANGED <<online, trading, deal_locked, deal>> /\ p # q
          /\ \/ trade_partner' = cleared
             \/ trade_partner' = [cleared EXCEPT ![p] = q, ![q] = p]
      BY <1>4 DEF trade_traderequest
    <2> HIDE DEF cleared
    <2>3. trade_partner' \in [Players -> Players \cup {None}] /\ NotAlone'
      BY <2>1, <2>2 DEF NotAlone
    <2> QED BY <1>0, <2>2, <2>3 DEF FlagTypes, DealTypes, DealOK
  <1>5. ASSUME NEW p \in Players, trade_tradeack(p) PROVE Good
    <2> DEFINE q == trade_partner[p]
    <2>1. q \in Players /\ UNCHANGED online
      BY <1>0, <1>5 DEF trade_tradeack, FlagTypes
    <2>2. ASSUME NEW S, Without(S)
          PROVE  trade_partner' \in [Players -> Players \cup {None}] /\ NotAlone'
      BY <1>0, <2>2 DEF Without, FlagTypes, NotAlone
    <2>3. CASE \E S : Without(S) /\ UNCHANGED <<trading, deal_locked, deal>>
      BY <1>0, <2>1, <2>2, <2>3 DEF FlagTypes, DealTypes, DealOK
    <2>4. CASE TradeRefused(p, q)
      <3>1. deal_locked' \in [Players -> 0 .. 2]
        BY <1>0, <2>4 DEF TradeRefused, Reset, FlagTypes
      <3>2. trade_partner' \in [Players -> Players \cup {None}] /\ NotAlone'
        BY <2>2, <2>4 DEF TradeRefused
      <3> QED BY <1>0, <2>1, <2>4, <3>1, <3>2 DEF TradeRefused, FlagTypes, DealTypes, DealOK
    <2>5. CASE TradeStarts(p, q)
      <3>1. EmptyDeal \in Deal
        BY EmptyDealOK DEF DealOK
      <3>2. DealTypes'
        BY <1>0, <2>1, <2>5, <3>1, EmptyDealOK DEF TradeStarts, DealTypes, DealOK
      <3> QED BY <1>0, <2>1, <2>5, <3>2 DEF TradeStarts, FlagTypes, NotAlone
    <2> QED BY <1>5, <2>3, <2>4, <2>5 DEF trade_tradeack
  <1>6. ASSUME NEW p \in Players, NEW i \in 1 .. Slots, NEW n \in Pieces,
               trade_tradeadditem(p, i, n)
        PROVE  Good
    <2>1. CASE AddItem(p, i, n)
      <3>1. UNCHANGED <<online, flags>>
        BY <1>6, <2>1 DEF trade_tradeadditem, AddItem
      <3> QED BY <1>3, <2>1, <3>1, AddItemDeal
    <2>2. CASE Cancelled(p)
      BY <1>2, <1>6, <2>2 DEF trade_tradeadditem
    <2> QED BY <1>6, <2>1, <2>2 DEF trade_tradeadditem, WithPartner
  <1>7. ASSUME NEW p \in Players, NEW n \in 0 .. MaxZeny, trade_tradeaddzeny(p, n) PROVE Good
    <2>1. CASE deal' = [deal EXCEPT ![p].zeny = n] /\ UNCHANGED flags
      <3> DEFINE d == [deal[p] EXCEPT !.zeny = n]
      <3>1. deal' = [deal EXCEPT ![p] = d]
        BY <1>0, <2>1 DEF DealTypes
      <3>2. d \in Deal /\ d.item = deal[p].item
        BY <1>0 DEF DealTypes, Deal
      <3>3. DealOK(deal[p])
        BY <1>0 DEF DealTypes
      <3> HIDE DEF d
      <3>4. DealOK(d)
        BY <3>2, <3>3 DEF DealOK
      <3> QED BY <1>3, <1>7, <2>1, <3>1, <3>4 DEF trade_tradeaddzeny
    <2>2. CASE Cancelled(p)
      BY <1>2, <1>7, <2>2 DEF trade_tradeaddzeny
    <2> QED BY <1>7, <2>1, <2>2 DEF trade_tradeaddzeny, WithPartner, AddZeny
  <1>8. ASSUME NEW p \in Players, trade_tradeok(p) PROVE Good
    <2>1. CASE Lock(p)
      BY <1>0, <1>8, <2>1 DEF trade_tradeok, Lock, FlagTypes, NotAlone, DealTypes, DealOK
    <2>2. CASE Cancelled(p)
      BY <1>2, <1>8, <2>2 DEF trade_tradeok
    <2> QED BY <1>8, <2>1, <2>2 DEF trade_tradeok, WithPartner
  <1>9. ASSUME NEW p \in Players, trade_tradecommit(p) PROVE Good
    <2> DEFINE q == trade_partner[p]
               locks == [deal_locked EXCEPT ![p] = 2]
    <2>1. CASE ~Present(p)
      BY <1>2, <1>9, <2>1 DEF trade_tradecommit
    <2>2. CASE Present(p)
      <3>1. q \in Players /\ UNCHANGED online /\ Confirm(p)
        BY <1>0, <1>9, <2>2 DEF trade_tradecommit, Present, FlagTypes
      <3>2. locks \in [Players -> 0 .. 2]
        BY <1>0 DEF FlagTypes
      <3>3. CASE deal_locked' = locks /\ UNCHANGED <<trade_partner, trading, deal>>
        BY <1>0, <3>1, <3>2, <3>3 DEF FlagTypes, NotAlone, DealTypes, DealOK
      <3>4. CASE CancelledAt(IF HasDeal(p) /\ ~HasDeal(q) THEN q ELSE p, locks)
        <4> HIDE DEF locks
        <4> QED BY <1>0, <3>1, <3>2, <3>4, CancelTypes DEF FlagTypes
      <3>5. CASE Exchange(p, q)
        <4>1. EmptyDeal \in Deal
          BY EmptyDealOK DEF DealOK
        <4>2. DealTypes'
          BY <1>0, <3>1, <3>5, <4>1, EmptyDealOK DEF Exchange, DealTypes, DealOK
        <4>3. trade_partner' \in [Players -> Players \cup {None}] /\ NotAlone'
          BY <1>0, <3>5 DEF Exchange, Without, FlagTypes, NotAlone
        <4>4. trading' \in [Players -> BOOLEAN]
          BY <1>0, <3>5 DEF Exchange, FlagTypes
        <4>5. deal_locked' = [x \in Players |-> IF x \in {p, q} THEN 0 ELSE deal_locked[x]]
          BY <3>5 DEF Exchange, Reset
        <4>6. deal_locked' \in [Players -> 0 .. 2]
          BY <1>0, <4>5 DEF FlagTypes
        <4> QED BY <1>0, <3>1, <4>2, <4>3, <4>4, <4>6 DEF FlagTypes
      <3> QED BY <3>1, <3>3, <3>4, <3>5 DEF Confirm
    <2> QED BY <2>1, <2>2
  <1>10. ASSUME NEW p \in Players, unit_remove_map(p) PROVE Good
    <2>1. online' \subseteq Players
      BY <1>0, <1>10 DEF unit_remove_map, FlagTypes
    <2>2. CASE Cancelled(p)
      BY <1>0, <2>1, <2>2, CancelTypes DEF Cancelled, FlagTypes
    <2>3. CASE UNCHANGED <<flags, deal>>
      BY <1>0, <2>1, <2>3 DEF flags, FlagTypes, NotAlone, DealTypes, DealOK
    <2> QED BY <1>10, <2>2, <2>3 DEF unit_remove_map
  <1>11. ASSUME NEW p \in Players, pc_reg_received(p) PROVE Good
    <2>1. EmptyDeal \in Deal
      BY EmptyDealOK DEF DealOK
    <2>2. DealTypes'
      BY <1>0, <1>11, <2>1, EmptyDealOK DEF pc_reg_received, DealTypes, DealOK
    <2>3. trade_partner' \in [Players -> Players \cup {None}] /\ NotAlone'
      BY <1>0, <1>11 DEF pc_reg_received, FlagTypes, NotAlone
    <2>4. trading' \in [Players -> BOOLEAN] /\ deal_locked' \in [Players -> 0 .. 2]
      BY <1>0, <1>11 DEF pc_reg_received, FlagTypes
    <2> QED BY <1>0, <1>11, <2>2, <2>3, <2>4 DEF pc_reg_received, FlagTypes
  <1>12. ASSUME NEW p \in Players, trade_tradecancel(p) PROVE Good
    BY <1>2, <1>12 DEF trade_tradecancel
  <1>13. ASSUME NEW p \in Players,
                \/ \E i \in 1 .. Slots : battle_consume_ammo(p, i)
                \/ \E k \in Kinds : pc_getitemfromcart(p, k)
         PROVE  Good
    BY <1>1, <1>13 DEF battle_consume_ammo, pc_getitemfromcart
  <1>14. CASE UNCHANGED vars
    BY <1>1, <1>14 DEF vars
  <1> HIDE DEF Good
  <1>15. ASSUME Next PROVE Good
    <2>1. PICK p \in Players :
            \/ \E q \in Players : trade_traderequest(p, q)
            \/ trade_tradeack(p)
            \/ \E i \in 1 .. Slots : \/ \E n \in Pieces : trade_tradeadditem(p, i, n)
                                     \/ battle_consume_ammo(p, i)
            \/ \E n \in 0 .. MaxZeny : trade_tradeaddzeny(p, n)
            \/ trade_tradeok(p)
            \/ trade_tradecancel(p)
            \/ HasButton(p) /\ trade_tradecommit(p)
            \/ unit_remove_map(p)
            \/ pc_reg_received(p)
            \/ \E k \in Kinds : pc_getitemfromcart(p, k)
      BY <1>15 DEF Next
    <2> QED BY <2>1, <1>4, <1>5, <1>6, <1>7, <1>8, <1>9, <1>10, <1>11, <1>12, <1>13
  <1> QED BY <1>14, <1>15 DEF Good

-----------------------------------------------------------------------------
(* What the players hold.                                                  *)

Purses == [Players -> 0 .. MaxZeny]

LEMMA PaidKeeps ==
  ASSUME NEW z \in Purses, NEW from \in Players, NEW to \in Players, from # to,
         NEW n \in Nat, n <= z[from], z[to] + n <= MaxZeny
  PROVE  /\ Paid(z, from, to, n) \in Purses
         /\ Paid(z, from, to, n)[from] = z[from] - n
         /\ Paid(z, from, to, n)[to] = z[to] + n
         /\ Sum(Paid(z, from, to, n)) = Sum(z)
  <1> USE SizesAssumption
  <1> DEFINE y == [z EXCEPT ![from] = @ - n]
             x == [y EXCEPT ![to] = @ + n]
  <1>1. z[from] \in 0 .. MaxZeny /\ z[to] \in 0 .. MaxZeny
    BY DEF Purses
  <1>2. y \in Purses /\ y[from] = z[from] - n /\ y[to] = z[to]
    BY <1>1 DEF Purses
  <1>3. x \in Purses /\ x[from] = z[from] - n /\ x[to] = z[to] + n
    BY <1>1, <1>2 DEF Purses
  <1>4. Paid(z, from, to, n) = x
    <2>1. pc_payzeny(z, from, n) = y
      BY DEF pc_payzeny
    <2>2. Least(MaxZeny, y[to] + n) = y[to] + n
      BY <1>1, <1>2 DEF Least
    <2> HIDE DEF y
    <2>3. pc_getzeny(y, to, n) = x
      BY <2>2 DEF pc_getzeny
    <2> QED BY <2>1, <2>3 DEF Paid
  <1>5. /\ \A p \in Players \ {from} : y[p] = z[p]
        /\ \A p \in Players \ {to} : x[p] = y[p]
    BY <1>2 DEF Purses
  <1> HIDE DEF y, x
  <1>6. z \in [Players -> Int] /\ y \in [Players -> Int] /\ x \in [Players -> Int]
    BY <1>2, <1>3 DEF Purses
  <1>7. FoldSum(z) \in Int
    BY <1>6, PlayersAssumption, SumType
  <1>8. FoldSum(y) = FoldSum(z) - z[from] + y[from]
    BY <1>5, <1>6, PlayersAssumption, SumChange
  <1>9. FoldSum(x) = FoldSum(y) - y[to] + x[to]
    BY <1>5, <1>6, PlayersAssumption, SumChange
  <1>10. FoldSum(x) = FoldSum(z)
    BY <1>1, <1>2, <1>3, <1>7, <1>8, <1>9
  <1> QED BY <1>3, <1>4, <1>10, SumIsFoldSum

(* The exchange of two deals that were found sound.                        *)
LEMMA ExchangeConserves ==
  ASSUME TypeOK, Conserved, NEW p \in Players, NEW q \in Players, p # q,
         Sound(p, q), Exchange(p, q)
  PROVE  GoodsTypes' /\ Conserved'
  <1> USE TypeParts
  <1>1. GoodsTypes /\ DealOK(deal[p]) /\ DealOK(deal[q])
    BY DEF DealTypes
  <1>2. /\ inventory' \in Inventories
        /\ \A c \in Carts, x \in Kinds : Holding(inventory', c, x) = Holding(inventory, c, x)
        /\ cart' = cart
    BY <1>1, SwapKeeps DEF Exchange, Sound, GoodsTypes
  <1> DEFINE n == deal[p].zeny
             m == deal[q].zeny
             z == Paid(zeny, p, q, n)
  <1>3. /\ zeny \in Purses /\ n \in Nat /\ m \in Nat
        /\ n <= zeny[p] /\ zeny[q] + n <= MaxZeny
        /\ m <= zeny[q] /\ zeny[p] + m <= MaxZeny
        /\ zeny[p] \in Int /\ zeny[q] \in Int
    <2>1. n \in 0 .. MaxZeny /\ m \in 0 .. MaxZeny
      BY <1>1 DEF DealOK, Deal
    <2>2. zeny \in Purses /\ zeny[p] \in 0 .. MaxZeny /\ zeny[q] \in 0 .. MaxZeny
      BY <1>1 DEF GoodsTypes, Purses
    <2>3. n <= zeny[p] /\ m <= zeny[q]
      BY DEF Sound, HasDeal
    <2>4. zeny[q] <= MaxZeny - n /\ zeny[p] <= MaxZeny - m
      BY DEF Sound, trade_check
    <2> QED BY <2>1, <2>2, <2>3, <2>4, SizesAssumption
  <1>4. zeny' = Paid(z, q, p, m)
    BY DEF Exchange
  <1> HIDE DEF n, m
  <1>5. z \in Purses /\ z[p] = zeny[p] - n /\ z[q] = zeny[q] + n /\ Sum(z) = Sum(zeny)
    BY <1>3, PaidKeeps
  <1> HIDE DEF z
  <1>6. m <= z[q] /\ z[p] + m <= MaxZeny
    BY <1>3, <1>5, SizesAssumption
  <1>7. zeny' \in Purses /\ Sum(zeny') = Sum(zeny)
    BY <1>3, <1>4, <1>5, <1>6, PaidKeeps
  <1>8. GoodsTypes'
    BY <1>1, <1>2, <1>7 DEF GoodsTypes, Purses
  <1>9. \A x \in Kinds : Holding(inventory', cart', x) = Holding(inventory, cart, x)
    BY <1>1, <1>2 DEF GoodsTypes
  <1> QED BY <1>7, <1>8, <1>9, KindsAssumption DEF Conserved

(* A piece comes out of a cart. *)
LEMMA CartConserves ==
  ASSUME TypeOK, Conserved, NEW p \in Players, NEW k \in Kinds, pc_getitemfromcart(p, k)
  PROVE  GoodsTypes' /\ Conserved'
  <1> USE TypeParts
  <1> DEFINE inv == inventory[p]
             more == pc_additem(inv, k, 1)
  <1>1. /\ GoodsTypes /\ inv \in Inventory /\ Takes(inv, k, 1) /\ 1 \in 1 .. MaxAmount
        /\ cart[p][k] > 0 /\ cart[p] \in [Kinds -> Nat]
    BY SizesAssumption DEF GoodsTypes, Inventories, Carts, pc_getitemfromcart
  <1>2. /\ inventory' = [inventory EXCEPT ![p] = more]
        /\ cart' = [cart EXCEPT ![p][k] = @ - 1]
        /\ UNCHANGED zeny
    BY DEF pc_getitemfromcart
  <1>3. \A x \in Kinds : InBackpack(more, x) = InBackpack(inv, x) + IF x = k THEN 1 ELSE 0
    <2> HIDE DEF inv
    <2> QED BY <1>1, BackpackAdded
  <1>4. more \in Inventory
    <2> HIDE DEF inv
    <2> QED BY <1>1, AddedType
  <1> HIDE DEF more
  <1>5. /\ inventory' \in Inventories
        /\ inventory'[p] = more
        /\ \A q \in Players \ {p} : inventory'[q] = inventory[q]
    BY <1>1, <1>2, <1>4 DEF GoodsTypes, Inventories
  <1>6. /\ cart' \in Carts
        /\ \A x \in Kinds : cart'[p][x] = cart[p][x] - IF x = k THEN 1 ELSE 0
        /\ \A q \in Players \ {p} : cart'[q] = cart[q]
    BY <1>1, <1>2 DEF GoodsTypes, Carts
  <1>7. \A x \in Kinds : Holding(inventory', cart', x) = Holding(inventory, cart, x)
    <2> SUFFICES ASSUME NEW x \in Kinds
                 PROVE  Holding(inventory', cart', x) = Holding(inventory, cart, x)
      OBVIOUS
    <2>1. /\ Holding(inventory, cart, x) \in Int
          /\ Holding(inventory', cart', x) = Holding(inventory, cart, x)
               - (InBackpack(inventory[p], x) + cart[p][x])
               + (InBackpack(inventory'[p], x) + cart'[p][x])
      BY <1>1, <1>5, <1>6, HoldingChange DEF GoodsTypes
    <2>2. InBackpack(inventory[p], x) \in Int
      BY <1>1, PiecesType
    <2>3. cart[p][x] \in Int
      BY <1>1
    <2> QED BY <1>3, <1>5, <1>6, <2>1, <2>2, <2>3
  <1> QED BY <1>1, <1>2, <1>5, <1>6, <1>7, KindsAssumption DEF GoodsTypes, Conserved

(* An arrow is shot. *)
LEMMA ShotConserves ==
  ASSUME TypeOK, Conserved, NEW p \in Players, NEW i \in 1 .. Slots, battle_consume_ammo(p, i)
  PROVE  GoodsTypes' /\ Conserved'
  <1> USE TypeParts
  <1> DEFINE inv == inventory[p]
             less == pc_delitem(inv, i, 1)
  <1>1. /\ GoodsTypes /\ inv \in Inventory /\ inv[i].kind \in Ammo /\ 1 \in 1 .. MaxAmount
    BY SizesAssumption DEF GoodsTypes, Inventories, battle_consume_ammo
  <1>2. inventory' = [inventory EXCEPT ![p] = less] /\ UNCHANGED <<cart, zeny>>
    BY DEF battle_consume_ammo
  <1>3. 1 <= inv[i].amount
    BY <1>1, KindsAssumption, TraderAssumption, SizesAssumption DEF Inventory, Stack, Nothing
  <1>4. \A x \in Kinds :
           InBackpack(less, x) = InBackpack(inv, x) - IF x = inv[i].kind THEN 1 ELSE 0
    <2> HIDE DEF inv
    <2> QED BY <1>1, <1>3, BackpackDeleted
  <1>5. less \in Inventory
    <2> HIDE DEF inv
    <2> QED BY <1>1, <1>3, DeletedType
  <1> HIDE DEF less
  <1>6. /\ inventory' \in Inventories
        /\ inventory'[p] = less
        /\ \A q \in Players \ {p} : inventory'[q] = inventory[q]
    BY <1>1, <1>2, <1>5 DEF GoodsTypes, Inventories
  <1>7. \A x \in Kinds : /\ Holding(inventory, cart, x) \in Int
                         /\ Holding(inventory', cart', x) = Holding(inventory, cart, x)
                              - IF x = inv[i].kind THEN 1 ELSE 0
    <2> SUFFICES ASSUME NEW x \in Kinds
                 PROVE  /\ Holding(inventory, cart, x) \in Int
                        /\ Holding(inventory', cart', x) = Holding(inventory, cart, x)
                             - IF x = inv[i].kind THEN 1 ELSE 0
      OBVIOUS
    <2>1. /\ Holding(inventory, cart, x) \in Int
          /\ Holding(inventory', cart, x) = Holding(inventory, cart, x)
               - (InBackpack(inventory[p], x) + cart[p][x])
               + (InBackpack(inventory'[p], x) + cart[p][x])
      BY <1>1, <1>6, HoldingChange DEF GoodsTypes
    <2>2. InBackpack(inventory[p], x) \in Int
      BY <1>1, PiecesType
    <2>3. cart[p][x] \in Int
      BY <1>1 DEF GoodsTypes, Carts
    <2>4. InBackpack(inventory'[p], x)
            = InBackpack(inventory[p], x) - IF x = inv[i].kind THEN 1 ELSE 0
      BY <1>4, <1>6
    <2> HIDE DEF inv
    <2> QED BY <1>2, <2>1, <2>2, <2>3, <2>4
  <1>8. GoodsTypes'
    BY <1>1, <1>2, <1>6 DEF GoodsTypes
  <1>9. \A k \in Kinds : Holding(Backpack, Cart, k) \in Int
    <2>1. Backpack \in Inventories /\ Cart \in Carts
      BY BelongingsAssumption DEF Inventories, Carts
    <2> QED BY <2>1, HoldingType
  <1>10. \A k \in Kinds \ Ammo : Holding(inventory', cart', k) = Holding(Backpack, Cart, k)
    BY <1>1, <1>7 DEF Conserved
  <1>11. \A k \in Ammo : Holding(inventory', cart', k) <= Holding(Backpack, Cart, k)
    <2> SUFFICES ASSUME NEW k \in Ammo
                 PROVE  Holding(inventory', cart', k) <= Holding(Backpack, Cart, k)
      OBVIOUS
    <2>1. k \in Kinds /\ Holding(inventory, cart, k) <= Holding(Backpack, Cart, k)
      BY KindsAssumption DEF Conserved
    <2> QED BY <1>7, <1>9, <2>1
  <1> QED BY <1>2, <1>8, <1>10, <1>11 DEF Conserved

(* All other steps leave what the players hold alone. *)
LEMMA GoodsStep ==
  ASSUME TypeOK, NotAlone, Conserved, [Next]_vars
  PROVE  GoodsTypes' /\ Conserved'
  <1> USE TypeParts
  <1>1. ASSUME UNCHANGED goods PROVE GoodsTypes' /\ Conserved'
    BY <1>1 DEF goods, GoodsTypes, Conserved
  <1>2. ASSUME NEW p \in Players, trade_tradecommit(p) PROVE GoodsTypes' /\ Conserved'
    <2> DEFINE q == trade_partner[p]
    <2>1. CASE Present(p) /\ Sound(p, q) /\ Exchange(p, q)
      <3>1. q \in Players /\ p # q
        BY <2>1, TraderAssumption DEF Present, FlagTypes, NotAlone
      <3> QED BY <2>1, <3>1, ExchangeConserves
    <2>2. CASE UNCHANGED goods
      BY <1>1, <2>2
    <2> QED BY <1>2, <2>1, <2>2 DEF trade_tradecommit, Confirm
  <1>3. CASE UNCHANGED vars
    BY <1>1, <1>3 DEF vars
  <1>4. ASSUME NEW p \in Players,
               \/ \E q \in Players : trade_traderequest(p, q)
               \/ trade_tradeack(p)
               \/ \E i \in 1 .. Slots, n \in Pieces : trade_tradeadditem(p, i, n)
               \/ \E n \in 0 .. MaxZeny : trade_tradeaddzeny(p, n)
               \/ trade_tradeok(p)
               \/ trade_tradecancel(p)
               \/ unit_remove_map(p)
               \/ pc_reg_received(p)
        PROVE  UNCHANGED goods
    BY <1>4 DEF trade_traderequest, trade_tradeack, trade_tradeadditem, trade_tradeaddzeny,
       trade_tradeok, trade_tradecancel, unit_remove_map, pc_reg_received
  <1>5. ASSUME Next PROVE GoodsTypes' /\ Conserved'
    <2>1. PICK p \in Players :
            \/ \E q \in Players : trade_traderequest(p, q)
            \/ trade_tradeack(p)
            \/ \E i \in 1 .. Slots : \/ \E n \in Pieces : trade_tradeadditem(p, i, n)
                                     \/ battle_consume_ammo(p, i)
            \/ \E n \in 0 .. MaxZeny : trade_tradeaddzeny(p, n)
            \/ trade_tradeok(p)
            \/ trade_tradecancel(p)
            \/ HasButton(p) /\ trade_tradecommit(p)
            \/ unit_remove_map(p)
            \/ pc_reg_received(p)
            \/ \E k \in Kinds : pc_getitemfromcart(p, k)
      BY <1>5 DEF Next
    <2> QED BY <2>1, <1>1, <1>2, <1>4, CartConserves, ShotConserves
  <1> QED BY <1>3, <1>5

IInv == TypeOK /\ NotAlone /\ Conserved

LEMMA InitIInv == Init => IInv
  <1> SUFFICES ASSUME Init PROVE IInv
    OBVIOUS
  <1>1. FlagTypes /\ NotAlone
    BY TraderAssumption DEF Init, FlagTypes, NotAlone
  <1>2. DealTypes
    BY EmptyDealOK DEF Init, DealTypes, DealOK
  <1>3. GoodsTypes
    BY BelongingsAssumption DEF Init, GoodsTypes, Inventories, Carts
  <1>4. \A k \in Kinds : Holding(Backpack, Cart, k) \in Int
    <2>1. Backpack \in Inventories /\ Cart \in Carts
      BY BelongingsAssumption DEF Inventories, Carts
    <2> QED BY <2>1, HoldingType
  <1>5. Conserved
    BY <1>4, KindsAssumption DEF Init, Conserved
  <1> QED BY <1>1, <1>2, <1>3, <1>5, TypeParts DEF IInv

LEMMA NextIInv == IInv /\ [Next]_vars => IInv'
  <1> SUFFICES ASSUME IInv, [Next]_vars PROVE IInv'
    OBVIOUS
  <1>1. FlagTypes' /\ NotAlone' /\ DealTypes'
    BY FlagsStep DEF IInv
  <1>2. GoodsTypes' /\ Conserved'
    BY GoodsStep DEF IInv
  <1>3. TypeOK'
    BY <1>1, <1>2 DEF TypeOK, FlagTypes, DealTypes, GoodsTypes, DealOK, Inventories, Carts
  <1> QED BY <1>1, <1>2, <1>3 DEF IInv

(* The types of trade.cpp's state hold for every number of players, slots  *)
(* and entries: a deal offers a slot of the inventory once, no stack is    *)
(* empty or higher than MAX_AMOUNT and no purse holds more than MAX_ZENY,  *)
(* whatever was put into the deals and whoever left meanwhile.             *)
THEOREM TradeTypes == Spec => []TypeOK
  <1>1. IInv => TypeOK
    BY DEF IInv
  <1> QED BY InitIInv, NextIInv, <1>1, PTL DEF Spec

(* Whatever is exchanged, refused or cancelled: items and zeny are neither *)
(* made nor lost, but for the arrows that are shot.                        *)
THEOREM NothingMadeOrLost == Spec => []Conserved
  <1>1. IInv => Conserved
    BY DEF IInv
  <1> QED BY InitIInv, NextIInv, <1>1, PTL DEF Spec
=============================================================================
