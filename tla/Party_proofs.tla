---------------------------- MODULE Party_proofs ----------------------------

(***************************************************************************)
(* Theorems about parties, for any number of characters and map-servers,   *)
(* whatever players ask and however long the messages are under way.       *)
(***************************************************************************)
EXTENDS Party, FiniteSetTheorems, SequenceTheorems, WellFoundedInduction, TLAPS

(* What is under way. *)
CreateMsgs == [kind : {"create"}, who : Chars, as : Member]
InfoMsgs   == [kind : {"info"}, party : Ids, who : Chars]
JoinMsgs   == [kind : {"join"}, party : Ids, who : Chars, as : Member]
LeaveMsgs  == [kind : {"leave"}, party : Ids, who : Chars]
MoveMsgs   == [kind : {"move"}, party : Ids, who : Chars, online : BOOLEAN, lv : 1 .. TopLevel]
LeaderMsgs == [kind : {"leader"}, party : Ids, who : Chars]
OptionMsgs == [kind : {"option"}, party : Ids, exp : BOOLEAN]
SaveMsgs   == [kind : {"save"}, who : Chars, party : 0 .. LastParty, final : BOOLEAN]
RegMsgs    == [kind : {"reg"}, who : Chars]
ToCharMsg == CreateMsgs \cup InfoMsgs \cup JoinMsgs \cup LeaveMsgs \cup MoveMsgs
             \cup LeaderMsgs \cup OptionMsgs \cup SaveMsgs \cup RegMsgs
Infos     == [kind : {"info"}, party : Ids, who : Chars \cup {None}, member : Rosters,
              exp : BOOLEAN]
NoInfos   == [kind : {"noinfo"}, party : Ids, who : Chars]
Brokens   == [kind : {"broken"}, party : Ids]
Withdraws == [kind : {"withdraw"}, party : Ids, who : Chars]
Moveds    == [kind : {"moved"}, party : Ids, who : Chars, online : BOOLEAN, lv : 1 .. TopLevel]
Options   == [kind : {"option"}, party : Ids, exp : BOOLEAN, denied : BOOLEAN]
Createds  == [kind : {"created"}, who : Chars, party : 0 .. LastParty]
Addeds    == [kind : {"added"}, party : Ids, who : Chars, flag : BOOLEAN]
Auths     == [kind : {"auth"}, who : Chars, party : 0 .. LastParty]
ToMapMsg == Infos \cup NoInfos \cup Brokens \cup Withdraws \cup Moveds \cup Options
            \cup Createds \cup Addeds \cup Auths \cup RegMsgs

(* Every message is what its kind says. *)
LEMMA ToCharKinds ==
  ASSUME NEW m \in ToCharMsg
  PROVE  /\ m.kind = "create" => m \in CreateMsgs
         /\ m.kind = "info" => m \in InfoMsgs
         /\ m.kind = "join" => m \in JoinMsgs
         /\ m.kind = "leave" => m \in LeaveMsgs
         /\ m.kind = "move" => m \in MoveMsgs
         /\ m.kind = "leader" => m \in LeaderMsgs
         /\ m.kind = "option" => m \in OptionMsgs
         /\ m.kind = "save" => m \in SaveMsgs
         /\ m.kind = "reg" => m \in RegMsgs
  BY DEF ToCharMsg, CreateMsgs, InfoMsgs, JoinMsgs, LeaveMsgs, MoveMsgs, LeaderMsgs,
         OptionMsgs, SaveMsgs, RegMsgs

LEMMA ToMapKinds ==
  ASSUME NEW m \in ToMapMsg
  PROVE  /\ m.kind = "info" => m \in Infos
         /\ m.kind = "noinfo" => m \in NoInfos
         /\ m.kind = "broken" => m \in Brokens
         /\ m.kind = "withdraw" => m \in Withdraws
         /\ m.kind = "moved" => m \in Moveds
         /\ m.kind = "option" => m \in Options
         /\ m.kind = "created" => m \in Createds
         /\ m.kind = "added" => m \in Addeds
         /\ m.kind = "auth" => m \in Auths
         /\ m.kind = "reg" => m \in RegMsgs
  BY DEF ToMapMsg, Infos, NoInfos, Brokens, Withdraws, Moveds, Options, Createds, Addeds,
         Auths, RegMsgs

(* The messages as the actions make them. *)
LEMMA ToCharMade ==
  ASSUME NEW c \in Chars
  PROVE  /\ \A p \in Ids : Leave(p, c) \in ToCharMsg
         /\ \A m \in Member : [kind |-> "create", who |-> c, as |-> m] \in ToCharMsg
         /\ \A p \in Ids : [kind |-> "info", party |-> p, who |-> c] \in ToCharMsg
         /\ \A p \in Ids, m \in Member :
              [kind |-> "join", party |-> p, who |-> c, as |-> m] \in ToCharMsg
         /\ \A p \in Ids, o \in BOOLEAN, l \in 1 .. TopLevel :
              [kind |-> "move", party |-> p, who |-> c, online |-> o, lv |-> l] \in ToCharMsg
         /\ \A p \in Ids : [kind |-> "leader", party |-> p, who |-> c] \in ToCharMsg
         /\ \A p \in Ids, e \in BOOLEAN :
              [kind |-> "option", party |-> p, exp |-> e] \in ToCharMsg
         /\ \A p \in 0 .. LastParty, f \in BOOLEAN :
              [kind |-> "save", who |-> c, party |-> p, final |-> f] \in ToCharMsg
         /\ [kind |-> "reg", who |-> c] \in ToCharMsg
  BY DEF ToCharMsg, CreateMsgs, InfoMsgs, JoinMsgs, LeaveMsgs, MoveMsgs, LeaderMsgs,
         OptionMsgs, SaveMsgs, RegMsgs, Leave

LEMMA ToMapMade ==
  ASSUME NEW c \in Chars, NEW p \in Ids
  PROVE  /\ \A P \in Parties, d \in Chars \cup {None} : Info(p, P, d) \in ToMapMsg
         /\ NoInfo(p, c) \in ToMapMsg
         /\ Broken(p) \in ToMapMsg
         /\ Withdraw(p, c) \in ToMapMsg
         /\ \A P \in Parties : c \in DOMAIN P.member => Moved(p, P, c) \in ToMapMsg
         /\ \A P \in Parties, d \in BOOLEAN : Option(p, P, d) \in ToMapMsg
         /\ \A f \in BOOLEAN : Added(p, c, f) \in ToMapMsg
  <1>1. \A P \in Parties, d \in Chars \cup {None} : Info(p, P, d) \in Infos
    BY DEF Info, Infos, Parties
  <1>2. \A P \in Parties : c \in DOMAIN P.member => P.member[c] \in Member
    BY DEF Parties, Rosters
  <1>3. \A P \in Parties : c \in DOMAIN P.member => Moved(p, P, c) \in Moveds
    BY <1>2 DEF Moved, Moveds, Member
  <1> QED
    BY <1>1, <1>3 DEF ToMapMsg, NoInfos, Brokens, Withdraws, Options, Addeds,
       NoInfo, Broken, Withdraw, Option, Added, Parties

LEMMA ToMapMade2 ==
  ASSUME NEW c \in Chars, NEW p \in 0 .. LastParty
  PROVE  /\ Created(c, p) \in ToMapMsg
         /\ [kind |-> "auth", who |-> c, party |-> p] \in ToMapMsg
         /\ [kind |-> "reg", who |-> c] \in ToMapMsg
  BY DEF ToMapMsg, Created, Createds, Auths, RegMsgs

-----------------------------------------------------------------------------
(* Every nonempty set of levels has a lowest and a highest. *)
LEMMA LeastNat ==
  ASSUME NEW N \in SUBSET Nat, N # {}
  PROVE  \E n \in N : \A k \in N : n <= k
  <1> DEFINE R == OpToRel(<, Nat)
  <1>1. IsWellFoundedOn(R, Nat)
    BY NatLessThanWellFounded
  <1>2. \A k, n \in Nat : <<k, n>> \in R <=> k < n
    BY DEF OpToRel
  <1> HIDE DEF R
  <1>3. N \subseteq Nat
    OBVIOUS
  <1>4. PICK n \in N : \A k \in N : ~(<<k, n>> \in R)
    BY <1>1, <1>3, WFMin, Zenon
  <1>5. \A k \in N : ~(k < n)
    BY <1>2, <1>3, <1>4, Zenon
  <1> QED BY <1>3, <1>5

LEMMA Extremes ==
  ASSUME ConstantsOK, NEW S, S \subseteq 1 .. TopLevel, S # {}
  PROVE  /\ Min(S) \in S /\ \A y \in S : Min(S) <= y
         /\ Max(S) \in S /\ \A y \in S : y <= Max(S)
  <1> DEFINE T == {TopLevel - x : x \in S}
  <1>0. TopLevel \in Nat
    BY DEF ConstantsOK
  <1>1. PICK x \in S : \A y \in S : x <= y
    <2>1. S \in SUBSET Nat
      BY <1>0
    <2> QED BY <2>1, LeastNat
  <1>2. PICK z \in S : \A y \in S : y <= z
    <2>1. T \in SUBSET Nat /\ T # {}
      BY <1>0
    <2>2. PICK t \in T : \A k \in T : t <= k
      BY <2>1, LeastNat
    <2>3. PICK z \in S : t = TopLevel - z
      BY <2>2
    <2>4. \A y \in S : TopLevel - z <= TopLevel - y
      BY <2>2, <2>3
    <2>5. \A y \in S : y <= z
      BY <2>4, <1>0
    <2> QED BY <2>3, <2>5
  <1>3. \A y \in S : z >= y
    BY <1>0, <1>2
  <1> QED BY <1>1, <1>3, <1>2 DEF Min, Max

(* A roster is a function from some characters to members. *)
LEMMA RosterFacts ==
  /\ \A m \in Rosters : /\ DOMAIN m \subseteq Chars
                        /\ m \in [DOMAIN m -> Member]
                        /\ \A c \in DOMAIN m : m[c] \in Member
  /\ \A m : DOMAIN m \subseteq Chars /\ m \in [DOMAIN m -> Member] => m \in Rosters
  BY DEF Rosters

LEMMA OnlineFacts ==
  ASSUME ConstantsOK, NEW P \in Parties
  PROVE  /\ Online(P) \subseteq Chars
         /\ IsFiniteSet(Online(P))
         /\ Cardinality(Online(P)) \in 0 .. Cardinality(Chars)
         /\ Levels(P) \subseteq 1 .. TopLevel
         /\ Levels(P) = {} <=> Online(P) = {}
  <1>1. P.member \in Rosters
    BY DEF Parties
  <1>2. Online(P) \subseteq Chars /\ Levels(P) \subseteq 1 .. TopLevel
    BY <1>1, RosterFacts DEF Online, Levels, Member
  <1>3. IsFiniteSet(Chars)
    BY DEF ConstantsOK
  <1>4. IsFiniteSet(Online(P)) /\ Cardinality(Online(P)) <= Cardinality(Chars)
    BY <1>2, <1>3, FS_Subset
  <1>5. Cardinality(Online(P)) \in Nat /\ Cardinality(Chars) \in Nat
    BY <1>3, <1>4, FS_CardinalityType
  <1>6. Levels(P) = {} <=> Online(P) = {}
    BY DEF Levels
  <1>7. Cardinality(Online(P)) \in 0 .. Cardinality(Chars)
    BY <1>4, <1>5
  <1> QED BY <1>2, <1>4, <1>6, <1>7

(* The level range: members in the game are at both its ends, others may   *)
(* be outside it.                                                          *)
Ranges(P) == /\ Levels(P) = {} => P.min_lv = TopLevel + 1 /\ P.max_lv = 0
             /\ Levels(P) # {} => /\ P.min_lv \in Levels(P) /\ P.max_lv \in Levels(P)
                                 /\ P.min_lv <= P.max_lv

LEMMA Checked ==
  ASSUME ConstantsOK, NEW P \in Parties, NEW Q, Q = int_party_check_lv(P)
  PROVE  /\ Q \in Parties
         /\ Q.member = P.member /\ Q.count = P.count
         /\ Ranges(Q)
         /\ Q.exp = (P.exp /\ party_check_exp_share(Q))
  <1> DEFINE lv == Levels(P)
             low == IF lv = {} THEN TopLevel + 1 ELSE Min(lv)
             high == IF lv = {} THEN 0 ELSE Max(lv)
             R == Ranged(P)
             share == P.exp /\ party_check_exp_share(R)
  <1>0. TopLevel \in Nat \ {0} /\ party_share_level \in Nat
    BY DEF ConstantsOK
  <1>1. lv \subseteq 1 .. TopLevel
    BY OnlineFacts
  <1>2. lv # {} => Min(lv) \in lv /\ (\A y \in lv : Min(lv) <= y) /\ Max(lv) \in lv
    BY <1>1, Extremes
  <1>3. low \in 1 .. TopLevel + 1 /\ high \in 0 .. TopLevel
    BY <1>0, <1>1, <1>2
  <1>4. R = [P EXCEPT !.min_lv = low, !.max_lv = high]
    BY DEF Ranged
  <1> HIDE DEF low, high, R
  <1>5. R = [member |-> P.member, exp |-> P.exp, count |-> P.count, min_lv |-> low,
             max_lv |-> high]
    BY <1>4 DEF Parties
  <1>6. share \in BOOLEAN
    BY <1>3, <1>5, <1>0 DEF Parties
  <1>7. Q = [R EXCEPT !.exp = R.exp /\ party_check_exp_share(R)]
    BY DEF int_party_check_lv, R
  <1>8. Q = [member |-> P.member, exp |-> share, count |-> P.count, min_lv |-> low,
             max_lv |-> high]
    BY <1>5, <1>7
  <1> HIDE DEF share
  <1>9. Q \in Parties
    BY <1>3, <1>6, <1>8 DEF Parties
  <1>10. Levels(Q) = lv
    BY <1>8 DEF Levels, Online
  <1>11. Ranges(Q)
    BY <1>2, <1>8, <1>10 DEF Ranges, low, high
  <1>12. party_check_exp_share(Q) = party_check_exp_share(R)
    BY <1>5, <1>8 DEF party_check_exp_share
  <1> QED BY <1>8, <1>9, <1>11, <1>12 DEF share

(* The char-server keeps the count and the range of a party sound. *)
Sound(P) == /\ P.count = Cardinality(Online(P))
            /\ P.exp => party_check_exp_share(P)
            /\ Ranges(P)

LEMMA Calculated ==
  ASSUME ConstantsOK, NEW P \in Parties, NEW Q, Q = int_party_calc_state(P)
  PROVE  Q \in Parties /\ Q.member = P.member /\ Sound(Q) /\ (Q.exp => P.exp)
  <1> DEFINE n == Cardinality(Online(P))
             R == [P EXCEPT !.count = n]
  <1>1. n \in Int
    BY OnlineFacts
  <1> HIDE DEF n
  <1>2. R \in Parties /\ R.member = P.member /\ R.count = n /\ R.exp = P.exp
    BY <1>1 DEF Parties
  <1>3. Q = int_party_check_lv(R)
    BY DEF int_party_calc_state, n
  <1> HIDE DEF R
  <1>4. /\ Q \in Parties /\ Q.member = P.member /\ Q.count = n /\ Ranges(Q)
        /\ Q.exp = (P.exp /\ party_check_exp_share(Q))
    BY <1>2, <1>3, Checked
  <1>5. Online(Q) = Online(P)
    BY <1>4 DEF Online
  <1> QED BY <1>4, <1>5 DEF Sound, n

(* A range that is not worked out again: nothing at its border has gone.   *)
LEMMA SameRange ==
  ASSUME ConstantsOK, NEW P \in Parties, NEW Q \in Parties,
         Ranges(P), Levels(P) # {},
         Q.min_lv = P.min_lv, Q.max_lv = P.max_lv,
         P.min_lv \in Levels(Q), P.max_lv \in Levels(Q)
  PROVE  Ranges(Q)
  BY DEF Ranges

(* Even share is off, or goes on because the range is still narrow enough: *)
(* one member alone spans none.                                            *)
LEMMA StillShared ==
  ASSUME ConstantsOK, NEW P \in Parties, Sound(P), NEW Q \in Parties,
         Q.exp => P.exp, Q.min_lv = P.min_lv, Q.max_lv = P.max_lv,
         Levels(P) # {}
  PROVE  Q.exp => party_check_exp_share(Q)
  <1>0. TopLevel \in Nat \ {0} /\ party_share_level \in Nat
    BY DEF ConstantsOK
  <1>1. Online(P) # {} /\ IsFiniteSet(Online(P)) /\ Cardinality(Online(P)) \in Nat
    BY OnlineFacts, FS_CardinalityType
  <1>2. Cardinality(Online(P)) # 0
    BY <1>1, FS_EmptySet
  <1>3. CASE P.count < 2
    <2>1. Cardinality(Online(P)) = 1
      BY <1>1, <1>2, <1>3 DEF Sound
    <2>2. PICK x : Online(P) = {x}
      BY <1>1, <2>1, FS_Singleton
    <2>3. Levels(P) = {P.member[x].lv}
      BY <2>2 DEF Levels
    <2>4. P.max_lv = P.min_lv
      BY <2>3 DEF Sound, Ranges
    <2>5. Q.max_lv - Q.min_lv <= party_share_level
      BY <2>4, <1>0 DEF Parties
    <2> QED BY <2>5 DEF party_check_exp_share
  <1>4. CASE ~(P.count < 2)
    BY <1>4 DEF Sound, party_check_exp_share
  <1> QED BY <1>3, <1>4

LEMMA FoundedFacts ==
  ASSUME ConstantsOK, NEW members \in Rosters, NEW P, P = Founded(members)
  PROVE  P \in Parties /\ P.member = members /\ Sound(P) /\ P.exp = FALSE
  <1> DEFINE R == [member |-> members, exp |-> FALSE, count |-> 0, min_lv |-> 1, max_lv |-> 0]
  <1>1. R \in Parties
    BY DEF Parties, ConstantsOK
  <1>2. P = int_party_calc_state(R)
    BY DEF Founded
  <1>3. R.member = members /\ R.exp = FALSE
    OBVIOUS
  <1> HIDE DEF R
  <1>4. P \in Parties /\ P.member = members /\ Sound(P) /\ (P.exp => FALSE)
    BY <1>1, <1>2, <1>3, Calculated
  <1> QED BY <1>4 DEF Parties

(* One member more. *)
LEMMA JoinedFacts ==
  ASSUME ConstantsOK, NEW P \in Parties, NEW c \in Chars, NEW m \in Member,
         NEW Q, Q = Joined(P, c, m)
  PROVE  /\ Q \in Parties
         /\ DOMAIN Q.member = DOMAIN P.member \cup {c}
         /\ Q.member[c] = [m EXCEPT !.leader = FALSE]
         /\ \A d \in DOMAIN P.member \ {c} : Q.member[d] = P.member[d]
         /\ Q.exp => P.exp
         /\ Sound(P) /\ c \notin DOMAIN P.member => Sound(Q)
  <1> DEFINE new == [m EXCEPT !.leader = FALSE]
             more == [d \in DOMAIN P.member \cup {c} |-> IF d = c THEN new ELSE P.member[d]]
             n == P.count + IF m.online THEN 1 ELSE 0
             R == [P EXCEPT !.member = more, !.count = n]
  <1>0. TopLevel \in Nat \ {0} /\ party_share_level \in Nat /\ P.count \in Int
    BY DEF ConstantsOK, Parties
  <1>1. new \in Member /\ new.online = m.online /\ new.lv = m.lv
    BY DEF Member
  <1>3. P.member \in Rosters
    BY DEF Parties
  <1>4. more \in Rosters
    <2>1. more \in [DOMAIN P.member \cup {c} -> Member]
      BY <1>1, <1>3, RosterFacts
    <2>2. DOMAIN more \subseteq Chars
      BY <1>3, RosterFacts
    <2> QED BY <2>1, <2>2, RosterFacts
  <1>5. /\ DOMAIN more = DOMAIN P.member \cup {c}
        /\ more[c] = new
        /\ \A d \in DOMAIN P.member \ {c} : more[d] = P.member[d]
    OBVIOUS
  <1>6. n \in Int
    BY <1>0
  <1> HIDE DEF new, more, n
  <1>7. /\ R = [P EXCEPT !.member = more, !.count = n]
        /\ R \in Parties /\ R.member = more /\ R.count = n /\ R.exp = P.exp
        /\ R.min_lv = P.min_lv /\ R.max_lv = P.max_lv
    BY <1>4, <1>6 DEF Parties
  <1>8. Q = IF Cardinality(DOMAIN R.member) \in {2, 3} THEN int_party_calc_state(R)
            ELSE IF m.lv < P.min_lv \/ m.lv > P.max_lv THEN int_party_check_lv(R)
            ELSE R
    BY DEF Joined, n, new, more
  <1> HIDE DEF R
  <1>9. ASSUME Sound(P), c \notin DOMAIN P.member
        PROVE  R.count = Cardinality(Online(R))
    <2>1. Online(R) = IF m.online THEN Online(P) \cup {c} ELSE Online(P)
      BY <1>1, <1>5, <1>7, <1>9 DEF Online
    <2>2. c \notin Online(P) /\ IsFiniteSet(Online(P))
      BY <1>9, OnlineFacts DEF Online
    <2>3. Cardinality(Online(P) \cup {c}) = Cardinality(Online(P)) + 1
      BY <2>2, FS_AddElement
    <2>4. Cardinality(Online(P)) = P.count
      BY <1>9 DEF Sound
    <2> QED BY <1>0, <1>7, <2>1, <2>3, <2>4 DEF n
  <1>10. CASE Cardinality(DOMAIN R.member) \in {2, 3}
    <2>1. Q \in Parties /\ Q.member = more /\ Sound(Q) /\ (Q.exp => P.exp)
      BY <1>7, <1>8, <1>10, Calculated
    <2> QED BY <1>5, <2>1 DEF new
  <1>11. CASE ~(Cardinality(DOMAIN R.member) \in {2, 3}) /\ (m.lv < P.min_lv \/ m.lv > P.max_lv)
    <2>1. Q = int_party_check_lv(R)
      BY <1>8, <1>11
    <2>2. /\ Q \in Parties /\ Q.member = more /\ Q.count = R.count /\ Ranges(Q)
          /\ Q.exp = (P.exp /\ party_check_exp_share(Q))
      BY <1>7, <2>1, Checked
    <2>3. Online(Q) = Online(R)
      BY <1>7, <2>2 DEF Online
    <2>4. Sound(P) /\ c \notin DOMAIN P.member => Sound(Q)
      BY <1>9, <2>2, <2>3 DEF Sound
    <2> QED BY <1>5, <2>2, <2>4 DEF new
  <1>12. CASE ~(Cardinality(DOMAIN R.member) \in {2, 3}) /\ ~(m.lv < P.min_lv \/ m.lv > P.max_lv)
    <2>1. Q = R
      BY <1>8, <1>12
    <2>2. ASSUME Sound(P), c \notin DOMAIN P.member PROVE Sound(Q)
      <3>0. m.lv \in 1 .. TopLevel /\ P.min_lv \in 1 .. TopLevel + 1 /\ P.max_lv \in 0 .. TopLevel
        BY DEF Member, Parties
      <3>1. Levels(P) # {}
        BY <1>0, <1>12, <2>2, <3>0 DEF Sound, Ranges
      <3>3. Levels(P) \subseteq Levels(Q)
        BY <1>1, <1>5, <1>7, <2>1, <2>2 DEF Levels, Online
      <3>4. P.min_lv \in Levels(P) /\ P.max_lv \in Levels(P) /\ Ranges(P)
        BY <2>2, <3>1 DEF Sound, Ranges
      <3>5. Ranges(Q)
        BY <1>7, <2>1, <3>1, <3>3, <3>4, SameRange
      <3>6. Q.exp => party_check_exp_share(Q)
        BY <1>7, <2>1, <2>2, <3>1, StillShared
      <3> QED BY <1>9, <2>1, <2>2, <3>5, <3>6 DEF Sound
    <2> QED BY <1>5, <1>7, <2>1, <2>2 DEF new
  <1> QED BY <1>10, <1>11, <1>12

LEMMA Kept ==
  ASSUME ConstantsOK, NEW P \in Parties, Sound(P), NEW Q \in Parties,
         Q.exp => P.exp, Q.min_lv = P.min_lv, Q.max_lv = P.max_lv,
         Q.count = Cardinality(Online(Q)),
         Levels(P) = {} => Levels(Q) = {},
         Levels(P) # {} => P.min_lv \in Levels(Q) /\ P.max_lv \in Levels(Q)
  PROVE  Sound(Q)
  <1>1. CASE Levels(P) = {}
    <2>1. Levels(Q) = {} /\ Online(Q) = {}
      BY <1>1, OnlineFacts
    <2>2. Q.count = 0
      BY <2>1, FS_EmptySet
    <2>3. party_check_exp_share(Q)
      BY <2>2 DEF party_check_exp_share
    <2>4. Ranges(Q)
      BY <1>1, <2>1 DEF Sound, Ranges
    <2> QED BY <2>3, <2>4 DEF Sound
  <1>2. CASE Levels(P) # {}
    <2>1. Ranges(P)
      BY DEF Sound
    <2>2. Ranges(Q)
      BY <1>2, <2>1, SameRange
    <2>3. Q.exp => party_check_exp_share(Q)
      BY <1>2, StillShared
    <2> QED BY <2>2, <2>3 DEF Sound
  <1> QED BY <1>1, <1>2

(* The range is worked out again. *)
LEMMA Rechecked ==
  ASSUME ConstantsOK, NEW P \in Parties, P.count = Cardinality(Online(P)),
         NEW Q, Q = int_party_check_lv(P)
  PROVE  Sound(Q)
  <1>1. /\ Q \in Parties /\ Q.member = P.member /\ Q.count = P.count /\ Ranges(Q)
        /\ Q.exp = (P.exp /\ party_check_exp_share(Q))
    BY Checked
  <1>2. Online(Q) = Online(P)
    BY <1>1 DEF Online
  <1> QED BY <1>1, <1>2 DEF Sound

(* One member less. *)
LEMMA WithoutFacts ==
  ASSUME ConstantsOK, NEW P \in Parties, NEW c \in DOMAIN P.member,
         NEW Q, Q = Without(P, c)
  PROVE  /\ Q \in Parties
         /\ DOMAIN Q.member = DOMAIN P.member \ {c}
         /\ \A d \in DOMAIN P.member \ {c} : Q.member[d] = P.member[d]
         /\ Q.exp => P.exp
         /\ Sound(P) => Sound(Q)
  <1> DEFINE m == P.member[c]
             less == [d \in DOMAIN P.member \ {c} |-> P.member[d]]
             n == P.count - IF m.online THEN 1 ELSE 0
             R == [P EXCEPT !.member = less, !.count = n]
  <1>0. TopLevel \in Nat \ {0} /\ party_share_level \in Nat /\ P.count \in Int
    BY DEF ConstantsOK, Parties
  <1>1. P.member \in Rosters /\ c \in Chars /\ m \in Member
    BY RosterFacts DEF Parties
  <1>2. less \in Rosters
    <2>1. less \in [DOMAIN less -> Member] /\ DOMAIN less \subseteq Chars
      BY <1>1, RosterFacts
    <2> QED BY <2>1, RosterFacts
  <1>3. /\ DOMAIN less = DOMAIN P.member \ {c}
        /\ \A d \in DOMAIN P.member \ {c} : less[d] = P.member[d]
    OBVIOUS
  <1>4. n \in Int
    BY <1>0
  <1> HIDE DEF less, n
  <1>5. /\ R \in Parties /\ R.member = less /\ R.count = n /\ R.exp = P.exp
        /\ R.min_lv = P.min_lv /\ R.max_lv = P.max_lv
    BY <1>2, <1>4 DEF Parties
  <1>6. Q = IF m.lv \in {P.min_lv, P.max_lv} THEN int_party_check_lv(R) ELSE R
    BY DEF Without, n, less
  <1> HIDE DEF R
  <1>7. ASSUME Sound(P) PROVE R.count = Cardinality(Online(R))
    <2>1. Online(R) = Online(P) \ {c}
      BY <1>3, <1>5 DEF Online
    <2>2. IsFiniteSet(Online(P)) /\ (c \in Online(P) <=> m.online)
      BY OnlineFacts DEF Online
    <2>3. Cardinality(Online(P) \ {c})
            = IF c \in Online(P) THEN Cardinality(Online(P)) - 1 ELSE Cardinality(Online(P))
      BY <2>2, FS_RemoveElement
    <2>4. Cardinality(Online(P)) = P.count
      BY <1>7 DEF Sound
    <2> QED BY <1>0, <1>5, <2>1, <2>2, <2>3, <2>4 DEF n
  <1>8. CASE m.lv \in {P.min_lv, P.max_lv}
    <2>1. Q = int_party_check_lv(R)
      BY <1>6, <1>8
    <2>2. /\ Q \in Parties /\ Q.member = less
          /\ Q.exp = (P.exp /\ party_check_exp_share(Q))
      BY <1>5, <2>1, Checked
    <2>3. Sound(P) => Sound(Q)
      BY <1>5, <1>7, <2>1, Rechecked
    <2> QED BY <1>3, <2>2, <2>3
  <1>9. CASE m.lv \notin {P.min_lv, P.max_lv}
    <2>1. Q = R
      BY <1>6, <1>9
    <2>2. ASSUME Sound(P) PROVE Sound(Q)
      <3>1. Levels(Q) \subseteq Levels(P) /\ Levels(P) \subseteq Levels(Q) \cup {m.lv}
        BY <1>3, <1>5, <2>1 DEF Levels, Online
      <3>2. Ranges(P)
        BY <2>2 DEF Sound
      <3>3. Levels(P) # {} => P.min_lv \in Levels(Q) /\ P.max_lv \in Levels(Q)
        BY <1>9, <3>1, <3>2 DEF Ranges
      <3>4. Levels(P) = {} => Levels(Q) = {}
        BY <3>1
      <3> HIDE DEF m
      <3> QED BY <1>5, <1>7, <2>1, <2>2, <3>3, <3>4, Kept
    <2> QED BY <1>3, <1>5, <2>1, <2>2
  <1> QED BY <1>8, <1>9

(* A member whose entry changes. *)
LEMMA Changed ==
  ASSUME NEW ros \in Rosters, NEW c \in DOMAIN ros, NEW v \in Member,
         NEW new, new = [ros EXCEPT ![c] = v]
  PROVE  /\ new \in Rosters /\ DOMAIN new = DOMAIN ros /\ new[c] = v
         /\ \A d \in DOMAIN ros \ {c} : new[d] = ros[d]
  <1>1. ros \in [DOMAIN ros -> Member] /\ DOMAIN ros \subseteq Chars
    BY RosterFacts
  <1>2. new \in [DOMAIN ros -> Member] /\ DOMAIN new = DOMAIN ros
    BY <1>1
  <1>3. new \in Rosters
    BY <1>1, <1>2, RosterFacts
  <1> QED BY <1>1, <1>2, <1>3

(* A member who enters or leaves the game. *)
LEMMA ShownFacts ==
  ASSUME ConstantsOK, NEW P \in Parties, NEW c \in DOMAIN P.member,
         NEW online \in BOOLEAN, NEW lv \in 1 .. TopLevel,
         NEW Q, Q = Shown(P, c, online, lv)
  PROVE  /\ Q \in Parties
         /\ DOMAIN Q.member = DOMAIN P.member
         /\ Q.member[c].online = online
         /\ Q.member[c].lv \in {P.member[c].lv, lv}
         /\ \A d \in DOMAIN P.member \ {c} : Q.member[d] = P.member[d]
         /\ Q.exp => P.exp
         /\ Sound(P) => Sound(Q)
  <1> DEFINE m == P.member[c]
             on == [m EXCEPT !.online = online]
             onlv == [m EXCEPT !.online = online, !.lv = lv]
             mem == [P.member EXCEPT ![c] = on]
             memlv == [P.member EXCEPT ![c] = onlv]
             n == IF online THEN P.count + 1 ELSE P.count - 1
             R == [P EXCEPT !.member = mem, !.count = n]
             L == [P EXCEPT !.member = memlv, !.count = n]
             border(l) == l <= P.min_lv \/ l >= P.max_lv
  <1>0. /\ TopLevel \in Nat \ {0} /\ party_share_level \in Nat /\ P.count \in Int
        /\ P.min_lv \in Int /\ P.max_lv \in Int
    BY DEF ConstantsOK, Parties
  <1>1. P.member \in Rosters /\ c \in Chars /\ m \in Member
    BY RosterFacts DEF Parties
  <1>2. /\ on \in Member /\ on.online = online /\ on.lv = m.lv
        /\ onlv \in Member /\ onlv.online = online /\ onlv.lv = lv
        /\ onlv = [on EXCEPT !.lv = lv]
    BY <1>1 DEF Member
  <1>3. CASE m.online = online
    <2>1. Q = P
      BY <1>3 DEF Shown
    <2> QED BY <1>3, <2>1
  <1>4. CASE m.online # online
    <2>1. Q = IF border(m.lv) \/ border(lv) THEN int_party_check_lv(L) ELSE R
      <3>1. [P EXCEPT !.member[c].online = online, !.count = n] = R
        BY <1>1 DEF Parties
      <3>2. [R EXCEPT !.member[c].lv = lv] = L
        <4>1. [mem EXCEPT ![c] = [mem[c] EXCEPT !.lv = lv]] = memlv
          BY <1>1, <1>2
        <4> HIDE DEF mem, memlv
        <4> QED BY <4>1 DEF Parties
      <3> QED BY <1>4, <3>1, <3>2 DEF Shown
    <2>2. /\ mem \in Rosters /\ DOMAIN mem = DOMAIN P.member /\ mem[c] = on
          /\ \A d \in DOMAIN P.member \ {c} : mem[d] = P.member[d]
      <3> HIDE DEF on, m
      <3> QED BY <1>1, <1>2, Changed
    <2>3. /\ memlv \in Rosters /\ DOMAIN memlv = DOMAIN P.member /\ memlv[c] = onlv
          /\ \A d \in DOMAIN P.member \ {c} : memlv[d] = P.member[d]
      <3> HIDE DEF onlv, m
      <3> QED BY <1>1, <1>2, Changed
    <2>4. n \in Int
      BY <1>0
    <2> HIDE DEF mem, memlv, n
    <2>5. /\ R \in Parties /\ R.member = mem /\ R.count = n /\ R.exp = P.exp
          /\ R.min_lv = P.min_lv /\ R.max_lv = P.max_lv
          /\ L \in Parties /\ L.member = memlv /\ L.count = n /\ L.exp = P.exp
      BY <2>2, <2>3, <2>4 DEF Parties
    <2> HIDE DEF R, L, on, onlv
    <2>6. ASSUME Sound(P) PROVE n = Cardinality(Online(R)) /\ n = Cardinality(Online(L))
      <3>1. Online(R) = IF online THEN Online(P) \cup {c} ELSE Online(P) \ {c}
        BY <1>2, <2>2, <2>5 DEF Online
      <3>2. Online(L) = Online(R)
        <4>1. \A d \in DOMAIN P.member : memlv[d].online = mem[d].online
          BY <1>2, <2>2, <2>3
        <4> QED BY <2>2, <2>3, <2>5, <4>1 DEF Online
      <3>3. IsFiniteSet(Online(P)) /\ (c \in Online(P) <=> m.online)
        BY OnlineFacts DEF Online
      <3>4. m.online \in BOOLEAN
        BY <1>1 DEF Member
      <3>5. CASE online
        <4>1. c \notin Online(P)
          BY <1>4, <3>3, <3>4, <3>5
        <4>2. Cardinality(Online(P) \cup {c}) = Cardinality(Online(P)) + 1
          BY <3>3, <4>1, FS_AddElement
        <4> QED BY <2>6, <3>1, <3>2, <3>5, <4>2 DEF n, Sound
      <3>6. CASE ~online
        <4>1. c \in Online(P)
          BY <1>4, <3>3, <3>4, <3>6
        <4>2. Cardinality(Online(P) \ {c}) = Cardinality(Online(P)) - 1
          BY <3>3, <4>1, FS_RemoveElement
        <4> QED BY <2>6, <3>1, <3>2, <3>6, <4>2 DEF n, Sound
      <3> QED BY <3>5, <3>6
    <2>7. CASE border(m.lv) \/ border(lv)
      <3>1. Q = int_party_check_lv(L)
        BY <2>1, <2>7
      <3>2. /\ Q \in Parties /\ Q.member = memlv
            /\ Q.exp = (P.exp /\ party_check_exp_share(Q))
        BY <2>5, <3>1, Checked
      <3>3. Sound(P) => Sound(Q)
        BY <2>5, <2>6, <3>1, Rechecked
      <3> QED BY <1>2, <2>3, <3>2, <3>3
    <2>8. CASE ~(border(m.lv) \/ border(lv))
      <3>1. Q = R
        BY <2>1, <2>8
      <3>2. ASSUME Sound(P) PROVE Sound(Q)
        <4>1. m.lv \in Int
          BY <1>1, <1>0 DEF Member
        <4>2. P.min_lv < m.lv /\ m.lv < P.max_lv
          BY <2>8, <4>1, <1>0
        <4>3. Ranges(P)
          BY <3>2 DEF Sound
        <4>4. Levels(P) # {}
          BY <4>1, <4>2, <4>3, <1>0 DEF Ranges
        <4>5. Levels(Q) \subseteq Levels(P) \cup {m.lv} /\ Levels(P) \subseteq Levels(Q) \cup {m.lv}
          BY <1>2, <2>2, <2>5, <3>1 DEF Levels, Online
        <4>6. P.min_lv \in Levels(Q) /\ P.max_lv \in Levels(Q)
          BY <4>1, <4>2, <4>3, <4>4, <4>5, <1>0 DEF Ranges
        <4> HIDE DEF m
        <4> QED BY <2>5, <2>6, <3>1, <3>2, <4>4, <4>6, Kept
      <3> QED BY <1>2, <2>2, <2>5, <3>1, <3>2
    <2> QED BY <2>7, <2>8
  <1> QED BY <1>3, <1>4

(* A member that has gained or lost levels. *)
LEMMA LevelledFacts ==
  ASSUME ConstantsOK, NEW P \in Parties, NEW c \in DOMAIN P.member,
         NEW lv \in 1 .. TopLevel, NEW Q, Q = Levelled(P, c, lv)
  PROVE  /\ Q \in Parties
         /\ DOMAIN Q.member = DOMAIN P.member
         /\ Q.member[c].online = P.member[c].online
         /\ Q.member[c].lv = lv
         /\ \A d \in DOMAIN P.member \ {c} : Q.member[d] = P.member[d]
         /\ Q.exp => P.exp
         /\ Sound(P) => Sound(Q)
  <1> DEFINE m == P.member[c]
             new == [m EXCEPT !.lv = lv]
             mem == [P.member EXCEPT ![c] = new]
             R == [P EXCEPT !.member = mem]
  <1>0. /\ TopLevel \in Nat \ {0} /\ party_share_level \in Nat /\ P.count \in Int
        /\ P.min_lv \in Int /\ P.max_lv \in Int
    BY DEF ConstantsOK, Parties
  <1>1. P.member \in Rosters /\ c \in Chars /\ m \in Member
    BY RosterFacts DEF Parties
  <1>2. new \in Member /\ new.online = m.online /\ new.lv = lv
    BY <1>1 DEF Member
  <1>3. /\ mem \in Rosters /\ DOMAIN mem = DOMAIN P.member /\ mem[c] = new
        /\ \A d \in DOMAIN P.member \ {c} : mem[d] = P.member[d]
    <2> HIDE DEF new, m
    <2> QED BY <1>1, <1>2, Changed
  <1>4. [P EXCEPT !.member[c].lv = lv] = R
    BY <1>1 DEF Parties
  <1> HIDE DEF mem
  <1>5. /\ R \in Parties /\ R.member = mem /\ R.count = P.count /\ R.exp = P.exp
        /\ R.min_lv = P.min_lv /\ R.max_lv = P.max_lv
    BY <1>3 DEF Parties
  <1>6. Q = IF m.lv # lv /\ m.lv \in {P.min_lv, P.max_lv} THEN int_party_check_lv(R) ELSE R
    BY <1>4 DEF Levelled
  <1> HIDE DEF R, new
  <1>7. Online(R) = Online(P)
    BY <1>2, <1>3, <1>5 DEF Online
  <1>8. CASE m.lv # lv /\ m.lv \in {P.min_lv, P.max_lv}
    <2>1. Q = int_party_check_lv(R)
      BY <1>6, <1>8
    <2>2. /\ Q \in Parties /\ Q.member = mem
          /\ Q.exp = (P.exp /\ party_check_exp_share(Q))
      BY <1>5, <2>1, Checked
    <2>3. Sound(P) => Sound(Q)
      BY <1>5, <1>7, <2>1, Rechecked DEF Sound
    <2> QED BY <1>2, <1>3, <2>2, <2>3
  <1>9. CASE ~(m.lv # lv /\ m.lv \in {P.min_lv, P.max_lv})
    <2>1. Q = R
      BY <1>6, <1>9
    <2>2. ASSUME Sound(P) PROVE Sound(Q)
      <3>2. Ranges(P)
        BY <2>2 DEF Sound
      <3>3. \A l : l \in Levels(P) /\ l # m.lv => l \in Levels(Q)
        BY <1>2, <1>3, <1>5, <1>7, <2>1 DEF Levels, Online
      <3>4. \A l \in Levels(Q) : l \in Levels(P) \/ (l = lv /\ m.online)
        BY <1>2, <1>3, <1>5, <1>7, <2>1 DEF Levels, Online
      <3>5. m.online => m.lv \in Levels(P)
        BY DEF Levels, Online
      <3>6. m.lv = lv => Levels(P) \subseteq Levels(Q)
        BY <1>2, <1>3, <1>5, <1>7, <2>1 DEF Levels, Online
      <3>7. Levels(P) # {} => P.min_lv \in Levels(Q) /\ P.max_lv \in Levels(Q)
        BY <1>9, <3>2, <3>3, <3>6 DEF Ranges
      <3>8. Levels(P) = {} => Levels(Q) = {}
        BY <3>4, <3>5
      <3>9. Q.count = Cardinality(Online(Q))
        BY <1>5, <1>7, <2>1, <2>2 DEF Sound
      <3> HIDE DEF m
      <3> QED BY <1>5, <2>1, <2>2, <3>7, <3>8, <3>9, Kept
    <2> QED BY <1>2, <1>3, <1>5, <2>1, <2>2
  <1> QED BY <1>8, <1>9

-----------------------------------------------------------------------------
(* Sequences of messages. *)
LEMMA One == ASSUME NEW S, NEW x \in S PROVE <<x>> \in Seq(S)
  OBVIOUS

LEMMA Listed ==
  ASSUME NEW S, IsFiniteSet(S)
  PROVE  SetToSeq(S) \in Seq(S)
  <1> DEFINE n == Cardinality(S)
  <1>1. n \in Nat /\ ExistsBijection(1 .. n, S)
    BY FS_CardinalityType
  <1>2. PICK f \in Bijection(1 .. n, S) : TRUE
    BY <1>1 DEF ExistsBijection
  <1>3. f \in [1 .. n -> S] /\ IsInjective(f)
    BY <1>2 DEF Bijection, Injection, IsInjective
  <1>4. SetToSeq(S) \in [1 .. n -> S]
    BY <1>3 DEF SetToSeq
  <1> HIDE DEF n
  <1> QED BY <1>1, <1>4

(* How a link changes: k messages (one or none) are taken from its front,  *)
(* the new ones come after the others and belong to New.                   *)
Moves(q, r, New) ==
  \E k \in {0, 1} :
    /\ \A i \in DOMAIN q : i > k => i - k \in DOMAIN r /\ r[i - k] = q[i]
    /\ \A i \in DOMAIN r : IF i + k \in DOMAIN q THEN r[i] = q[i + k] ELSE r[i] \in New

LEMMA Same ==
  ASSUME NEW T, NEW q \in Seq(T), NEW New
  PROVE  Moves(q, q, New)
  <1>1. \A i \in DOMAIN q : i \in Nat /\ i > 0
    OBVIOUS
  <1>2. \A i \in DOMAIN q : i - 0 = i /\ i + 0 = i
    BY <1>1
  <1> QED BY <1>1, <1>2 DEF Moves

LEMMA Taken ==
  ASSUME NEW T, NEW q \in Seq(T), q # <<>>, NEW New
  PROVE  /\ Tail(q) \in Seq(T)
         /\ Head(q) \in T /\ 1 \in DOMAIN q /\ Head(q) = q[1]
         /\ \A i \in DOMAIN q : i > 1 => i - 1 \in DOMAIN Tail(q) /\ Tail(q)[i - 1] = q[i]
         /\ \A i \in DOMAIN Tail(q) : i + 1 \in DOMAIN q /\ Tail(q)[i] = q[i + 1]
         /\ Moves(q, Tail(q), New)
  <1>1. /\ Tail(q) \in Seq(T) /\ Head(q) \in T /\ 1 \in DOMAIN q /\ Head(q) = q[1]
        /\ DOMAIN q = 1 .. Len(q) /\ DOMAIN Tail(q) = 1 .. Len(q) - 1 /\ Len(q) \in Nat
        /\ \A i \in 1 .. Len(q) - 1 : Tail(q)[i] = q[i + 1]
    BY EmptySeq, HeadTailProperties, LenProperties
  <1>2. \A i \in DOMAIN q : i > 1 => i - 1 \in DOMAIN Tail(q) /\ Tail(q)[i - 1] = q[i]
    <2> SUFFICES ASSUME NEW i \in DOMAIN q, i > 1
                 PROVE  i - 1 \in DOMAIN Tail(q) /\ Tail(q)[i - 1] = q[i]
      OBVIOUS
    <2>1. i - 1 \in 1 .. Len(q) - 1 /\ (i - 1) + 1 = i
      BY <1>1
    <2> QED BY <1>1, <2>1
  <1>3. \A i \in DOMAIN Tail(q) : i + 1 \in DOMAIN q /\ Tail(q)[i] = q[i + 1]
    BY <1>1
  <1> QED BY <1>1, <1>2, <1>3 DEF Moves

LEMMA Added2 ==
  ASSUME NEW T, NEW q \in Seq(T), NEW r \in Seq(T), NEW New, r \in Seq(New)
  PROVE  /\ q \o r \in Seq(T)
         /\ DOMAIN q \subseteq DOMAIN (q \o r)
         /\ \A i \in DOMAIN q : (q \o r)[i] = q[i]
         /\ \A j \in DOMAIN r : Len(q) + j \in DOMAIN (q \o r) /\ (q \o r)[Len(q) + j] = r[j]
         /\ \A i \in DOMAIN (q \o r) : \/ i \in DOMAIN q
                                       \/ i - Len(q) \in DOMAIN r /\ (q \o r)[i] = r[i - Len(q)]
         /\ Moves(q, q \o r, New)
  <1> DEFINE u == q \o r
  <1>1. /\ u \in Seq(T) /\ DOMAIN u = 1 .. Len(q) + Len(r) /\ DOMAIN q = 1 .. Len(q)
        /\ DOMAIN r = 1 .. Len(r) /\ Len(q) \in Nat /\ Len(r) \in Nat
        /\ \A i \in 1 .. Len(q) + Len(r) : u[i] = IF i <= Len(q) THEN q[i] ELSE r[i - Len(q)]
    BY ConcatProperties, LenProperties
  <1> HIDE DEF u
  <1>2. \A i \in DOMAIN q : i \in DOMAIN u /\ u[i] = q[i]
    BY <1>1
  <1>3. \A j \in DOMAIN r : Len(q) + j \in DOMAIN u /\ u[Len(q) + j] = r[j]
    <2> TAKE j \in DOMAIN r
    <2>1. Len(q) + j \in 1 .. Len(q) + Len(r) /\ ~(Len(q) + j <= Len(q)) /\ (Len(q) + j) - Len(q) = j
      BY <1>1
    <2> QED BY <1>1, <2>1
  <1>4. \A i \in DOMAIN u : i \in DOMAIN q \/ (i - Len(q) \in DOMAIN r /\ u[i] = r[i - Len(q)])
    BY <1>1
  <1>5. \A j \in DOMAIN r : r[j] \in New
    OBVIOUS
  <1>6. \A i \in DOMAIN q : i - 0 = i
    BY <1>1
  <1>7. \A i \in DOMAIN u : i + 0 = i
    BY <1>1
  <1>8. Moves(q, u, New)
    BY <1>2, <1>4, <1>5, <1>6, <1>7 DEF Moves
  <1> QED BY <1>1, <1>2, <1>3, <1>4, <1>8 DEF u

LEMMA MoreMoves ==
  ASSUME NEW q, NEW r, NEW A, NEW B, A \subseteq B, Moves(q, r, A)
  PROVE  Moves(q, r, B)
  BY DEF Moves

-----------------------------------------------------------------------------
(* Types, of the links as well. *)
Shape ==
  /\ party_db_ \in [Ids -> Parties \cup {None}]
  /\ lastId \in 0 .. LastParty
  /\ row \in [Chars -> 0 .. LastParty]
  /\ party_db \in [Servers -> [Ids -> Copies \cup {None}]]
  /\ player \in [Chars -> Sessions \cup {Away}]
  /\ level \in [Chars -> 1 .. TopLevel]
  /\ toChar \in [Servers -> Seq(ToCharMsg)]
  /\ toMap \in [Servers -> Seq(ToMapMsg)]
  /\ asked \in 0 .. Bound

(* A character who is let in is out of the game, and let in once; one for  *)
(* whom the registries are asked is there, and they are asked for once.    *)
IsAuth(m, c) == m.kind = "auth" /\ m.who = c
IsReg(m, c) == m.kind = "reg" /\ m.who = c

LetIn == \A c \in Chars, s \in Servers : \A i \in DOMAIN toMap[s] : IsAuth(toMap[s][i], c) =>
  /\ player[c] = Away
  /\ \A t \in Servers : \A j \in DOMAIN toMap[t] : IsAuth(toMap[t][j], c) => t = s /\ j = i

Waits(c, s) == player[c].at = s /\ player[c].state = "auth"

Awaited == \A c \in Chars, s \in Servers :
  /\ \A i \in DOMAIN toMap[s] : IsReg(toMap[s][i], c) =>
       /\ Waits(c, s)
       /\ \A j \in DOMAIN toMap[s] : IsReg(toMap[s][j], c) => j = i
       /\ \A j \in DOMAIN toChar[s] : ~IsReg(toChar[s][j], c)
  /\ \A i \in DOMAIN toChar[s] : IsReg(toChar[s][i], c) =>
       /\ Waits(c, s)
       /\ \A j \in DOMAIN toChar[s] : IsReg(toChar[s][j], c) => j = i

(* Nobody has heard of a party that is not founded yet. *)
About(m, kinds, n) == m.kind \in kinds => m.party <= n
Founding == {"info", "withdraw", "moved", "option", "added"}

Fresh ==
  /\ \A p \in Ids : p > lastId => /\ party_db_[p] = None
                                  /\ \A s \in Servers : party_db[s][p] = None
  /\ \A s \in Servers : \A i \in DOMAIN toMap[s] : About(toMap[s][i], Founding, lastId)
  /\ \A s \in Servers : \A i \in DOMAIN toChar[s] : About(toChar[s][i], {"join"}, lastId)
  /\ \A c \in Chars : player[c].invite <= lastId

Types == Shape /\ LetIn /\ Awaited /\ Fresh

(* What the two sides may say at any time. *)
CharAware(n) == {m \in ToMapMsg : About(m, Founding, n)}
CharNews(n) == {m \in CharAware(n) : m.kind \notin {"auth", "reg"}}
MapAware(n) == {m \in ToCharMsg : About(m, {"join"}, n)}
MapNews(n)  == {m \in MapAware(n) : m.kind # "reg"}

(* Who is in the game stays there, unless nobody waits for its registries. *)
Steady == \A c \in Chars : /\ player[c] = Away => player'[c] = Away
                           /\ \A s \in Servers : Waits(c, s) => Waits(c, s)'

LEMMA StillOut ==
  ASSUME Types, Shape', NEW c \in Chars, player[c] = Away => player'[c] = Away,
         \A t \in Servers : \E k \in {0, 1} : \A j \in DOMAIN toMap'[t] :
           IsAuth(toMap'[t][j], c) => j + k \in DOMAIN toMap[t] /\ IsAuth(toMap[t][j + k], c),
         NEW s \in Servers, NEW i \in DOMAIN toMap'[s], IsAuth(toMap'[s][i], c)
  PROVE  /\ player'[c] = Away
         /\ \A t \in Servers : \A j \in DOMAIN toMap'[t] :
              IsAuth(toMap'[t][j], c) => t = s /\ j = i
  <1>2. PICK k \in {0, 1} : /\ i + k \in DOMAIN toMap[s] /\ IsAuth(toMap[s][i + k], c)
                            /\ \A j \in DOMAIN toMap'[s] : IsAuth(toMap'[s][j], c) =>
                                 /\ j + k \in DOMAIN toMap[s] /\ IsAuth(toMap[s][j + k], c)
    OBVIOUS
  <1>3. player[c] = Away
    BY <1>2 DEF Types, LetIn
  <1>4. player'[c] = Away
    BY <1>3
  <1>5. ASSUME NEW t \in Servers, NEW j \in DOMAIN toMap'[t], IsAuth(toMap'[t][j], c)
        PROVE  t = s /\ j = i
    <2>1. PICK h \in {0, 1} : j + h \in DOMAIN toMap[t] /\ IsAuth(toMap[t][j + h], c)
      BY <1>5
    <2>2. t = s
      BY <1>2, <2>1 DEF Types, LetIn
    <2>3. j + k \in DOMAIN toMap[s] /\ IsAuth(toMap[s][j + k], c)
      BY <1>2, <1>5, <2>2
    <2>4. j + k = i + k
      BY <1>2, <2>3 DEF Types, LetIn
    <2>5. toMap'[s] \in Seq(ToMapMsg) /\ i \in DOMAIN toMap'[s] /\ j \in DOMAIN toMap'[s]
      BY <2>2 DEF Shape
    <2>6. DOMAIN toMap'[s] = 1 .. Len(toMap'[s])
      BY <2>5, LenProperties
    <2>7. i \in Int /\ j \in Int
      BY <2>5, <2>6
    <2> QED BY <2>2, <2>4, <2>7
  <1> QED BY <1>4, <1>5

LEMMA LetInKept ==
  ASSUME Types, Shape', Steady, NEW New, \A m \in New : m.kind # "auth",
         \A t \in Servers : Moves(toMap[t], toMap'[t], New)
  PROVE  LetIn'
  <1> SUFFICES ASSUME NEW c \in Chars, NEW s \in Servers, NEW i \in DOMAIN toMap'[s],
                      IsAuth(toMap'[s][i], c)
               PROVE  /\ player'[c] = Away
                      /\ \A t \in Servers : \A j \in DOMAIN toMap'[t] :
                           IsAuth(toMap'[t][j], c) => t = s /\ j = i
    BY DEF LetIn
  <1>1. \A t \in Servers : \E k \in {0, 1} : \A j \in DOMAIN toMap'[t] :
          IsAuth(toMap'[t][j], c) => /\ j + k \in DOMAIN toMap[t]
                                     /\ IsAuth(toMap[t][j + k], c)
    BY DEF Moves, IsAuth
  <1>2. player[c] = Away => player'[c] = Away
    BY DEF Steady
  <1> QED BY <1>1, <1>2, StillOut

LEMMA StillAwaited ==
  ASSUME Types, Shape', NEW c \in Chars, NEW s \in Servers, Waits(c, s) => Waits(c, s)',
         \E k \in {0, 1} : \A j \in DOMAIN toMap'[s] : IsReg(toMap'[s][j], c) =>
           j + k \in DOMAIN toMap[s] /\ IsReg(toMap[s][j + k], c),
         \E h \in {0, 1} : \A j \in DOMAIN toChar'[s] : IsReg(toChar'[s][j], c) =>
           j + h \in DOMAIN toChar[s] /\ IsReg(toChar[s][j + h], c)
  PROVE  /\ \A i \in DOMAIN toMap'[s] : IsReg(toMap'[s][i], c) =>
              /\ Waits(c, s)'
              /\ \A j \in DOMAIN toMap'[s] : IsReg(toMap'[s][j], c) => j = i
              /\ \A j \in DOMAIN toChar'[s] : ~IsReg(toChar'[s][j], c)
         /\ \A i \in DOMAIN toChar'[s] : IsReg(toChar'[s][i], c) =>
              /\ Waits(c, s)'
              /\ \A j \in DOMAIN toChar'[s] : IsReg(toChar'[s][j], c) => j = i
  <1>1. PICK k \in {0, 1} : \A j \in DOMAIN toMap'[s] : IsReg(toMap'[s][j], c) =>
          j + k \in DOMAIN toMap[s] /\ IsReg(toMap[s][j + k], c)
    OBVIOUS
  <1>2. PICK h \in {0, 1} : \A j \in DOMAIN toChar'[s] : IsReg(toChar'[s][j], c) =>
          j + h \in DOMAIN toChar[s] /\ IsReg(toChar[s][j + h], c)
    OBVIOUS
  <1>3. Waits(c, s) => Waits(c, s)'
    OBVIOUS
  <1>4. /\ \A i \in DOMAIN toMap'[s] : i \in Int
        /\ \A i \in DOMAIN toChar'[s] : i \in Int
    <2>1. toMap'[s] \in Seq(ToMapMsg) /\ toChar'[s] \in Seq(ToCharMsg)
      BY DEF Shape
    <2>2. DOMAIN toMap'[s] = 1 .. Len(toMap'[s]) /\ DOMAIN toChar'[s] = 1 .. Len(toChar'[s])
      BY <2>1, LenProperties
    <2> QED BY <2>2
  <1>5. /\ \A i \in DOMAIN toMap[s] : IsReg(toMap[s][i], c) =>
             /\ Waits(c, s)
             /\ \A j \in DOMAIN toMap[s] : IsReg(toMap[s][j], c) => j = i
             /\ \A j \in DOMAIN toChar[s] : ~IsReg(toChar[s][j], c)
        /\ \A i \in DOMAIN toChar[s] : IsReg(toChar[s][i], c) =>
             /\ Waits(c, s)
             /\ \A j \in DOMAIN toChar[s] : IsReg(toChar[s][j], c) => j = i
    BY DEF Types, Awaited
  <1> HIDE DEF Waits, IsReg
  <1>6. ASSUME NEW i \in DOMAIN toMap'[s], IsReg(toMap'[s][i], c)
        PROVE  /\ Waits(c, s)'
               /\ \A j \in DOMAIN toMap'[s] : IsReg(toMap'[s][j], c) => j = i
               /\ \A j \in DOMAIN toChar'[s] : ~IsReg(toChar'[s][j], c)
    <2>1. i + k \in DOMAIN toMap[s] /\ IsReg(toMap[s][i + k], c)
      BY <1>1, <1>6
    <2>2. \A j \in DOMAIN toMap'[s] : IsReg(toMap'[s][j], c) => j + k = i + k
      BY <1>1, <1>5, <2>1
    <2>3. \A j \in DOMAIN toChar'[s] : ~IsReg(toChar'[s][j], c)
      BY <1>2, <1>5, <2>1
    <2>4. \A j \in DOMAIN toMap'[s] : IsReg(toMap'[s][j], c) => j = i
      <3> TAKE j \in DOMAIN toMap'[s]
      <3> HAVE IsReg(toMap'[s][j], c)
      <3>1. j + k = i + k
        BY <2>2
      <3>2. i \in Int /\ j \in Int /\ k \in Int
        BY <1>1, <1>4
      <3> QED BY <3>1, <3>2
    <2> QED BY <1>3, <1>5, <2>1, <2>3, <2>4
  <1>7. ASSUME NEW i \in DOMAIN toChar'[s], IsReg(toChar'[s][i], c)
        PROVE  /\ Waits(c, s)'
               /\ \A j \in DOMAIN toChar'[s] : IsReg(toChar'[s][j], c) => j = i
    <2>1. i + h \in DOMAIN toChar[s] /\ IsReg(toChar[s][i + h], c)
      BY <1>2, <1>7
    <2>2. \A j \in DOMAIN toChar'[s] : IsReg(toChar'[s][j], c) => j + h = i + h
      BY <1>2, <1>5, <2>1
    <2>4. \A j \in DOMAIN toChar'[s] : IsReg(toChar'[s][j], c) => j = i
      <3> TAKE j \in DOMAIN toChar'[s]
      <3> HAVE IsReg(toChar'[s][j], c)
      <3>1. j + h = i + h
        BY <2>2
      <3>2. i \in Int /\ j \in Int /\ h \in Int
        BY <1>2, <1>4
      <3> QED BY <3>1, <3>2
    <2> QED BY <1>3, <1>5, <2>1, <2>4
  <1> QED BY <1>6, <1>7

LEMMA AwaitedKept ==
  ASSUME Types, Shape', Steady, NEW n, NEW o,
         \A t \in Servers : Moves(toMap[t], toMap'[t], CharNews(n)),
         \A t \in Servers : Moves(toChar[t], toChar'[t], MapNews(o))
  PROVE  Awaited'
  <1> SUFFICES ASSUME NEW c \in Chars, NEW s \in Servers
               PROVE  /\ \A i \in DOMAIN toMap'[s] : IsReg(toMap'[s][i], c) =>
                           /\ Waits(c, s)'
                           /\ \A j \in DOMAIN toMap'[s] : IsReg(toMap'[s][j], c) => j = i
                           /\ \A j \in DOMAIN toChar'[s] : ~IsReg(toChar'[s][j], c)
                      /\ \A i \in DOMAIN toChar'[s] : IsReg(toChar'[s][i], c) =>
                           /\ Waits(c, s)'
                           /\ \A j \in DOMAIN toChar'[s] : IsReg(toChar'[s][j], c) => j = i
    BY DEF Awaited
  <1>1. \E k \in {0, 1} : \A j \in DOMAIN toMap'[s] : IsReg(toMap'[s][j], c) =>
          j + k \in DOMAIN toMap[s] /\ IsReg(toMap[s][j + k], c)
    BY DEF Moves, CharNews, IsReg
  <1>2. \E h \in {0, 1} : \A j \in DOMAIN toChar'[s] : IsReg(toChar'[s][j], c) =>
          j + h \in DOMAIN toChar[s] /\ IsReg(toChar[s][j + h], c)
    BY DEF Moves, MapNews, IsReg
  <1>3. Waits(c, s) => Waits(c, s)'
    BY DEF Steady
  <1> QED BY <1>1, <1>2, <1>3, StillAwaited

LEMMA FreshKept ==
  ASSUME Types, Shape', lastId' >= lastId,
         \A p \in Ids : p > lastId' => /\ party_db_'[p] = None
                                       /\ \A s \in Servers : party_db'[s][p] = None,
         \A c \in Chars : player'[c].invite <= lastId',
         \A t \in Servers : Moves(toMap[t], toMap'[t], CharAware(lastId')),
         \A t \in Servers : Moves(toChar[t], toChar'[t], MapAware(lastId'))
  PROVE  Fresh'
  <1>1. lastId \in Int /\ lastId' \in Int
    BY DEF Types, Shape
  <1>2. \A t \in Servers : \A i \in DOMAIN toMap'[t] : About(toMap'[t][i], Founding, lastId')
    <2> SUFFICES ASSUME NEW t \in Servers, NEW i \in DOMAIN toMap'[t],
                        toMap'[t][i].kind \in Founding
                 PROVE  toMap'[t][i].party <= lastId'
      BY DEF About
    <2>1. CASE \E j \in DOMAIN toMap[t] : toMap'[t][i] = toMap[t][j]
      <3>1. PICK j \in DOMAIN toMap[t] : toMap'[t][i] = toMap[t][j]
        BY <2>1
      <3>2. toMap[t][j].party <= lastId
        BY <3>1 DEF Types, Fresh, About
      <3>3. toMap[t][j].party \in Int
        <4>1. toMap[t][j] \in ToMapMsg /\ toMap[t][j].kind \in Founding
          BY <3>1 DEF Types, Shape
        <4>2. toMap[t][j] \in Infos \cup Withdraws \cup Moveds \cup Options \cup Addeds
          BY <4>1, ToMapKinds DEF Founding
        <4> QED BY <4>2 DEF Infos, Withdraws, Moveds, Options, Addeds, Ids
      <3> QED BY <1>1, <3>1, <3>2, <3>3
    <2>2. CASE toMap'[t][i] \in CharAware(lastId')
      BY <2>2 DEF CharAware, About
    <2> QED BY <2>1, <2>2 DEF Moves
  <1>3. \A t \in Servers : \A i \in DOMAIN toChar'[t] : About(toChar'[t][i], {"join"}, lastId')
    <2> SUFFICES ASSUME NEW t \in Servers, NEW i \in DOMAIN toChar'[t],
                        toChar'[t][i].kind = "join"
                 PROVE  toChar'[t][i].party <= lastId'
      BY DEF About
    <2>1. CASE \E j \in DOMAIN toChar[t] : toChar'[t][i] = toChar[t][j]
      <3>1. PICK j \in DOMAIN toChar[t] : toChar'[t][i] = toChar[t][j]
        BY <2>1
      <3>2. toChar[t][j].party <= lastId
        BY <3>1 DEF Types, Fresh, About
      <3>3. toChar[t][j].party \in Int
        <4>1. toChar[t][j] \in ToCharMsg /\ toChar[t][j].kind = "join"
          BY <3>1 DEF Types, Shape
        <4>2. toChar[t][j] \in JoinMsgs
          BY <4>1, ToCharKinds
        <4> QED BY <4>2 DEF JoinMsgs, Ids
      <3> QED BY <1>1, <3>1, <3>2, <3>3
    <2>2. CASE toChar'[t][i] \in MapAware(lastId')
      BY <2>2 DEF MapAware, About
    <2> QED BY <2>1, <2>2 DEF Moves
  <1> QED BY <1>2, <1>3 DEF Fresh

-----------------------------------------------------------------------------
(* What the char-server says to a map-server in one step: `one` is for the *)
(* one that asked.                                                         *)
Said(all, one, s, t) == all \o IF t = s THEN one ELSE <<>>

LEMMA Regrouped ==
  ASSUME NEW T, NEW a \in Seq(T), NEW b \in Seq(T), NEW c \in Seq(T)
  PROVE  (a \o b) \o c = a \o (b \o c)
  BY ConcatAssociative

(* A link whose messages stay where they are. *)
Stays(q, r) == \A i \in DOMAIN q : i \in DOMAIN r /\ r[i] = q[i]

LEMMA Answered ==
  ASSUME Types, NEW s \in Servers, NEW all, NEW one, Answer(s, all, one), toChar[s] # <<>>,
         NEW N, N \subseteq ToMapMsg, all \in Seq(N), one \in Seq(N)
  PROVE  /\ toChar' \in [Servers -> Seq(ToCharMsg)] /\ toMap' \in [Servers -> Seq(ToMapMsg)]
         /\ Head(toChar[s]) \in ToCharMsg
         /\ toChar'[s] = Tail(toChar[s])
         /\ \A t \in Servers : t # s => toChar'[t] = toChar[t]
         /\ \A t \in Servers : /\ Said(all, one, s, t) \in Seq(N)
                               /\ toMap'[t] = toMap[t] \o Said(all, one, s, t)
         /\ \A t \in Servers : Moves(toMap[t], toMap'[t], N)
         /\ \A t \in Servers : Moves(toChar[t], toChar'[t], {})
         /\ \A t \in Servers : Stays(toMap[t], toMap'[t])
         /\ UNCHANGED <<mapVars, asked>>
  <1>1. toChar \in [Servers -> Seq(ToCharMsg)] /\ toMap \in [Servers -> Seq(ToMapMsg)]
    BY DEF Types, Shape
  <1>2. toChar[s] \in Seq(ToCharMsg)
    BY <1>1
  <1>3. Tail(toChar[s]) \in Seq(ToCharMsg) /\ Head(toChar[s]) \in ToCharMsg
        /\ Moves(toChar[s], Tail(toChar[s]), {})
    BY <1>2, Taken
  <1>4. toChar' = [toChar EXCEPT ![s] = Tail(toChar[s])]
    BY DEF Answer
  <1>5. toMap' = [t \in Servers |-> toMap[t] \o all \o IF t = s THEN one ELSE <<>>]
    BY DEF Answer
  <1>6. <<>> \in Seq(N)
    OBVIOUS
  <1>7. ASSUME NEW t \in Servers
        PROVE  /\ Said(all, one, s, t) \in Seq(N)
               /\ toMap'[t] = toMap[t] \o Said(all, one, s, t)
               /\ toMap'[t] \in Seq(ToMapMsg)
               /\ Moves(toMap[t], toMap'[t], N) /\ Stays(toMap[t], toMap'[t])
    <2> DEFINE x == IF t = s THEN one ELSE <<>>
               r == Said(all, one, s, t)
    <2>1. x \in Seq(N)
      BY <1>6
    <2>2. all \in Seq(ToMapMsg) /\ x \in Seq(ToMapMsg)
      BY <2>1, SeqMonotonic
    <2>3. r = all \o x
      BY DEF Said
    <2>4. toMap'[t] = (toMap[t] \o all) \o x
      BY <1>5
    <2> HIDE DEF x, r
    <2>5. r \in Seq(N) /\ r \in Seq(ToMapMsg)
      BY <2>1, <2>2, <2>3, ConcatProperties, Zenon
    <2>6. toMap[t] \in Seq(ToMapMsg)
      BY <1>1
    <2>7. toMap'[t] = toMap[t] \o r
      <3>1. (toMap[t] \o all) \o x = toMap[t] \o (all \o x)
        <4> DEFINE q == toMap[t]
        <4>1. q \in Seq(ToMapMsg)
          BY <2>6
        <4> HIDE DEF q
        <4>2. (q \o all) \o x = q \o (all \o x)
          BY <2>2, <4>1, Regrouped
        <4> QED BY <4>2 DEF q
      <3> QED BY <2>3, <2>4, <3>1
    <2>8. toMap[t] \o r \in Seq(ToMapMsg) /\ Moves(toMap[t], toMap[t] \o r, N)
          /\ DOMAIN toMap[t] \subseteq DOMAIN (toMap[t] \o r)
          /\ \A i \in DOMAIN toMap[t] : (toMap[t] \o r)[i] = toMap[t][i]
      BY <2>5, <2>6, Added2
    <2>9. Stays(toMap[t], toMap'[t])
      BY <2>7, <2>8 DEF Stays
    <2> QED BY <2>5, <2>7, <2>8, <2>9 DEF r
  <1>8. toMap' \in [Servers -> Seq(ToMapMsg)]
    BY <1>5, <1>7
  <1>9. toChar' \in [Servers -> Seq(ToCharMsg)] /\ toChar'[s] = Tail(toChar[s])
        /\ \A t \in Servers : t # s => toChar'[t] = toChar[t]
    BY <1>1, <1>3, <1>4
  <1>10. \A t \in Servers : Moves(toChar[t], toChar'[t], {})
    <2> TAKE t \in Servers
    <2>1. CASE t = s
      BY <1>3, <1>9, <2>1
    <2>2. CASE t # s
      <3>1. toChar[t] \in Seq(ToCharMsg) /\ toChar'[t] = toChar[t]
        BY <1>1, <1>9, <2>2
      <3> QED BY <3>1, Same
    <2> QED BY <2>1, <2>2
  <1>11. UNCHANGED <<mapVars, asked>>
    BY DEF Answer
  <1> QED BY <1>3, <1>7, <1>8, <1>9, <1>10, <1>11

LEMMA AnswerTypes ==
  ASSUME Types, NEW s \in Servers, NEW all, NEW one, Answer(s, all, one), toChar[s] # <<>>,
         lastId' \in 0 .. LastParty, lastId' >= lastId,
         all \in Seq(CharNews(lastId')), one \in Seq(CharNews(lastId')),
         party_db_' \in [Ids -> Parties \cup {None}],
         row' \in [Chars -> 0 .. LastParty],
         \A p \in Ids : p > lastId' => party_db_'[p] = None
  PROVE  Types'
  <1> DEFINE N == CharNews(lastId')
  <1>1. N \subseteq ToMapMsg
    BY DEF CharNews, CharAware
  <1>2. /\ toChar' \in [Servers -> Seq(ToCharMsg)] /\ toMap' \in [Servers -> Seq(ToMapMsg)]
        /\ \A t \in Servers : Moves(toMap[t], toMap'[t], N)
        /\ \A t \in Servers : Moves(toChar[t], toChar'[t], {})
        /\ UNCHANGED <<mapVars, asked>>
    <2> HIDE DEF N
    <2>1. all \in Seq(N) /\ one \in Seq(N)
      BY DEF N
    <2> QED BY <1>1, <2>1, Answered
  <1>3. Shape'
    BY <1>2 DEF Types, Shape, mapVars
  <1>4. Steady
    BY <1>2 DEF Steady, Waits, mapVars
  <1>5. \A t \in Servers : Moves(toChar[t], toChar'[t], MapNews(lastId'))
    BY <1>2, MoreMoves
  <1>6. LetIn' /\ Awaited'
    <2>1. \A m \in CharNews(lastId') : m.kind # "auth"
      BY DEF CharNews
    <2>2. LetIn'
      BY <1>2, <1>3, <1>4, <2>1, LetInKept
    <2> QED BY <1>2, <1>3, <1>4, <1>5, <2>2, AwaitedKept
  <1>7. \A p \in Ids : p > lastId' => \A t \in Servers : party_db'[t][p] = None
    <2>1. \A p \in Ids : p > lastId' => p > lastId
      BY DEF Types, Shape, Ids
    <2> QED BY <1>2, <2>1 DEF Types, Fresh, mapVars
  <1>8. \A c \in Chars : player'[c].invite <= lastId'
    <2>1. \A c \in Chars : player[c].invite <= lastId /\ player[c].invite \in Int
      BY DEF Types, Fresh, Shape, Sessions, Away
    <2>2. player' = player /\ lastId \in Int /\ lastId' \in Int
      BY <1>2, <1>3 DEF mapVars, Types, Shape
    <2> QED BY <2>1, <2>2
  <1>9. Fresh'
    <2>1. CharNews(lastId') \subseteq CharAware(lastId')
      BY DEF CharNews
    <2>2. \A t \in Servers : Moves(toMap[t], toMap'[t], CharAware(lastId'))
      BY <1>2, <2>1, MoreMoves
    <2>3. \A t \in Servers : Moves(toChar[t], toChar'[t], MapAware(lastId'))
      BY <1>2, MoreMoves
    <2> QED BY <1>3, <1>7, <1>8, <2>2, <2>3, FreshKept
  <1> QED BY <1>3, <1>6, <1>9 DEF Types

(* A map-server handles a message. *)
LEMMA HandledLinks ==
  ASSUME Types, NEW s \in Servers, NEW packets, Handled(s, packets), toMap[s] # <<>>,
         NEW N, N \subseteq ToCharMsg, packets \in Seq(N)
  PROVE  /\ toChar' \in [Servers -> Seq(ToCharMsg)] /\ toMap' \in [Servers -> Seq(ToMapMsg)]
         /\ Head(toMap[s]) \in ToMapMsg
         /\ toMap'[s] = Tail(toMap[s])
         /\ toChar'[s] = toChar[s] \o packets
         /\ \A t \in Servers : t # s => toMap'[t] = toMap[t] /\ toChar'[t] = toChar[t]
         /\ \A t \in Servers : Moves(toMap[t], toMap'[t], {})
         /\ \A t \in Servers : Moves(toChar[t], toChar'[t], N)
         /\ UNCHANGED <<charVars, level, asked>>
  <1>1. toChar \in [Servers -> Seq(ToCharMsg)] /\ toMap \in [Servers -> Seq(ToMapMsg)]
    BY DEF Types, Shape
  <1>2. toChar[s] \in Seq(ToCharMsg) /\ toMap[s] \in Seq(ToMapMsg)
    BY <1>1
  <1>3. Tail(toMap[s]) \in Seq(ToMapMsg) /\ Head(toMap[s]) \in ToMapMsg
        /\ Moves(toMap[s], Tail(toMap[s]), {})
    BY <1>2, Taken
  <1>4. toMap' = [toMap EXCEPT ![s] = Tail(toMap[s])]
        /\ toChar' = [toChar EXCEPT ![s] = toChar[s] \o packets]
        /\ UNCHANGED <<charVars, level, asked>>
    BY DEF Handled
  <1>5. packets \in Seq(ToCharMsg)
    BY SeqMonotonic
  <1>6. toChar[s] \o packets \in Seq(ToCharMsg) /\ Moves(toChar[s], toChar[s] \o packets, N)
    BY <1>2, <1>5, Added2
  <1>7. /\ toMap'[s] = Tail(toMap[s]) /\ toChar'[s] = toChar[s] \o packets
        /\ \A t \in Servers : t # s => toMap'[t] = toMap[t] /\ toChar'[t] = toChar[t]
        /\ toChar' \in [Servers -> Seq(ToCharMsg)] /\ toMap' \in [Servers -> Seq(ToMapMsg)]
    BY <1>1, <1>3, <1>4, <1>6
  <1>8. ASSUME NEW t \in Servers
        PROVE  Moves(toMap[t], toMap'[t], {}) /\ Moves(toChar[t], toChar'[t], N)
    <2>1. CASE t = s
      BY <1>3, <1>6, <1>7, <2>1
    <2>2. CASE t # s
      <3>1. toMap[t] \in Seq(ToMapMsg) /\ toChar[t] \in Seq(ToCharMsg)
        BY <1>1
      <3>2. Moves(toMap[t], toMap[t], {}) /\ Moves(toChar[t], toChar[t], N)
        BY <3>1, Same
      <3> QED BY <1>7, <2>2, <3>2
    <2> QED BY <2>1, <2>2
  <1> QED BY <1>3, <1>4, <1>7, <1>8

LEMMA HandledTypes ==
  ASSUME Types, NEW s \in Servers, NEW packets, Handled(s, packets), toMap[s] # <<>>,
         packets \in Seq(MapNews(lastId)),
         party_db' \in [Servers -> [Ids -> Copies \cup {None}]],
         player' \in [Chars -> Sessions \cup {Away}],
         \A p \in Ids : p > lastId => \A t \in Servers : party_db'[t][p] = None,
         \A c \in Chars : player'[c].invite <= lastId,
         Steady
  PROVE  Types'
  <1> DEFINE N == MapNews(lastId)
  <1>1. N \subseteq ToCharMsg
    BY DEF MapNews, MapAware
  <1>2. /\ toChar' \in [Servers -> Seq(ToCharMsg)] /\ toMap' \in [Servers -> Seq(ToMapMsg)]
        /\ \A t \in Servers : Moves(toMap[t], toMap'[t], {})
        /\ \A t \in Servers : Moves(toChar[t], toChar'[t], N)
        /\ UNCHANGED <<charVars, level, asked>>
    <2> HIDE DEF N
    <2>1. packets \in Seq(N)
      BY DEF N
    <2> QED BY <1>1, <2>1, HandledLinks
  <1>3. Shape'
    BY <1>2 DEF Types, Shape, charVars
  <1>4. \A t \in Servers : Moves(toMap[t], toMap'[t], CharNews(lastId'))
    BY <1>2, MoreMoves
  <1>5. lastId' = lastId /\ party_db_' = party_db_ /\ lastId \in Int
    BY <1>2 DEF charVars, Types, Shape
  <1>6. \A t \in Servers : Moves(toChar[t], toChar'[t], MapNews(lastId'))
    BY <1>2, <1>5
  <1>7. LetIn' /\ Awaited'
    <2>1. \A m \in CharNews(lastId') : m.kind # "auth"
      BY DEF CharNews
    <2>2. LetIn'
      BY <1>3, <1>4, <2>1, LetInKept
    <2> QED BY <1>3, <1>4, <1>6, <2>2, AwaitedKept
  <1>8. Fresh'
    <2>1. \A p \in Ids : p > lastId' => /\ party_db_'[p] = None
                                       /\ \A t \in Servers : party_db'[t][p] = None
      BY <1>5 DEF Types, Fresh
    <2>2. lastId' >= lastId /\ \A c \in Chars : player'[c].invite <= lastId'
      BY <1>5
    <2>3. \A t \in Servers : Moves(toMap[t], toMap'[t], CharAware(lastId'))
      BY <1>2, MoreMoves
    <2>4. MapNews(lastId') \subseteq MapAware(lastId')
      BY DEF MapNews
    <2>5. \A t \in Servers : Moves(toChar[t], toChar'[t], MapAware(lastId'))
      BY <1>6, <2>4, MoreMoves
    <2> QED BY <1>3, <2>1, <2>2, <2>3, <2>5, FreshKept
  <1> QED BY <1>3, <1>7, <1>8 DEF Types

(* A player asks the char-server. *)
LEMMA RequestLinks ==
  ASSUME Types, NEW s \in Servers, NEW packets, Request(s, packets),
         NEW N, N \subseteq ToCharMsg, packets \in Seq(N)
  PROVE  /\ toChar' \in [Servers -> Seq(ToCharMsg)]
         /\ toMap' = toMap
         /\ toChar'[s] = toChar[s] \o packets
         /\ \A t \in Servers : t # s => toChar'[t] = toChar[t]
         /\ \A t \in Servers : Moves(toMap[t], toMap'[t], {})
         /\ \A t \in Servers : Moves(toChar[t], toChar'[t], N)
         /\ UNCHANGED charVars
  <1>1. toChar \in [Servers -> Seq(ToCharMsg)] /\ toMap \in [Servers -> Seq(ToMapMsg)]
    BY DEF Types, Shape
  <1>2. toChar[s] \in Seq(ToCharMsg)
    BY <1>1
  <1>4. /\ toChar' = [toChar EXCEPT ![s] = toChar[s] \o packets]
        /\ UNCHANGED <<charVars, toMap>>
    BY DEF Request
  <1>5. packets \in Seq(ToCharMsg)
    BY SeqMonotonic
  <1>6. toChar[s] \o packets \in Seq(ToCharMsg) /\ Moves(toChar[s], toChar[s] \o packets, N)
    BY <1>2, <1>5, Added2
  <1>7. /\ toChar'[s] = toChar[s] \o packets
        /\ \A t \in Servers : t # s => toChar'[t] = toChar[t]
        /\ toChar' \in [Servers -> Seq(ToCharMsg)]
    BY <1>1, <1>4, <1>6
  <1>8. ASSUME NEW t \in Servers
        PROVE  Moves(toMap[t], toMap'[t], {}) /\ Moves(toChar[t], toChar'[t], N)
    <2>0. toMap[t] \in Seq(ToMapMsg) /\ toChar[t] \in Seq(ToCharMsg)
      BY <1>1
    <2>1. Moves(toMap[t], toMap[t], {}) /\ Moves(toChar[t], toChar[t], N)
      BY <2>0, Same
    <2>2. CASE t = s
      BY <1>4, <1>6, <1>7, <2>1, <2>2
    <2>3. CASE t # s
      BY <1>4, <1>7, <2>1, <2>3
    <2> QED BY <2>2, <2>3
  <1> QED BY <1>4, <1>7, <1>8

LEMMA RequestTypes ==
  ASSUME Types, NEW s \in Servers, NEW packets, Request(s, packets),
         packets \in Seq(MapNews(lastId)),
         party_db' \in [Servers -> [Ids -> Copies \cup {None}]],
         player' \in [Chars -> Sessions \cup {Away}],
         level' \in [Chars -> 1 .. TopLevel],
         asked' \in 0 .. Bound,
         \A p \in Ids : p > lastId => \A t \in Servers : party_db'[t][p] = None,
         \A c \in Chars : player'[c].invite <= lastId,
         Steady
  PROVE  Types'
  <1> DEFINE N == MapNews(lastId)
  <1>1. N \subseteq ToCharMsg
    BY DEF MapNews, MapAware
  <1>2. /\ toChar' \in [Servers -> Seq(ToCharMsg)] /\ toMap' = toMap
        /\ \A t \in Servers : Moves(toMap[t], toMap'[t], {})
        /\ \A t \in Servers : Moves(toChar[t], toChar'[t], N)
        /\ UNCHANGED charVars
    <2> HIDE DEF N
    <2>1. packets \in Seq(N)
      BY DEF N
    <2> QED BY <1>1, <2>1, RequestLinks
  <1>3. Shape'
    BY <1>2 DEF Types, Shape, charVars
  <1>4. \A t \in Servers : Moves(toMap[t], toMap'[t], CharNews(lastId'))
    BY <1>2, MoreMoves
  <1>5. lastId' = lastId /\ party_db_' = party_db_ /\ lastId \in Int
    BY <1>2 DEF charVars, Types, Shape
  <1>6. \A t \in Servers : Moves(toChar[t], toChar'[t], MapNews(lastId'))
    BY <1>2, <1>5
  <1>7. LetIn' /\ Awaited'
    <2>1. \A m \in CharNews(lastId') : m.kind # "auth"
      BY DEF CharNews
    <2>2. LetIn'
      BY <1>3, <1>4, <2>1, LetInKept
    <2> QED BY <1>3, <1>4, <1>6, <2>2, AwaitedKept
  <1>8. Fresh'
    <2>1. \A p \in Ids : p > lastId' => /\ party_db_'[p] = None
                                       /\ \A t \in Servers : party_db'[t][p] = None
      BY <1>5 DEF Types, Fresh
    <2>2. lastId' >= lastId /\ \A c \in Chars : player'[c].invite <= lastId'
      BY <1>5
    <2>3. \A t \in Servers : Moves(toMap[t], toMap'[t], CharAware(lastId'))
      BY <1>2, MoreMoves
    <2>4. MapNews(lastId') \subseteq MapAware(lastId')
      BY DEF MapNews
    <2>5. \A t \in Servers : Moves(toChar[t], toChar'[t], MapAware(lastId'))
      BY <1>6, <2>4, MoreMoves
    <2> QED BY <1>3, <2>1, <2>2, <2>3, <2>5, FreshKept
  <1> QED BY <1>3, <1>7, <1>8 DEF Types

(* What the char-server may say of a party it knows, or of a character. *)
LEMMA CharSays ==
  ASSUME NEW n \in Int, NEW p \in Ids, p <= n, NEW c \in Chars
  PROVE  /\ \A P \in Parties, d \in Chars \cup {None} : Info(p, P, d) \in CharNews(n)
         /\ Withdraw(p, c) \in CharNews(n)
         /\ \A P \in Parties : c \in DOMAIN P.member => Moved(p, P, c) \in CharNews(n)
         /\ \A P \in Parties, d \in BOOLEAN : Option(p, P, d) \in CharNews(n)
         /\ \A P \in Parties, Q \in Parties : Dropped(p, P, Q) \in Seq(CharNews(n))
         /\ \A f \in BOOLEAN : Added(p, c, f) \in CharNews(n)
  <1>1. /\ \A P \in Parties, d \in Chars \cup {None} : Info(p, P, d) \in CharNews(n)
        /\ Withdraw(p, c) \in CharNews(n)
        /\ \A P \in Parties : c \in DOMAIN P.member => Moved(p, P, c) \in CharNews(n)
        /\ \A P \in Parties, d \in BOOLEAN : Option(p, P, d) \in CharNews(n)
        /\ \A f \in BOOLEAN : Added(p, c, f) \in CharNews(n)
    BY ToMapMade DEF CharNews, CharAware, About, Founding, Info, Withdraw, Moved, Option, Added
  <1>2. ASSUME NEW P \in Parties, NEW Q \in Parties
        PROVE  Dropped(p, P, Q) \in Seq(CharNews(n))
    <2>1. <<Option(p, Q, FALSE)>> \in Seq(CharNews(n))
      BY <1>1, One
    <2>2. <<>> \in Seq(CharNews(n))
      OBVIOUS
    <2> QED BY <2>1, <2>2 DEF Dropped
  <1> QED BY <1>1, <1>2

(* The first message of a map-server to the char-server; a party that is   *)
(* known has been founded.                                                 *)
LEMMA HeardFacts ==
  ASSUME Types, NEW s \in Servers, NEW kind, Heard(s, kind)
  PROVE  /\ toChar[s] \in Seq(ToCharMsg) /\ toChar[s] # <<>>
         /\ 1 \in DOMAIN toChar[s] /\ Head(toChar[s]) = toChar[s][1]
         /\ Head(toChar[s]) \in ToCharMsg /\ Head(toChar[s]).kind = kind
  <1>1. toChar[s] \in Seq(ToCharMsg) /\ toChar[s] # <<>>
    BY DEF Types, Shape, Heard
  <1> QED BY <1>1, Taken DEF Heard

LEMMA KnownFacts ==
  ASSUME ConstantsOK, Types, NEW p, Known(p)
  PROVE  p \in Ids /\ p <= lastId /\ party_db_[p] \in Parties
  <1>1. p \in Ids /\ lastId \in Int /\ party_db_[p] \in Parties
    BY DEF Known, Types, Shape
  <1>3. p \in Int
    BY <1>1 DEF Ids
  <1>2. p > lastId => party_db_[p] = None
    BY <1>1 DEF Types, Fresh
  <1> QED BY <1>1, <1>2, <1>3 DEF Known

-----------------------------------------------------------------------------
(* What a message says of a character, and what a step that hears it may   *)
(* do: to what is under way, and to the members of a party.                *)
Members(P) == IF P = None THEN {} ELSE DOMAIN P.member
JoinsTo(p, c) == {m \in ToCharMsg : m.kind = "join" /\ m.who = c /\ m.party = p}
JoinsOf(c)    == {m \in ToCharMsg : m.kind = "join" /\ m.who = c}
AuthsOf(c)    == {m \in ToMapMsg : m.kind = "auth" /\ m.who = c}
AddedsOf(c)   == {m \in ToMapMsg : m.kind = "added" /\ m.who = c}

(* A link that moves on, or is lost; nothing of A is new in it. *)
NoNew(q, r, A) == r = <<>> \/ \E k \in {0, 1} :
  /\ \A i \in DOMAIN q : i > k => i - k \in DOMAIN r /\ r[i - k] = q[i]
  /\ \A i \in DOMAIN r : IF i + k \in DOMAIN q THEN r[i] = q[i + k] ELSE r[i] \notin A

LEMMA MovesNoNew ==
  ASSUME NEW q, NEW r, NEW New, Moves(q, r, New), NEW A, \A m \in New : m \notin A
  PROVE  NoNew(q, r, A)
  BY DEF Moves, NoNew

(* What the char-server says in a step that adds nobody to a party. *)
CharTells(n) == {m \in CharNews(n) : m.kind # "added"}

(* Party p is P when message m is heard, and is Q then: it has no members  *)
(* but those it had, or the one m tells of, and it stays sound if m joins  *)
(* nobody who is a member already.                                         *)
Fits(P, m, p) == \A c \in Members(P) : m \notin JoinsTo(p, c)

Becomes(P, Q, m, p) ==
  /\ \A c \in Members(Q) : c \in Members(P) \/ m \in JoinsTo(p, c) \/ p > lastId
  /\ (P # None => Sound(P)) /\ Fits(P, m, p) => (Q # None => Sound(Q))

CharStep(s) ==
  /\ toChar[s] # <<>> /\ toChar'[s] = Tail(toChar[s])
  /\ \A t \in Servers \ {s} : toChar'[t] = toChar[t]
  /\ \A t \in Servers, c \in Chars :
       /\ NoNew(toMap[t], toMap'[t], AuthsOf(c))
       /\ Head(toChar[s]) \in JoinsOf(c) \/ NoNew(toMap[t], toMap'[t], AddedsOf(c))
  /\ \A t \in Servers : Stays(toMap[t], toMap'[t])
  /\ UNCHANGED mapVars
  /\ \A p \in Ids : Becomes(party_db_[p], party_db_'[p], Head(toChar[s]), p)

LEMMA BecomesSelf ==
  ASSUME NEW P, NEW m, NEW p
  PROVE  Becomes(P, P, m, p)
  BY DEF Becomes, Members

LEMMA BecomesNone ==
  ASSUME NEW P, NEW m, NEW p
  PROVE  Becomes(P, None, m, p)
  BY DEF Becomes, Members

LEMMA BecomesAlike ==
  ASSUME NEW P, P # None, NEW Q, NEW m, NEW p, DOMAIN Q.member = DOMAIN P.member,
         Sound(P) => Sound(Q)
  PROVE  Becomes(P, Q, m, p)
  BY DEF Becomes, Members

LEMMA SoundAlike ==
  ASSUME NEW P, NEW Q, DOMAIN Q.member = DOMAIN P.member,
         \A c \in DOMAIN P.member : /\ Q.member[c].lv = P.member[c].lv
                                    /\ Q.member[c].online = P.member[c].online,
         Q.count = P.count, Q.min_lv = P.min_lv, Q.max_lv = P.max_lv,
         Q.exp => party_check_exp_share(P), Sound(P)
  PROVE  Sound(Q)
  <1>1. Online(Q) = Online(P)
    BY DEF Online
  <1>2. Levels(Q) = Levels(P)
    BY <1>1 DEF Levels, Online
  <1>3. party_check_exp_share(Q) <=> party_check_exp_share(P)
    BY DEF party_check_exp_share
  <1> QED BY <1>1, <1>2, <1>3 DEF Sound, Ranges

LEMMA AnswerStep ==
  ASSUME Types, NEW s \in Servers, NEW all, NEW one, Answer(s, all, one), toChar[s] # <<>>,
         NEW N, N \subseteq ToMapMsg, all \in Seq(N), one \in Seq(N),
         \A x \in N : x.kind \notin {"auth", "added"},
         \A p \in Ids : Becomes(party_db_[p], party_db_'[p], Head(toChar[s]), p)
  PROVE  CharStep(s)
  <1>1. /\ toChar'[s] = Tail(toChar[s])
        /\ \A t \in Servers : t # s => toChar'[t] = toChar[t]
        /\ \A t \in Servers : Moves(toMap[t], toMap'[t], N)
        /\ \A t \in Servers : Stays(toMap[t], toMap'[t])
        /\ UNCHANGED <<mapVars, asked>>
    BY Answered
  <1>2. ASSUME NEW c \in Chars, NEW t \in Servers
        PROVE  NoNew(toMap[t], toMap'[t], AuthsOf(c)) /\ NoNew(toMap[t], toMap'[t], AddedsOf(c))
    <2>1. \A x \in N : x \notin AuthsOf(c) /\ x \notin AddedsOf(c)
      BY DEF AuthsOf, AddedsOf
    <2> QED BY <1>1, <2>1, MovesNoNew
  <1> QED BY <1>1, <1>2 DEF CharStep

LEMMA TellSteps ==
  ASSUME Types, NEW s \in Servers, NEW all, NEW one, Answer(s, all, one), toChar[s] # <<>>,
         lastId' \in 0 .. LastParty, lastId' >= lastId,
         all \in Seq(CharTells(lastId')), one \in Seq(CharTells(lastId')),
         party_db_' \in [Ids -> Parties \cup {None}],
         row' \in [Chars -> 0 .. LastParty],
         \A p \in Ids : p > lastId' => party_db_'[p] = None,
         \A p \in Ids : Becomes(party_db_[p], party_db_'[p], Head(toChar[s]), p)
  PROVE  Types' /\ CharStep(s)
  <1> DEFINE N == CharTells(lastId')
  <1>1. N \subseteq CharNews(lastId') /\ N \subseteq ToMapMsg
        /\ \A x \in N : x.kind \notin {"auth", "added"}
    BY DEF CharTells, CharNews, CharAware
  <1> HIDE DEF N
  <1>2. all \in Seq(N) /\ one \in Seq(N)
    BY DEF N
  <1>3. all \in Seq(CharNews(lastId')) /\ one \in Seq(CharNews(lastId'))
    BY <1>1, <1>2, SeqMonotonic
  <1>4. Types'
    BY <1>3, AnswerTypes
  <1>5. CharStep(s)
    BY <1>1, <1>2, AnswerStep
  <1> QED BY <1>4, <1>5

(* The party with number p becomes Q. *)
LEMMA BecomesOne ==
  ASSUME Types, NEW p \in Ids, NEW Q, Put(p, Q), NEW m, Becomes(party_db_[p], Q, m, p)
  PROVE  \A o \in Ids : Becomes(party_db_[o], party_db_'[o], m, o)
  <1>1. party_db_' = [party_db_ EXCEPT ![p] = Q] /\ party_db_ \in [Ids -> Parties \cup {None}]
    BY DEF Put, Types, Shape
  <1>2. party_db_'[p] = Q /\ \A o \in Ids \ {p} : party_db_'[o] = party_db_[o]
    BY <1>1
  <1> QED BY <1>2, BecomesSelf

LEMMA PutSteps ==
  ASSUME ConstantsOK, Types, NEW s \in Servers, toChar[s] # <<>>,
         NEW p, NEW Q \in Parties \cup {None},
         \/ Known(p) /\ Put(p, Q) /\ Becomes(party_db_[p], Q, Head(toChar[s]), p)
         \/ UNCHANGED party_db_,
         lastId' = lastId, row' \in [Chars -> 0 .. LastParty],
         NEW all \in Seq(CharTells(lastId)), NEW one \in Seq(CharTells(lastId)),
         Answer(s, all, one)
  PROVE  Types' /\ CharStep(s)
  <1>1. /\ lastId \in Int /\ lastId' >= lastId /\ lastId' \in 0 .. LastParty
        /\ party_db_ \in [Ids -> Parties \cup {None}]
        /\ \A q \in Ids : q > lastId => party_db_[q] = None
    BY DEF Types, Shape, Fresh
  <1>2. /\ party_db_' \in [Ids -> Parties \cup {None}]
        /\ \A q \in Ids : q > lastId' => party_db_'[q] = None
    <2>1. CASE Known(p) /\ Put(p, Q)
      <3>1. p \in Ids /\ party_db_[p] # None
        BY <2>1 DEF Known
      <3>2. party_db_' = [party_db_ EXCEPT ![p] = Q]
        BY <2>1 DEF Put
      <3>3. \A q \in Ids : q > lastId => q # p /\ party_db_'[q] = party_db_[q]
        BY <1>1, <3>1, <3>2
      <3> QED BY <1>1, <3>1, <3>2, <3>3
    <2>2. CASE UNCHANGED party_db_
      BY <1>1, <2>2
    <2> QED BY <2>1, <2>2
  <1>3. all \in Seq(CharTells(lastId')) /\ one \in Seq(CharTells(lastId'))
    OBVIOUS
  <1>4. \A o \in Ids : Becomes(party_db_[o], party_db_'[o], Head(toChar[s]), o)
    BY BecomesOne, BecomesSelf DEF Known
  <1> QED BY <1>1, <1>2, <1>3, <1>4, TellSteps

LEMMA CharTold ==
  ASSUME NEW n \in Int, NEW p \in Ids, p <= n, NEW c \in Chars
  PROVE  /\ \A P \in Parties, d \in Chars \cup {None} : Info(p, P, d) \in CharTells(n)
         /\ Withdraw(p, c) \in CharTells(n)
         /\ \A P \in Parties : c \in DOMAIN P.member => Moved(p, P, c) \in CharTells(n)
         /\ \A P \in Parties, d \in BOOLEAN : Option(p, P, d) \in CharTells(n)
         /\ \A P \in Parties, Q \in Parties : Dropped(p, P, Q) \in Seq(CharTells(n))
  <1>1. /\ \A P \in Parties, d \in Chars \cup {None} : Info(p, P, d) \in CharTells(n)
        /\ Withdraw(p, c) \in CharTells(n)
        /\ \A P \in Parties : c \in DOMAIN P.member => Moved(p, P, c) \in CharTells(n)
        /\ \A P \in Parties, d \in BOOLEAN : Option(p, P, d) \in CharTells(n)
    BY ToMapMade DEF CharTells, CharNews, CharAware, About, Founding, Info, Withdraw, Moved, Option
  <1>2. ASSUME NEW P \in Parties, NEW Q \in Parties
        PROVE  Dropped(p, P, Q) \in Seq(CharTells(n))
    <2>1. <<Option(p, Q, FALSE)>> \in Seq(CharTells(n))
      BY <1>1, One
    <2>2. <<>> \in Seq(CharTells(n))
      OBVIOUS
    <2> QED BY <2>1, <2>2 DEF Dropped
  <1> QED BY <1>1, <1>2

LEMMA CharTold2 ==
  ASSUME NEW n \in Int, NEW p \in 0 .. LastParty, NEW c \in Chars
  PROVE  /\ Created(c, p) \in CharTells(n)
         /\ p \in Ids => NoInfo(p, c) \in CharTells(n) /\ Broken(p) \in CharTells(n)
  <1>1. Created(c, p) \in CharTells(n)
    BY ToMapMade2 DEF CharTells, CharNews, CharAware, About, Founding, Created
  <1>2. ASSUME p \in Ids PROVE NoInfo(p, c) \in CharTells(n) /\ Broken(p) \in CharTells(n)
    BY <1>2, ToMapMade DEF CharTells, CharNews, CharAware, About, Founding, NoInfo, Broken
  <1> QED BY <1>1, <1>2

LEMMA OptionTold ==
  ASSUME NEW n \in Int, NEW p \in Ids, p <= n, NEW P \in Parties
  PROVE  /\ \A d \in BOOLEAN : Option(p, P, d) \in CharTells(n)
         /\ \A Q \in Parties : Dropped(p, Q, P) \in Seq(CharTells(n))
  <1>1. \A d \in BOOLEAN : Option(p, P, d) \in Options
    BY DEF Option, Options, Parties
  <1>2. \A d \in BOOLEAN : Option(p, P, d) \in CharTells(n)
    BY <1>1 DEF ToMapMsg, CharTells, CharNews, CharAware, About, Founding, Option
  <1>3. Option(p, P, FALSE) \in CharTells(n)
    BY <1>2, Zenon
  <1>4. <<Option(p, P, FALSE)>> \in Seq(CharTells(n))
    BY <1>3, One
  <1>5. <<>> \in Seq(CharTells(n))
    OBVIOUS
  <1> QED BY <1>2, <1>4, <1>5 DEF Dropped

-----------------------------------------------------------------------------
(* Every step keeps the types: the char-server's.  A step is given with    *)
(* what it says.                                                           *)
LEMMA CreateSteps ==
  ASSUME ConstantsOK, Types, NEW s \in Servers, CreateParty(s)
  PROVE  Types' /\ CharStep(s)
  <1> DEFINE m == Head(toChar[s])
             p == lastId + 1
             P == Founded([c \in {m.who} |-> m.as])
  <1>1. toChar[s] # <<>> /\ m \in CreateMsgs
    BY HeardFacts, ToCharKinds DEF CreateParty
  <1>2. m.who \in Chars /\ m.as \in Member
    BY <1>1 DEF CreateMsgs
  <1>3. lastId \in 0 .. LastParty /\ row \in [Chars -> 0 .. LastParty] /\ lastId \in Int
        /\ party_db_ \in [Ids -> Parties \cup {None}] /\ LastParty \in Nat
    BY DEF Types, Shape, ConstantsOK
  <1>7. /\ P \in Parties /\ Sound(P)
        /\ DOMAIN P.member = {m.who} /\ P.member[m.who] = m.as
    <2> DEFINE ros == [c \in {m.who} |-> m.as]
               F == Founded(ros)
    <2>1. ros \in Rosters /\ DOMAIN ros = {m.who} /\ ros[m.who] = m.as
      BY <1>2, RosterFacts
    <2>2. F = P
      OBVIOUS
    <2> HIDE DEF ros, P
    <2>3. F \in Parties /\ F.member = ros /\ Sound(F)
      BY <2>1, FoundedFacts
    <2> HIDE DEF F
    <2> QED BY <2>1, <2>2, <2>3
  <1>4. P \in Parties
    BY <1>7
  <1>8. m \in ToCharMsg /\ Head(toChar[s]) = m
    BY HeardFacts DEF CreateParty
  <1>0. p = lastId + 1
    OBVIOUS
  <1> HIDE DEF P, p, m
  <1>5. CASE /\ p \in Ids /\ Put(p, P) /\ lastId' = p /\ row' = [row EXCEPT ![m.who] = p]
             /\ Answer(s, <<>>, <<Info(p, P, None), Created(m.who, p)>>)
    <2> DEFINE one == <<Info(p, P, None), Created(m.who, p)>>
    <2>1. p \in Int /\ p \in 0 .. LastParty /\ lastId' = p /\ p >= lastId /\ p <= p
      BY <1>0, <1>3, <1>5 DEF Ids
    <2>2. Info(p, P, None) \in CharTells(p)
      BY <1>2, <1>4, <1>5, <2>1, CharTold
    <2>3. Created(m.who, p) \in CharTells(p)
      BY <1>2, <1>5, <2>1, CharTold2
    <2>4. one \in Seq(CharTells(p))
      BY <2>2, <2>3
    <2>5. <<>> \in Seq(CharTells(p))
      OBVIOUS
    <2>6. row' \in [Chars -> 0 .. LastParty]
      BY <1>3, <1>5, <2>1
    <2>7. party_db_' \in [Ids -> Parties \cup {None}]
      BY <1>3, <1>4, <1>5 DEF Put
    <2>8. \A q \in Ids : q > p => party_db_'[q] = None
      <3> SUFFICES ASSUME NEW q \in Ids, q > p PROVE party_db_'[q] = None
        OBVIOUS
      <3>1. q > lastId /\ q # p
        BY <1>0, <1>3 DEF Ids
      <3>2. party_db_[q] = None
        BY <3>1 DEF Types, Fresh
      <3> QED BY <1>3, <1>5, <3>1, <3>2 DEF Put
    <2>9. Answer(s, <<>>, one) /\ lastId' \in 0 .. LastParty /\ lastId' >= lastId
      BY <1>5, <2>1
    <2>10. \A o \in Ids : Becomes(party_db_[o], party_db_'[o], m, o)
      <3>1. DOMAIN P.member = {m.who} /\ P.member[m.who] = m.as /\ Sound(P)
        BY <1>7
      <3>2. p > lastId
        BY <1>0, <1>3
      <3>3. Becomes(party_db_[p], P, m, p)
        BY <3>1, <3>2 DEF Becomes, Members
      <3> QED BY <1>5, <3>3, BecomesOne
    <2> HIDE DEF one
    <2> QED BY <1>1, <2>1, <2>4, <2>5, <2>6, <2>7, <2>8, <2>9, <2>10, <1>8, TellSteps
  <1>6. CASE Answer(s, <<>>, <<Created(m.who, 0)>>) /\ UNCHANGED charVars
    <2>1. lastId' = lastId /\ party_db_' = party_db_ /\ row' = row /\ lastId' >= lastId
      BY <1>3, <1>6 DEF charVars
    <2>2. Created(m.who, 0) \in CharTells(lastId)
      BY <1>2, <1>3, CharTold2
    <2>3. <<Created(m.who, 0)>> \in Seq(CharTells(lastId)) /\ <<>> \in Seq(CharTells(lastId))
      BY <2>2
    <2>4. \A q \in Ids : q > lastId' => party_db_'[q] = None
      BY <2>1 DEF Types, Fresh
    <2>5. Answer(s, <<>>, <<Created(m.who, 0)>>)
      BY <1>6
    <2> DEFINE one == <<Created(m.who, 0)>>
    <2> HIDE DEF one
    <2> QED BY <1>1, <1>3, <2>1, <2>3, <2>4, <2>5, BecomesSelf, TellSteps DEF one
  <1> QED BY <1>5, <1>6 DEF CreateParty, P, p, m

LEMMA PartyInfoSteps ==
  ASSUME ConstantsOK, Types, NEW s \in Servers, PartyInfo(s)
  PROVE  Types' /\ CharStep(s)
  <1> DEFINE m == Head(toChar[s])
             one == IF Known(m.party) THEN <<Info(m.party, party_db_[m.party], m.who)>>
                    ELSE <<NoInfo(m.party, m.who)>>
  <1>1. toChar[s] # <<>> /\ m \in InfoMsgs
    BY HeardFacts, ToCharKinds DEF PartyInfo
  <1>2. m.who \in Chars /\ m.party \in Ids
    BY <1>1 DEF InfoMsgs
  <1>3. Answer(s, <<>>, one) /\ lastId' = lastId /\ party_db_' = party_db_ /\ row' = row
    BY DEF PartyInfo, charVars
  <1>4. /\ lastId \in Int /\ lastId >= lastId /\ lastId \in 0 .. LastParty
        /\ row \in [Chars -> 0 .. LastParty] /\ party_db_ \in [Ids -> Parties \cup {None}]
        /\ \A q \in Ids : q > lastId => party_db_[q] = None
    BY DEF Types, Shape, Fresh
  <1>5. one \in Seq(CharTells(lastId))
    <2>1. CASE Known(m.party)
      <3>1. Info(m.party, party_db_[m.party], m.who) \in CharTells(lastId)
        BY <1>2, <1>4, <2>1, KnownFacts, CharTold
      <3> QED BY <2>1, <3>1
    <2>2. CASE ~Known(m.party)
      <3>1. NoInfo(m.party, m.who) \in CharTells(lastId)
        BY <1>2, <1>4, CharTold2 DEF Ids
      <3> QED BY <2>2, <3>1
    <2> QED BY <2>1, <2>2
  <1>6. <<>> \in Seq(CharTells(lastId))
    OBVIOUS
  <1> HIDE DEF one
  <1> QED BY <1>1, <1>3, <1>4, <1>5, <1>6, BecomesSelf, TellSteps

(* A party the char-server knows is changed or dissolved. *)
LEMMA PutTypes ==
  ASSUME ConstantsOK, Types, NEW s \in Servers, toChar[s] # <<>>,
         NEW p, NEW Q \in Parties \cup {None},
         (Known(p) /\ Put(p, Q)) \/ UNCHANGED party_db_,
         lastId' = lastId, row' \in [Chars -> 0 .. LastParty],
         NEW all \in Seq(CharNews(lastId)), NEW one \in Seq(CharNews(lastId)),
         Answer(s, all, one)
  PROVE  Types'
  <1>1. /\ lastId \in Int /\ lastId' >= lastId /\ lastId' \in 0 .. LastParty
        /\ party_db_ \in [Ids -> Parties \cup {None}]
        /\ \A q \in Ids : q > lastId => party_db_[q] = None
    BY DEF Types, Shape, Fresh
  <1>2. /\ party_db_' \in [Ids -> Parties \cup {None}]
        /\ \A q \in Ids : q > lastId' => party_db_'[q] = None
    <2>1. CASE Known(p) /\ Put(p, Q)
      <3>1. p \in Ids /\ party_db_[p] # None
        BY <2>1 DEF Known
      <3>2. party_db_' = [party_db_ EXCEPT ![p] = Q]
        BY <2>1 DEF Put
      <3>3. \A q \in Ids : q > lastId => q # p /\ party_db_'[q] = party_db_[q]
        BY <1>1, <3>1, <3>2
      <3> QED BY <1>1, <3>1, <3>2, <3>3
    <2>2. CASE UNCHANGED party_db_
      BY <1>1, <2>2
    <2> QED BY <2>1, <2>2
  <1>3. all \in Seq(CharNews(lastId')) /\ one \in Seq(CharNews(lastId'))
    OBVIOUS
  <1> QED BY <1>1, <1>2, <1>3, AnswerTypes

LEMMA AddMemberTypes ==
  ASSUME ConstantsOK, Types, NEW s \in Servers, PartyAddMember(s)
  PROVE  Types'
  <1> DEFINE m == Head(toChar[s])
             p == m.party
             P == party_db_[p]
             Q == Joined(P, m.who, m.as)
  <1>1. toChar[s] # <<>> /\ m \in JoinMsgs
    BY HeardFacts, ToCharKinds DEF PartyAddMember
  <1>2. m.who \in Chars /\ m.as \in Member /\ p \in Ids
    BY <1>1 DEF JoinMsgs
  <1>3. /\ lastId \in Int /\ row \in [Chars -> 0 .. LastParty] /\ p \in 0 .. LastParty
        /\ p <= lastId
    <2>1. lastId \in Int /\ row \in [Chars -> 0 .. LastParty] /\ LastParty \in Nat
      BY DEF Types, Shape, ConstantsOK
    <2>2. 1 \in DOMAIN toChar[s] /\ toChar[s][1] = m
      BY HeardFacts DEF PartyAddMember
    <2>3. m.kind = "join"
      BY <1>1 DEF JoinMsgs
    <2>4. m.party <= lastId
      BY <2>2, <2>3 DEF Types, Fresh, About
    <2> QED BY <1>2, <2>1, <2>4 DEF Ids
  <1> DEFINE all == Dropped(p, P, Q) \o <<Info(p, Q, None)>>
             one == <<Added(p, m.who, FALSE)>>
             no == <<Added(p, m.who, TRUE)>>
  <1>4. \/ /\ Known(p) /\ Put(p, Q) /\ row' = [row EXCEPT ![m.who] = p]
           /\ Answer(s, all, one) /\ UNCHANGED lastId
        \/ Answer(s, <<>>, no) /\ UNCHANGED charVars
    BY DEF PartyAddMember
  <1>5. /\ Added(p, m.who, FALSE) \in CharNews(lastId)
        /\ Added(p, m.who, TRUE) \in CharNews(lastId)
    BY <1>2, <1>3, CharSays
  <1>6. one \in Seq(CharNews(lastId)) /\ no \in Seq(CharNews(lastId)) /\ <<>> \in Seq(CharNews(lastId))
    <2>1. one \in Seq(CharNews(lastId))
      BY <1>5, One
    <2>2. no \in Seq(CharNews(lastId))
      BY <1>5, One
    <2>3. <<>> \in Seq(CharNews(lastId))
      OBVIOUS
    <2> HIDE DEF one, no
    <2> QED BY <2>1, <2>2, <2>3
  <1>7. CASE Known(p) /\ Put(p, Q) /\ row' = [row EXCEPT ![m.who] = p]
             /\ Answer(s, all, one) /\ UNCHANGED lastId
    <2>1. P \in Parties
      BY <1>7, KnownFacts
    <2>2. Q \in Parties
      <3> HIDE DEF P
      <3>1. Joined(P, m.who, m.as) \in Parties
        BY <1>2, <2>1, JoinedFacts
      <3> QED BY <3>1
    <2> HIDE DEF Q, P, m, p
    <2>3. all \in Seq(CharNews(lastId))
      <3>1. Dropped(p, P, Q) \in Seq(CharNews(lastId)) /\ Info(p, Q, None) \in CharNews(lastId)
        BY <1>2, <1>3, <2>1, <2>2, CharSays
      <3>2. <<Info(p, Q, None)>> \in Seq(CharNews(lastId))
        BY <3>1
      <3> QED BY <3>1, <3>2, ConcatProperties, Zenon
    <2>4. row' \in [Chars -> 0 .. LastParty]
      BY <1>2, <1>3, <1>7
    <2> HIDE DEF all, one
    <2> QED BY <1>1, <1>6, <1>7, <2>2, <2>3, <2>4, PutTypes
  <1>8. CASE Answer(s, <<>>, no) /\ UNCHANGED charVars
    <2> HIDE DEF no
    <2>1. UNCHANGED party_db_ /\ lastId' = lastId /\ row' \in [Chars -> 0 .. LastParty]
      BY <1>3, <1>8 DEF charVars
    <2>2. None \in Parties \cup {None}
      OBVIOUS
    <2> QED BY <1>1, <1>6, <1>8, <2>1, <2>2, PutTypes
  <1> QED BY <1>4, <1>7, <1>8

LEMMA ChangeOptionSteps ==
  ASSUME ConstantsOK, Types, NEW s \in Servers, PartyChangeOption(s)
  PROVE  Types' /\ CharStep(s)
  <1> DEFINE m == Head(toChar[s])
             p == m.party
             P == party_db_[p]
             Q == IF Cardinality(DOMAIN P.member) \in {2, 3} THEN int_party_calc_state(P) ELSE P
             denied == m.exp /\ ~party_check_exp_share(Q)
             R == [Q EXCEPT !.exp = m.exp /\ ~denied]
             told == <<Option(p, R, denied)>>
             all == Dropped(p, P, Q) \o IF denied THEN <<>> ELSE told
             one == IF denied THEN told ELSE <<>>
  <1>1. toChar[s] # <<>> /\ m \in OptionMsgs
    BY HeardFacts, ToCharKinds, Zenon DEF PartyChangeOption
  <1>2. p \in Ids /\ m.exp \in BOOLEAN
    BY <1>1 DEF OptionMsgs
  <1>3. lastId \in Int /\ lastId' = lastId /\ row' \in [Chars -> 0 .. LastParty]
    <2>1. lastId \in Int /\ row \in [Chars -> 0 .. LastParty]
      BY DEF Types, Shape
    <2>2. lastId' = lastId /\ row' = row
      BY Zenon DEF PartyChangeOption
    <2> QED BY <2>1, <2>2
  <1>4. \/ Known(p) /\ Put(p, R) /\ Answer(s, all, one)
        \/ Answer(s, <<>>, <<>>) /\ UNCHANGED party_db_
    BY Zenon DEF PartyChangeOption
  <1>5. <<>> \in Seq(CharTells(lastId))
    OBVIOUS
  <1>6. CASE Known(p) /\ Put(p, R) /\ Answer(s, all, one)
    <2>1. P \in Parties /\ p <= lastId
      BY <1>6, KnownFacts, Zenon
    <2>2. Q \in Parties
      <3>1. int_party_calc_state(P) \in Parties
        <4> HIDE DEF P
        <4> QED BY <2>1, Calculated
      <3> QED BY <2>1, <3>1
    <2>3. denied \in BOOLEAN
      BY DEF party_check_exp_share
    <2>7. Q.member = P.member /\ (Sound(P) => Sound(Q))
      <3>1. /\ int_party_calc_state(P).member = P.member
            /\ Sound(int_party_calc_state(P))
        <4> HIDE DEF P
        <4> QED BY <2>1, Calculated
      <3> QED BY <3>1
    <2>8. m.exp /\ ~denied => party_check_exp_share(Q)
      <3> HIDE DEF Q, m
      <3> QED OBVIOUS
    <2>9. P # None
      BY <1>6 DEF Known
    <2> HIDE DEF P, Q, m, p, denied
    <2>4. R \in Parties
      BY <1>2, <2>2, <2>3 DEF Parties
    <2>10. /\ R.member = Q.member /\ R.count = Q.count /\ R.min_lv = Q.min_lv /\ R.max_lv = Q.max_lv
           /\ R.exp = (m.exp /\ ~denied)
      BY <2>2 DEF Parties
    <2> HIDE DEF R
    <2>11. R.exp => party_check_exp_share(Q)
      BY <2>8, <2>10
    <2>12. Sound(P) => Sound(R)
      BY <2>7, <2>10, <2>11, SoundAlike
    <2>13. Becomes(P, R, Head(toChar[s]), p)
      BY <2>7, <2>9, <2>10, <2>12, BecomesAlike
    <2>5. told \in Seq(CharTells(lastId)) /\ Dropped(p, P, Q) \in Seq(CharTells(lastId))
      <3>1. Option(p, R, denied) \in CharTells(lastId) /\ Dropped(p, P, Q) \in Seq(CharTells(lastId))
        BY <1>2, <1>3, <2>1, <2>2, <2>3, <2>4, OptionTold
      <3> QED BY <3>1 DEF told
    <2> HIDE DEF told
    <2>6. one \in Seq(CharTells(lastId)) /\ all \in Seq(CharTells(lastId))
      <3>1. one \in Seq(CharTells(lastId))
        BY <1>5, <2>5
      <3>2. (IF denied THEN <<>> ELSE told) \in Seq(CharTells(lastId))
        BY <1>5, <2>5
      <3>3. all \in Seq(CharTells(lastId))
        BY <2>5, <3>2, ConcatProperties, Zenon
      <3> QED BY <3>1, <3>3
    <2> HIDE DEF all, one
    <2> QED BY <1>1, <1>3, <1>6, <2>4, <2>6, <2>13, PutSteps DEF m, P
  <1>7. CASE Answer(s, <<>>, <<>>) /\ UNCHANGED party_db_
    <2>1. None \in Parties \cup {None}
      OBVIOUS
    <2> QED BY <1>1, <1>3, <1>5, <1>7, <2>1, PutSteps
  <1> QED BY <1>4, <1>6, <1>7, Zenon

LEMMA LeaveSteps ==
  ASSUME ConstantsOK, Types, NEW s \in Servers, PartyLeave(s)
  PROVE  Types' /\ CharStep(s)
  <1> DEFINE m == Head(toChar[s])
             p == m.party
             P == party_db_[p]
             Q == Without(P, m.who)
             S == DOMAIN P.member \ {m.who}
             others == IF P.member[m.who].leader THEN SetToSeq(S) ELSE <<>>
             each == [i \in DOMAIN others |-> Withdraw(p, others[i])]
             all1 == <<Withdraw(p, m.who)>> \o each \o <<Broken(p)>>
             all2 == <<Withdraw(p, m.who)>> \o Dropped(p, P, Q) \o <<Info(p, Q, None)>>
  <1>1. toChar[s] # <<>> /\ m \in LeaveMsgs
    BY HeardFacts, ToCharKinds, Zenon DEF PartyLeave
  <1>2. m.who \in Chars /\ p \in Ids
    BY <1>1 DEF LeaveMsgs
  <1>3. lastId \in Int /\ lastId' = lastId /\ row \in [Chars -> 0 .. LastParty] /\ LastParty \in Nat
    <2>1. lastId \in Int /\ row \in [Chars -> 0 .. LastParty] /\ LastParty \in Nat
      BY DEF Types, Shape, ConstantsOK
    <2>2. lastId' = lastId
      BY Zenon DEF PartyLeave
    <2> QED BY <2>1, <2>2
  <1>4. \/ Known(p) /\ m.who \in DOMAIN P.member /\ Put(p, None) /\ Answer(s, all1, <<>>)
        \/ Known(p) /\ m.who \in DOMAIN P.member /\ Put(p, Q) /\ Answer(s, all2, <<>>)
        \/ Answer(s, <<>>, <<>>) /\ UNCHANGED party_db_
    BY Zenon DEF PartyLeave
  <1>5. row' \in [Chars -> 0 .. LastParty]
    <2>1. \/ row' = [c \in Chars |-> IF row[c] = p THEN 0 ELSE row[c]]
          \/ row' = [row EXCEPT ![m.who] = IF row[m.who] = p THEN 0 ELSE row[m.who]]
          \/ row' = row
      BY Zenon DEF PartyLeave
    <2> HIDE DEF m, p
    <2> QED BY <1>2, <1>3, <2>1
  <1>6. <<>> \in Seq(CharTells(lastId))
    OBVIOUS
  <1>7. CASE Answer(s, <<>>, <<>>) /\ UNCHANGED party_db_
    <2>1. None \in Parties \cup {None}
      OBVIOUS
    <2> QED BY <1>1, <1>3, <1>5, <1>6, <1>7, <2>1, PutSteps
  <1>8. ASSUME Known(p), m.who \in DOMAIN P.member
        PROVE  /\ P \in Parties /\ p <= lastId /\ Q \in Parties
               /\ Withdraw(p, m.who) \in CharTells(lastId)
               /\ Info(p, Q, None) \in CharTells(lastId)
               /\ <<Withdraw(p, m.who)>> \in Seq(CharTells(lastId))
    <2>1. P \in Parties /\ p <= lastId
      BY <1>8, KnownFacts
    <2>2. Q \in Parties
      <3> HIDE DEF P, m
      <3>1. Without(P, m.who) \in Parties
        BY <1>8, <2>1, WithoutFacts
      <3> QED BY <3>1
    <2> HIDE DEF Q, P
    <2>3. Withdraw(p, m.who) \in CharTells(lastId) /\ Info(p, Q, None) \in CharTells(lastId)
      BY <1>2, <1>3, <2>1, <2>2, CharTold
    <2>4. <<Withdraw(p, m.who)>> \in Seq(CharTells(lastId))
      <3> HIDE DEF m, p
      <3> QED BY <2>3, One
    <2> QED BY <2>1, <2>2, <2>3, <2>4
  <1>9. CASE Known(p) /\ m.who \in DOMAIN P.member /\ Put(p, None) /\ Answer(s, all1, <<>>)
    <2>1. /\ P \in Parties /\ p <= lastId
          /\ <<Withdraw(p, m.who)>> \in Seq(CharTells(lastId))
      BY <1>8, <1>9, Zenon
    <2>2. S \subseteq Chars /\ IsFiniteSet(S)
      <3>1. DOMAIN P.member \subseteq Chars
        BY <2>1, RosterFacts DEF Parties
      <3> QED BY <3>1, FS_Subset DEF ConstantsOK
    <2> HIDE DEF S
    <2>3. others \in Seq(Chars)
      <3>1. SetToSeq(S) \in Seq(S)
        BY <2>2, Listed
      <3>2. SetToSeq(S) \in Seq(Chars)
        BY <2>2, <3>1, SeqMonotonic
      <3> QED BY <3>2
    <2> HIDE DEF others
    <2>4. each \in Seq(CharTells(lastId))
      <3>1. \A i \in DOMAIN others : others[i] \in Chars
        BY <2>3
      <3>2. \A i \in DOMAIN others : Withdraw(p, others[i]) \in CharTells(lastId)
        BY <1>2, <1>3, <2>1, <3>1, CharTold
      <3>3. DOMAIN others = 1 .. Len(others) /\ Len(others) \in Nat
        BY <2>3, LenProperties
      <3> HIDE DEF m, p
      <3> QED BY <3>2, <3>3
    <2>5. <<Broken(p)>> \in Seq(CharTells(lastId))
      <3>1. Broken(p) \in CharTells(lastId)
        BY <1>2, <1>3, CharTold2 DEF Ids
      <3> HIDE DEF m, p
      <3> QED BY <3>1, One
    <2>6. all1 \in Seq(CharTells(lastId))
      <3> HIDE DEF each, m, p
      <3> QED BY <2>1, <2>4, <2>5, ConcatProperties, Zenon
    <2>7. None \in Parties \cup {None}
      OBVIOUS
    <2> HIDE DEF all1
    <2> QED BY <1>1, <1>3, <1>5, <1>6, <1>9, <2>6, <2>7, BecomesNone, PutSteps, Zenon
  <1>10. CASE Known(p) /\ m.who \in DOMAIN P.member /\ Put(p, Q) /\ Answer(s, all2, <<>>)
    <2>1. /\ P \in Parties /\ p <= lastId /\ Q \in Parties
          /\ Info(p, Q, None) \in CharTells(lastId)
          /\ <<Withdraw(p, m.who)>> \in Seq(CharTells(lastId))
      BY <1>8, <1>10
    <2> HIDE DEF Q, P, m, p
    <2>2. Dropped(p, P, Q) \in Seq(CharTells(lastId))
      BY <1>2, <1>3, <2>1, OptionTold
    <2>3. <<Info(p, Q, None)>> \in Seq(CharTells(lastId))
      BY <2>1, One
    <2>4. all2 \in Seq(CharTells(lastId))
      BY <2>1, <2>2, <2>3, ConcatProperties, Zenon
    <2>5. Q \in Parties \cup {None}
      BY <2>1
    <2>6. Becomes(P, Q, Head(toChar[s]), p)
      <3> DEFINE c == m.who
      <3>0. c \in DOMAIN P.member /\ Q = Without(P, c)
        BY <1>10 DEF Q
      <3> HIDE DEF c
      <3>1. /\ DOMAIN Q.member = DOMAIN P.member \ {c}
            /\ \A d \in DOMAIN P.member \ {c} : Q.member[d] = P.member[d]
            /\ Sound(P) => Sound(Q)
        BY <2>1, <3>0, WithoutFacts
      <3>2. P # None
        BY <1>10 DEF Known, P
      <3> QED BY <3>1, <3>2 DEF Becomes, Members
    <2> HIDE DEF all2
    <2> QED BY <1>1, <1>3, <1>5, <1>6, <1>10, <2>4, <2>5, <2>6, PutSteps DEF P
  <1> HIDE DEF m, p, P, Q, all1, all2
  <1> QED BY <1>4, <1>7, <1>9, <1>10

LEMMA ChangeMapSteps ==
  ASSUME ConstantsOK, Types, NEW s \in Servers, PartyChangeMap(s)
  PROVE  Types' /\ CharStep(s)
  <1> DEFINE m == Head(toChar[s])
             p == m.party
             P == party_db_[p]
             Q == Shown(P, m.who, m.online, m.lv)
             R == Levelled(Q, m.who, m.lv)
             change == IF P.member[m.who].online # m.online
                       THEN <<Moved(p, Q, m.who)>> ELSE <<>>
             all == Dropped(p, P, Q) \o change \o Dropped(p, Q, R)
  <1>1. toChar[s] # <<>> /\ m \in MoveMsgs
    BY HeardFacts, ToCharKinds DEF PartyChangeMap
  <1>2. m.who \in Chars /\ p \in Ids /\ m.online \in BOOLEAN /\ m.lv \in 1 .. TopLevel
    BY <1>1 DEF MoveMsgs
  <1>3. lastId \in Int /\ lastId' = lastId /\ row' \in [Chars -> 0 .. LastParty]
    BY DEF Types, Shape, PartyChangeMap
  <1>4. \/ Known(p) /\ m.who \in DOMAIN P.member /\ Put(p, R) /\ Answer(s, all, <<>>)
        \/ Answer(s, <<>>, <<>>) /\ UNCHANGED party_db_
    BY DEF PartyChangeMap
  <1>5. <<>> \in Seq(CharTells(lastId))
    OBVIOUS
  <1>6. CASE Known(p) /\ m.who \in DOMAIN P.member /\ Put(p, R) /\ Answer(s, all, <<>>)
    <2>1. P \in Parties /\ p <= lastId
      BY <1>6, KnownFacts, Zenon
    <2>2. Q \in Parties /\ DOMAIN Q.member = DOMAIN P.member
      <3> DEFINE c == m.who  online == m.online  lv == m.lv
      <3>a. m.who \in DOMAIN P.member
        <4> HIDE DEF m, p, P, Q, R, all
        <4> QED BY <1>6
      <3> HIDE DEF P, m
      <3>0. c \in DOMAIN P.member /\ online \in BOOLEAN /\ lv \in 1 .. TopLevel
        BY <1>2, <3>a
      <3> HIDE DEF c, online, lv
      <3>1. /\ Shown(P, c, online, lv) \in Parties
            /\ DOMAIN Shown(P, c, online, lv).member = DOMAIN P.member
        BY <2>1, <3>0, ShownFacts
      <3> QED BY <3>1 DEF c, online, lv
    <2>8. P # None
      BY <1>6 DEF Known
    <2> HIDE DEF Q, P
    <2>3. R \in Parties
      <3> DEFINE c == m.who  lv == m.lv
      <3> HIDE DEF c, lv
      <3>1. Levelled(Q, c, lv) \in Parties
        BY <1>2, <1>6, <2>2, LevelledFacts DEF c, lv
      <3> QED BY <3>1 DEF c, lv
    <2>7. Becomes(P, R, m, p)
      <3> DEFINE c == m.who  online == m.online  lv == m.lv
      <3>0. /\ Q = Shown(P, c, online, lv) /\ R = Levelled(Q, c, lv)
            /\ c \in DOMAIN P.member /\ c \in DOMAIN Q.member /\ online \in BOOLEAN /\ lv \in 1 .. TopLevel
        BY <1>2, <1>6, <2>2 DEF Q
      <3> HIDE DEF R, c, online, lv
      <3>1. Sound(P) => Sound(Q)
        BY <2>1, <3>0, ShownFacts
      <3>2. DOMAIN R.member = DOMAIN Q.member /\ (Sound(Q) => Sound(R))
        BY <2>2, <3>0, LevelledFacts
      <3> HIDE DEF m, p
      <3>3. DOMAIN R.member = DOMAIN P.member
        BY <2>2, <3>2
      <3> QED BY <2>8, <3>1, <3>2, <3>3, BecomesAlike
    <2> HIDE DEF R, p
    <2>4. Dropped(p, P, Q) \in Seq(CharTells(lastId)) /\ Dropped(p, Q, R) \in Seq(CharTells(lastId))
      BY <1>2, <1>3, <2>1, <2>2, <2>3, OptionTold
    <2>5. change \in Seq(CharTells(lastId))
      <3> DEFINE c == m.who
      <3>1. c \in Chars /\ c \in DOMAIN Q.member
        BY <1>2, <1>6, <2>2
      <3> HIDE DEF c
      <3>2. Moved(p, Q, c) \in CharTells(lastId)
        BY <1>2, <1>3, <2>1, <2>2, <3>1, CharTold
      <3>3. <<Moved(p, Q, c)>> \in Seq(CharTells(lastId))
        BY <3>2, One
      <3> QED BY <1>5, <3>3 DEF c
    <2> HIDE DEF change
    <2>6. all \in Seq(CharTells(lastId))
      BY <2>4, <2>5, ConcatProperties, Zenon
    <2> HIDE DEF all
    <2> QED BY <1>1, <1>3, <1>5, <1>6, <2>3, <2>6, <2>7, PutSteps DEF P
  <1>7. CASE Answer(s, <<>>, <<>>) /\ UNCHANGED party_db_
    <2>1. None \in Parties \cup {None}
      OBVIOUS
    <2> QED BY <1>1, <1>3, <1>5, <1>7, <2>1, PutSteps
  <1> HIDE DEF m, p, P, Q, R, all
  <1> QED BY <1>4, <1>6, <1>7

LEMMA LeaderChangeSteps ==
  ASSUME ConstantsOK, Types, NEW s \in Servers, PartyLeaderChange(s)
  PROVE  Types' /\ CharStep(s)
  <1> DEFINE m == Head(toChar[s])
             P == party_db_[m.party]
             led == [c \in DOMAIN P.member |-> [P.member[c] EXCEPT !.leader = c = m.who]]
             Q == [P EXCEPT !.member = led]
  <1>1. toChar[s] # <<>>
    BY HeardFacts DEF PartyLeaderChange
  <1>2. lastId \in Int /\ lastId' = lastId /\ row' \in [Chars -> 0 .. LastParty]
    BY DEF Types, Shape, PartyLeaderChange
  <1>3. Answer(s, <<>>, <<>>) /\ <<>> \in Seq(CharTells(lastId))
    BY DEF PartyLeaderChange
  <1>4. (Known(m.party) /\ Put(m.party, Q)) \/ UNCHANGED party_db_
    BY DEF PartyLeaderChange
  <1>5. CASE Known(m.party) /\ Put(m.party, Q)
    <2>1. P \in Parties
      BY <1>5, KnownFacts
    <2> HIDE DEF P
    <2>2. P.member \in Rosters
      BY <2>1 DEF Parties
    <2>3. led \in Rosters
      <3>0. \A c \in DOMAIN P.member, b \in BOOLEAN : [P.member[c] EXCEPT !.leader = b] \in Member
        BY <2>2, RosterFacts DEF Member
      <3>1. \A c \in DOMAIN P.member : [P.member[c] EXCEPT !.leader = c = m.who] \in Member
        <4> TAKE c \in DOMAIN P.member
        <4>1. (c = m.who) \in BOOLEAN
          OBVIOUS
        <4> QED BY <3>0, <4>1, Zenon
      <3>2. DOMAIN led \subseteq Chars /\ led \in [DOMAIN led -> Member]
        BY <2>2, <3>1, RosterFacts
      <3> HIDE DEF led
      <3> QED BY <3>2, RosterFacts
    <2>5. /\ DOMAIN led = DOMAIN P.member
          /\ \A c \in DOMAIN P.member : led[c].lv = P.member[c].lv /\ led[c].online = P.member[c].online
      BY <2>2, RosterFacts DEF Member
    <2> HIDE DEF led
    <2>4. Q \in Parties \cup {None}
      BY <2>1, <2>3 DEF Parties
    <2>6. /\ Q.member = led /\ Q.count = P.count /\ Q.min_lv = P.min_lv /\ Q.max_lv = P.max_lv
          /\ Q.exp = P.exp
      BY <2>1 DEF Parties
    <2>7. P # None
      BY <1>5 DEF Known, P
    <2> HIDE DEF Q
    <2>8. Sound(P) => Sound(Q)
      <3>1. Sound(P) => (Q.exp => party_check_exp_share(P))
        BY <2>6 DEF Sound
      <3> QED BY <2>5, <2>6, <3>1, SoundAlike
    <2>9. Becomes(P, Q, m, m.party)
      <3> DEFINE x == m  p == m.party
      <3> HIDE DEF x, p
      <3>1. Becomes(P, Q, x, p)
        BY <2>5, <2>6, <2>7, <2>8, BecomesAlike
      <3> QED BY <3>1 DEF x, p
    <2> QED BY <1>1, <1>2, <1>3, <1>5, <2>4, <2>9, PutSteps DEF P
  <1>6. CASE UNCHANGED party_db_
    <2>1. None \in Parties \cup {None}
      OBVIOUS
    <2> QED BY <1>1, <1>2, <1>3, <1>6, <2>1, PutSteps
  <1> QED BY <1>4, <1>5, <1>6

LEMMA SaveSteps ==
  ASSUME ConstantsOK, Types, NEW s \in Servers, char_mmo_char_tosql(s)
  PROVE  Types' /\ CharStep(s)
  <1> DEFINE m == Head(toChar[s])
  <1>1. toChar[s] # <<>> /\ m \in SaveMsgs
    BY HeardFacts, ToCharKinds DEF char_mmo_char_tosql
  <1>2. m.who \in Chars /\ m.party \in 0 .. LastParty
    BY <1>1 DEF SaveMsgs
  <1>3. Answer(s, <<>>, <<>>) /\ <<>> \in Seq(CharTells(lastId)) /\ lastId' = lastId
        /\ UNCHANGED party_db_ /\ row' = [row EXCEPT ![m.who] = m.party]
    BY DEF char_mmo_char_tosql
  <1>4. row' \in [Chars -> 0 .. LastParty]
    <2>1. row \in [Chars -> 0 .. LastParty]
      BY DEF Types, Shape
    <2> HIDE DEF m
    <2> QED BY <1>2, <1>3, <2>1
  <1>5. None \in Parties \cup {None}
    OBVIOUS
  <1> QED BY <1>1, <1>3, <1>4, <1>5, PutSteps

LEMMA RegistryTypes ==
  ASSUME ConstantsOK, Types, NEW s \in Servers, RegistryRequest(s)
  PROVE  Types'
  <1>1. PICK c \in Chars :
        /\ c = Head(toChar[s]).who
        /\ toChar[s] # <<>> /\ toChar[s] \in Seq(ToCharMsg)
        /\ 1 \in DOMAIN toChar[s] /\ IsReg(toChar[s][1], c)
    <2>1. toChar[s] # <<>> /\ toChar[s] \in Seq(ToCharMsg) /\ Head(toChar[s]) \in RegMsgs
          /\ 1 \in DOMAIN toChar[s] /\ Head(toChar[s]) = toChar[s][1]
      BY HeardFacts, ToCharKinds DEF RegistryRequest
    <2> QED BY <2>1 DEF RegMsgs, IsReg
  <1> DEFINE reg == [kind |-> "reg", who |-> c]
             one == <<reg>>
  <1>2. Answer(s, <<>>, one) /\ UNCHANGED charVars
    BY <1>1 DEF RegistryRequest
  <1>3. reg \in ToMapMsg /\ reg.kind = "reg" /\ reg.who = c
    BY <1>1 DEF ToMapMsg, RegMsgs
  <1> HIDE DEF reg
  <1>4. one \in Seq({reg}) /\ <<>> \in Seq({reg}) /\ {reg} \subseteq ToMapMsg
    BY <1>3
  <1>5. /\ toChar' \in [Servers -> Seq(ToCharMsg)] /\ toMap' \in [Servers -> Seq(ToMapMsg)]
        /\ toChar'[s] = Tail(toChar[s])
        /\ \A t \in Servers : t # s => toChar'[t] = toChar[t]
        /\ \A t \in Servers : toMap'[t] = toMap[t] \o Said(<<>>, one, s, t)
        /\ \A t \in Servers : Moves(toMap[t], toMap'[t], {reg})
        /\ \A t \in Servers : Moves(toChar[t], toChar'[t], {})
        /\ UNCHANGED <<mapVars, asked>>
    <2> HIDE DEF one
    <2> DEFINE N == {reg}
               all == <<>>
    <2>1. N \subseteq ToMapMsg /\ one \in Seq(N) /\ all \in Seq(N)
      BY <1>4
    <2>3. Answer(s, all, one)
      BY <1>2
    <2> HIDE DEF N, all
    <2>2. /\ toChar' \in [Servers -> Seq(ToCharMsg)] /\ toMap' \in [Servers -> Seq(ToMapMsg)]
          /\ toChar'[s] = Tail(toChar[s])
          /\ \A t \in Servers : t # s => toChar'[t] = toChar[t]
          /\ \A t \in Servers : /\ Said(all, one, s, t) \in Seq(N)
                                /\ toMap'[t] = toMap[t] \o Said(all, one, s, t)
          /\ \A t \in Servers : Moves(toMap[t], toMap'[t], N)
          /\ \A t \in Servers : Moves(toChar[t], toChar'[t], {})
          /\ UNCHANGED <<mapVars, asked>>
      BY <1>1, <2>1, <2>3, Answered
    <2> QED BY <2>2 DEF N, all
  <1>6. Shape'
    BY <1>2, <1>5 DEF Types, Shape, mapVars, charVars
  <1>7. Steady
    BY <1>5 DEF Steady, Waits, mapVars
  <1>8. LetIn'
    <2>1. \A m \in {reg} : m.kind # "auth"
      BY <1>3
    <2> QED BY <1>5, <1>6, <1>7, <2>1, LetInKept
  <1>9. player' = player /\ party_db' = party_db /\ lastId' = lastId /\ party_db_' = party_db_
    BY <1>2, <1>5 DEF mapVars, charVars
  <1>10. ASSUME NEW d \in Chars, NEW t \in Servers, d # c \/ t # s
         PROVE  /\ \A i \in DOMAIN toMap'[t] : IsReg(toMap'[t][i], d) =>
                     /\ Waits(d, t)'
                     /\ \A j \in DOMAIN toMap'[t] : IsReg(toMap'[t][j], d) => j = i
                     /\ \A j \in DOMAIN toChar'[t] : ~IsReg(toChar'[t][j], d)
                /\ \A i \in DOMAIN toChar'[t] : IsReg(toChar'[t][i], d) =>
                     /\ Waits(d, t)'
                     /\ \A j \in DOMAIN toChar'[t] : IsReg(toChar'[t][j], d) => j = i
    <2>1. \E k \in {0, 1} : \A j \in DOMAIN toMap'[t] : IsReg(toMap'[t][j], d) =>
            j + k \in DOMAIN toMap[t] /\ IsReg(toMap[t][j + k], d)
      <3>1. CASE t = s
        <4>1. Moves(toMap[t], toMap'[t], {reg})
          BY <1>5
        <4>2. ~IsReg(reg, d)
          BY <1>3, <1>10, <3>1 DEF IsReg
        <4> HIDE DEF IsReg
        <4>3. \A x \in {reg} : ~IsReg(x, d)
          BY <4>2
        <4> QED BY <4>1, <4>3 DEF Moves
      <3>2. CASE t # s
        <4>1. toMap[t] \in Seq(ToMapMsg)
          BY DEF Types, Shape
        <4>2. toMap'[t] = toMap[t]
          <5>1. toMap'[t] = toMap[t] \o (<<>> \o <<>>)
            BY <1>5, <3>2 DEF Said
          <5> DEFINE q == toMap[t]
          <5>2. q \in Seq(ToMapMsg)
            BY <4>1
          <5> HIDE DEF q
          <5>3. q \o (<<>> \o <<>>) = q
            BY <5>2
          <5> QED BY <5>1, <5>3 DEF q
        <4>3. \A j \in DOMAIN toMap[t] : j + 0 = j
          BY <4>1
        <4> QED BY <4>2, <4>3
      <3> QED BY <3>1, <3>2
    <2>2. \E h \in {0, 1} : \A j \in DOMAIN toChar'[t] : IsReg(toChar'[t][j], d) =>
            j + h \in DOMAIN toChar[t] /\ IsReg(toChar[t][j + h], d)
      <3>1. Moves(toChar[t], toChar'[t], {})
        BY <1>5
      <3> QED BY <3>1 DEF Moves, IsReg
    <2>3. Waits(d, t)' <=> Waits(d, t)
      BY <1>9 DEF Waits
    <2> QED BY <1>6, <2>1, <2>2, <2>3, StillAwaited
  <1>11. /\ \A i \in DOMAIN toMap'[s] : IsReg(toMap'[s][i], c) =>
              /\ Waits(c, s)'
              /\ \A j \in DOMAIN toMap'[s] : IsReg(toMap'[s][j], c) => j = i
              /\ \A j \in DOMAIN toChar'[s] : ~IsReg(toChar'[s][j], c)
         /\ \A i \in DOMAIN toChar'[s] : IsReg(toChar'[s][i], c) =>
              /\ Waits(c, s)'
              /\ \A j \in DOMAIN toChar'[s] : IsReg(toChar'[s][j], c) => j = i
    <2>1. /\ Waits(c, s)
          /\ \A j \in DOMAIN toChar[s] : IsReg(toChar[s][j], c) => j = 1
          /\ \A j \in DOMAIN toMap[s] : ~IsReg(toMap[s][j], c)
      BY <1>1 DEF Types, Awaited
    <2>2. Waits(c, s)'
      BY <1>9, <2>1 DEF Waits
    <2>3. \A j \in DOMAIN toChar'[s] : ~IsReg(toChar'[s][j], c)
      <3> SUFFICES ASSUME NEW j \in DOMAIN toChar'[s], IsReg(toChar'[s][j], c)
                   PROVE  FALSE
        OBVIOUS
      <3>1. j + 1 \in DOMAIN toChar[s] /\ IsReg(toChar[s][j + 1], c)
        <4>1. j + 1 \in DOMAIN toChar[s] /\ Tail(toChar[s])[j] = toChar[s][j + 1]
          BY <1>1, <1>5, Taken
        <4> QED BY <1>5, <4>1
      <3>2. j \in Nat /\ j >= 1
        BY <1>5, LenProperties
      <3>3. j + 1 = 1
        BY <2>1, <3>1
      <3> QED BY <3>2, <3>3
    <2>4. \A i, j \in DOMAIN toMap'[s] : IsReg(toMap'[s][i], c) /\ IsReg(toMap'[s][j], c) => i = j
      <3> DEFINE q == toMap[s]
                 u == toMap'[s]
      <3>1. q \in Seq(ToMapMsg) /\ u = q \o one
        <4>1. q \in Seq(ToMapMsg) /\ u = q \o (<<>> \o one)
          BY <1>5 DEF Types, Shape, Said
        <4>2. <<>> \o one = one
          BY <1>4
        <4> QED BY <4>1, <4>2
      <3>3. \A j \in DOMAIN q : ~IsReg(q[j], c)
        BY <2>1
      <3> HIDE DEF q, u
      <3>2. \A i \in DOMAIN u : (i \in DOMAIN q /\ u[i] = q[i]) \/ i = Len(q) + 1
        <4>1. Len(q) \in Nat /\ DOMAIN q = 1 .. Len(q) /\ DOMAIN u = 1 .. Len(q) + 1
              /\ \A i \in 1 .. Len(q) : u[i] = q[i]
          BY <3>1
        <4> QED BY <4>1
      <3>4. \A i \in DOMAIN u : IsReg(u[i], c) => i = Len(q) + 1
        BY <3>2, <3>3
      <3> QED BY <3>4 DEF u
    <2> QED BY <2>2, <2>3, <2>4
  <1>12. Awaited'
    <2> HIDE DEF Waits, IsReg
    <2> QED BY <1>10, <1>11 DEF Awaited
  <1>13. Fresh'
    <2>1. /\ \A q \in Ids : q > lastId' => /\ party_db_'[q] = None
                                         /\ \A t \in Servers : party_db'[t][q] = None
          /\ \A d \in Chars : player'[d].invite <= lastId'
      BY <1>9 DEF Types, Fresh
    <2>2. {reg} \subseteq CharAware(lastId')
      BY <1>3 DEF CharAware, About, Founding
    <2>3. \A t \in Servers : Moves(toChar[t], toChar'[t], MapAware(lastId'))
      BY <1>5, MoreMoves
    <2>4. \A t \in Servers : Moves(toMap[t], toMap'[t], CharAware(lastId'))
      BY <1>5, <2>2, MoreMoves
    <2>5. lastId' >= lastId
      BY <1>9 DEF Types, Shape
    <2> QED BY <1>6, <2>1, <2>3, <2>4, <2>5, FreshKept
  <1> QED BY <1>6, <1>8, <1>12, <1>13 DEF Types

-----------------------------------------------------------------------------
(* Every step keeps the types: the map-servers'. *)
Players == [Chars -> Sessions \cup {Away}]

LEMMA SessionFacts ==
  ASSUME ConstantsOK, NEW x \in Sessions \cup {Away}
  PROVE  /\ x.at = None => x = Away
         /\ x = Away => /\ x.at = None /\ x.state = "off" /\ x.party_id = 0 /\ x.invite = 0
                        /\ ~x.joining /\ ~x.creating /\ ~x.told
         /\ x.at # None => x \in Sessions
         /\ x.at \in Servers => x \in Sessions /\ x # Away
         /\ x.at \in Servers \cup {None} /\ x.state \in {"off", "auth", "reg", "map"}
         /\ x.state = "off" <=> x = Away
         /\ x.party_id \in 0 .. LastParty /\ x.invite \in 0 .. LastParty
         /\ x.joining \in BOOLEAN /\ x.creating \in BOOLEAN /\ x.told \in BOOLEAN
  <1>1. LastParty \in Nat /\ None \notin Servers
    BY DEF ConstantsOK
  <1>2. CASE x = Away
    BY <1>1, <1>2 DEF Away
  <1>3. CASE x \in Sessions
    BY <1>1, <1>3 DEF Sessions, Away
  <1> QED BY <1>2, <1>3

(* y is x, in another party maybe. *)
Alike(x, y) ==
  /\ y \in Sessions \cup {Away}
  /\ y.at = x.at /\ y.state = x.state /\ y.invite = x.invite
  /\ y.joining = x.joining /\ y.creating = x.creating /\ y.told = x.told

LEMMA AlikeTypes ==
  ASSUME ConstantsOK, Types, \A c \in Chars : Alike(player[c], player'[c])
  PROVE  Steady /\ \A c \in Chars : player'[c].invite <= lastId
  <1>1. \A c \in Chars : player[c] = Away => player'[c] = Away
    <2> SUFFICES ASSUME NEW c \in Chars, player[c] = Away PROVE player'[c] = Away
      OBVIOUS
    <2>1. player'[c] \in Sessions \cup {Away} /\ player'[c].at = player[c].at
      BY DEF Alike
    <2>2. player[c].at = None
      BY DEF Away
    <2> QED BY <2>1, <2>2, SessionFacts
  <1>2. \A c \in Chars, s \in Servers : Waits(c, s) => Waits(c, s)'
    BY DEF Alike, Waits
  <1>3. \A c \in Chars : player'[c].invite <= lastId
    BY DEF Alike, Types, Fresh
  <1> QED BY <1>1, <1>2, <1>3 DEF Steady

LEMMA AlikeTrans ==
  ASSUME NEW x, NEW y, NEW z, Alike(x, y), Alike(y, z)
  PROVE  Alike(x, z)
  BY DEF Alike

LEMMA AlikeSelf ==
  ASSUME NEW x \in Sessions \cup {Away}
  PROVE  Alike(x, x)
  BY DEF Alike

LEMMA AlikeIn ==
  ASSUME ConstantsOK, NEW x \in Sessions \cup {Away}, NEW p \in 0 .. LastParty,
         x.at # None \/ p = 0
  PROVE  /\ [x EXCEPT !.party_id = p] \in Sessions \cup {Away}
         /\ Alike(x, [x EXCEPT !.party_id = p])
         /\ [x EXCEPT !.party_id = p].party_id = p
  <1>1. CASE x = Away
    <2>1. p = 0
      BY <1>1 DEF Away
    <2>2. [x EXCEPT !.party_id = p] = Away
      <3>1. [Away EXCEPT !.party_id = 0] = Away
        <4> DEFINE Out == [at : {None}, state : {"off"}, party_id : {0}, invite : {0},
                           joining : BOOLEAN, creating : BOOLEAN, told : BOOLEAN]
                   y == [Away EXCEPT !.party_id = 0]
        <4>1. y \in Out /\ ~y.joining /\ ~y.creating /\ ~y.told
          BY DEF Away
        <4> HIDE DEF y
        <4>2. y = Away
          BY <4>1 DEF Away
        <4> QED BY <4>2 DEF y
      <3> QED BY <1>1, <2>1, <3>1
    <2> QED BY <1>1, <2>1, <2>2 DEF Alike, Away
  <1>2. CASE x \in Sessions
    <2>1. [x EXCEPT !.party_id = p] \in Sessions
      BY <1>2 DEF Sessions
    <2> QED BY <1>2, <2>1 DEF Alike, Sessions
  <1> QED BY <1>1, <1>2

LEMMA OutOfFacts ==
  ASSUME ConstantsOK, NEW pl \in Players, NEW p, NEW S,
         NEW new, new = OutOf(pl, p, S)
  PROVE  /\ new \in Players
         /\ \A c \in Chars : Alike(pl[c], new[c])
         /\ \A c \in Chars : new[c].party_id = IF c \in S /\ pl[c].party_id = p THEN 0
                                               ELSE pl[c].party_id
         /\ \A c \in Chars : ~(c \in S /\ pl[c].party_id = p) => new[c] = pl[c]
  <1>0. 0 \in 0 .. LastParty
    BY DEF ConstantsOK
  <1>1. ASSUME NEW c \in Chars
        PROVE  /\ new[c] \in Sessions \cup {Away} /\ Alike(pl[c], new[c])
               /\ new[c].party_id = IF c \in S /\ pl[c].party_id = p THEN 0 ELSE pl[c].party_id
               /\ ~(c \in S /\ pl[c].party_id = p) => new[c] = pl[c]
    <2> DEFINE x == pl[c]
    <2>1. x \in Sessions \cup {Away}
      BY DEF Players
    <2>2. CASE c \in S /\ x.party_id = p
      <3>1. new[c] = [x EXCEPT !.party_id = 0]
        BY <2>2 DEF OutOf
      <3> HIDE DEF x
      <3>2. /\ [x EXCEPT !.party_id = 0] \in Sessions \cup {Away}
            /\ Alike(x, [x EXCEPT !.party_id = 0])
            /\ [x EXCEPT !.party_id = 0].party_id = 0
        BY <1>0, <2>1, AlikeIn
      <3> QED BY <2>2, <3>1, <3>2 DEF x
    <2>3. CASE ~(c \in S /\ x.party_id = p)
      <3>1. new[c] = x
        BY <2>3 DEF OutOf
      <3> HIDE DEF x
      <3>2. Alike(x, x)
        BY <2>1, AlikeSelf
      <3> QED BY <2>1, <2>3, <3>1, <3>2 DEF x
    <2> QED BY <2>2, <2>3
  <1>2. new \in Players
    BY <1>1 DEF OutOf, Players
  <1> QED BY <1>1, <1>2

LEMMA InPartyFacts ==
  ASSUME ConstantsOK, NEW pl \in Players, NEW p \in Ids, NEW S,
         \A c \in S : c \in Chars => pl[c].at # None,
         NEW new, new = InParty(pl, p, S)
  PROVE  /\ new \in Players
         /\ \A c \in Chars : Alike(pl[c], new[c])
         /\ \A c \in Chars : new[c].party_id = IF c \in S THEN p ELSE pl[c].party_id
         /\ \A c \in Chars : c \notin S => new[c] = pl[c]
  <1>0. p \in 0 .. LastParty
    BY DEF ConstantsOK, Ids
  <1>1. ASSUME NEW c \in Chars
        PROVE  /\ new[c] \in Sessions \cup {Away} /\ Alike(pl[c], new[c])
               /\ new[c].party_id = IF c \in S THEN p ELSE pl[c].party_id
               /\ c \notin S => new[c] = pl[c]
    <2> DEFINE x == pl[c]
    <2>1. x \in Sessions \cup {Away}
      BY DEF Players
    <2>2. CASE c \in S
      <3>1. new[c] = [x EXCEPT !.party_id = p] /\ x.at # None
        BY <2>2 DEF InParty
      <3> HIDE DEF x
      <3>2. /\ [x EXCEPT !.party_id = p] \in Sessions \cup {Away}
            /\ Alike(x, [x EXCEPT !.party_id = p])
            /\ [x EXCEPT !.party_id = p].party_id = p
        BY <1>0, <2>1, <3>1, AlikeIn
      <3> QED BY <2>2, <3>1, <3>2 DEF x
    <2>3. CASE c \notin S
      <3>1. new[c] = x
        BY <2>3 DEF InParty
      <3> HIDE DEF x
      <3>2. Alike(x, x)
        BY <2>1, AlikeSelf
      <3> QED BY <2>1, <2>3, <3>1, <3>2 DEF x
    <2> QED BY <2>2, <2>3
  <1>2. new \in Players
    BY <1>1 DEF InParty, Players
  <1> QED BY <1>1, <1>2

LEMMA DisbandedFacts ==
  ASSUME ConstantsOK, NEW pl \in Players, NEW s, NEW p,
         NEW new, new = Disbanded(pl, s, p)
  PROVE  /\ new \in Players
         /\ \A c \in Chars : Alike(pl[c], new[c])
         /\ \A c \in Chars : new[c].party_id \in {0, pl[c].party_id}
         /\ \A c \in Chars : Copy(s, p) # None /\ c \in Copy(s, p).data => new[c].party_id = 0
         /\ \A c \in Chars : ~(Copy(s, p) # None /\ c \in Copy(s, p).data) => new[c] = pl[c]
  <1> DEFINE in(c) == Copy(s, p) # None /\ c \in Copy(s, p).data
  <1>0. 0 \in 0 .. LastParty
    BY DEF ConstantsOK
  <1>1. ASSUME NEW c \in Chars
        PROVE  /\ new[c] \in Sessions \cup {Away} /\ Alike(pl[c], new[c])
               /\ new[c].party_id \in {0, pl[c].party_id}
               /\ in(c) => new[c].party_id = 0
               /\ ~in(c) => new[c] = pl[c]
    <2> DEFINE x == pl[c]
    <2>1. x \in Sessions \cup {Away}
      BY DEF Players
    <2>2. CASE in(c)
      <3>1. new[c] = [x EXCEPT !.party_id = 0]
        BY <2>2 DEF Disbanded
      <3> HIDE DEF x
      <3>2. /\ [x EXCEPT !.party_id = 0] \in Sessions \cup {Away}
            /\ Alike(x, [x EXCEPT !.party_id = 0])
            /\ [x EXCEPT !.party_id = 0].party_id = 0
        BY <1>0, <2>1, AlikeIn
      <3> QED BY <2>2, <3>1, <3>2 DEF x
    <2>3. CASE ~in(c)
      <3>1. new[c] = x
        BY <2>3 DEF Disbanded
      <3> HIDE DEF x
      <3>2. Alike(x, x)
        BY <2>1, AlikeSelf
      <3> QED BY <2>1, <2>3, <3>1, <3>2 DEF x
    <2> QED BY <2>2, <2>3
  <1>2. new \in Players
    BY <1>1 DEF Disbanded, Players
  <1> QED BY <1>1, <1>2

(* The first message to a map-server. *)
LEMMA ToldFacts ==
  ASSUME Types, NEW s \in Servers, NEW kind, Told(s, kind)
  PROVE  /\ toMap[s] \in Seq(ToMapMsg) /\ toMap[s] # <<>>
         /\ 1 \in DOMAIN toMap[s] /\ Head(toMap[s]) = toMap[s][1]
         /\ Head(toMap[s]) \in ToMapMsg /\ Head(toMap[s]).kind = kind
         /\ kind \in Founding => Head(toMap[s]).party <= lastId
  <1>1. toMap[s] \in Seq(ToMapMsg) /\ toMap[s] # <<>>
    BY DEF Types, Shape, Told
  <1>2. /\ 1 \in DOMAIN toMap[s] /\ Head(toMap[s]) = toMap[s][1]
        /\ Head(toMap[s]) \in ToMapMsg /\ Head(toMap[s]).kind = kind
    BY <1>1, Taken DEF Told
  <1>3. kind \in Founding => Head(toMap[s]).party <= lastId
    BY <1>2 DEF Types, Fresh, About
  <1> QED BY <1>1, <1>2, <1>3

LEMMA CopyFacts ==
  ASSUME Types, NEW s \in Servers, NEW p \in Ids, Copy(s, p) # None
  PROVE  /\ Copy(s, p) \in Copies /\ Copy(s, p) = party_db[s][p]
         /\ Copy(s, p).member \in Rosters /\ Copy(s, p).data \in SUBSET Chars
         /\ Copy(s, p).exp \in BOOLEAN /\ p <= lastId
  <1>1. Copy(s, p) \in Copies /\ Copy(s, p) = party_db[s][p]
    BY DEF Types, Shape, Copy
  <1>2. p > lastId => Copy(s, p) = None
    BY DEF Types, Fresh, Copy
  <1>3. p \in Int /\ lastId \in Int
    BY DEF Types, Shape, Ids
  <1> QED BY <1>1, <1>2, <1>3 DEF Copies

LEMMA PutCopy ==
  ASSUME ConstantsOK, Types, NEW s \in Servers, NEW p \in Ids, NEW C \in Copies \cup {None},
         C # None => p <= lastId,
         party_db' = [party_db EXCEPT ![s][p] = C]
  PROVE  /\ party_db' \in [Servers -> [Ids -> Copies \cup {None}]]
         /\ \A q \in Ids : q > lastId => \A t \in Servers : party_db'[t][q] = None
         /\ party_db'[s][p] = C
         /\ \A t \in Servers, q \in Ids : t # s \/ q # p => party_db'[t][q] = party_db[t][q]
  <1>1. party_db \in [Servers -> [Ids -> Copies \cup {None}]] /\ lastId \in Int /\ p \in Int
    BY DEF Types, Shape, Ids
  <1>2. /\ party_db' \in [Servers -> [Ids -> Copies \cup {None}]]
        /\ party_db'[s][p] = C
        /\ \A t \in Servers, q \in Ids : t # s \/ q # p => party_db'[t][q] = party_db[t][q]
    BY <1>1
  <1>3. \A q \in Ids : q > lastId => \A t \in Servers : party_db'[t][q] = None
    <2> SUFFICES ASSUME NEW q \in Ids, q > lastId, NEW t \in Servers
                 PROVE  party_db'[t][q] = None
      OBVIOUS
    <2>1. party_db[t][q] = None
      BY DEF Types, Fresh
    <2>2. q = p => C = None
      BY <1>1
    <2> QED BY <1>2, <2>1, <2>2
  <1> QED BY <1>2, <1>3

LEMMA MapSays ==
  ASSUME NEW n \in Int, NEW c \in Chars
  PROVE  /\ \A p \in Ids : Leave(p, c) \in MapNews(n)
         /\ \A p \in Ids : <<Leave(p, c)>> \in Seq(MapNews(n))
         /\ <<>> \in Seq(MapNews(n))
  <1>1. \A p \in Ids : Leave(p, c) \in MapNews(n)
    BY ToCharMade DEF MapNews, MapAware, About, Leave
  <1>2. \A p \in Ids : <<Leave(p, c)>> \in Seq(MapNews(n))
    BY <1>1, One
  <1> QED BY <1>1, <1>2

(* A handler that changes nobody but by the party it is in. *)
LEMMA AlikeHandled ==
  ASSUME ConstantsOK, Types, NEW s \in Servers, toMap[s] # <<>>,
         NEW packets \in Seq(MapNews(lastId)), Handled(s, packets),
         player' \in Players, \A c \in Chars : Alike(player[c], player'[c]),
         party_db' \in [Servers -> [Ids -> Copies \cup {None}]],
         \A q \in Ids : q > lastId => \A t \in Servers : party_db'[t][q] = None
  PROVE  Types'
  <1>1. Steady /\ \A c \in Chars : player'[c].invite <= lastId
    BY AlikeTypes
  <1>2. player' \in [Chars -> Sessions \cup {Away}]
    BY DEF Players
  <1> QED BY <1>1, <1>2, HandledTypes

(* A map-server handles a message: it may ask the char-server to take      *)
(* characters out of parties, and nobody moves, joins or is invited.       *)
Settled(c) == /\ player'[c].at = player[c].at /\ player'[c].joining = player[c].joining
              /\ player'[c].invite \in {0, player[c].invite}
(* Nobody starts to wait, and who waits for a party goes on, unless this is *)
(* an answer.                                                              *)
Waitless(c, m) == /\ player'[c].state = "auth" => player[c].state = "auth"
                  /\ player'[c].creating = player[c].creating \/ m.kind = "created"
Calmer(s) == /\ toMap[s] # <<>> /\ \E packets \in Seq(LeaveMsgs) : Handled(s, packets)
             /\ \A c \in Chars : Settled(c) /\ Waitless(c, Head(toMap[s]))

LEMMA LeaveSays ==
  ASSUME NEW c \in Chars
  PROVE  /\ \A p \in Ids : Leave(p, c) \in LeaveMsgs
         /\ \A p \in Ids : <<Leave(p, c)>> \in Seq(LeaveMsgs)
         /\ <<>> \in Seq(LeaveMsgs)
  <1>1. \A p \in Ids : Leave(p, c) \in LeaveMsgs
    BY DEF LeaveMsgs, Leave
  <1>2. \A p \in Ids : <<Leave(p, c)>> \in Seq(LeaveMsgs)
    BY <1>1, One
  <1> QED BY <1>1, <1>2

LEMMA LeavesAre == \A n : LeaveMsgs \subseteq MapNews(n)
  BY DEF LeaveMsgs, MapNews, MapAware, About, ToCharMsg

LEMMA AlikeSteps ==
  ASSUME ConstantsOK, Types, NEW s \in Servers, toMap[s] # <<>>,
         NEW packets \in Seq(LeaveMsgs), Handled(s, packets),
         player' \in Players, \A c \in Chars : Alike(player[c], player'[c]),
         party_db' \in [Servers -> [Ids -> Copies \cup {None}]],
         \A q \in Ids : q > lastId => \A t \in Servers : party_db'[t][q] = None
  PROVE  Types' /\ Calmer(s)
  <1>1. packets \in Seq(MapNews(lastId))
    BY LeavesAre, SeqMonotonic
  <1>2. Types'
    BY <1>1, AlikeHandled
  <1>3. \A c \in Chars : Settled(c) /\ Waitless(c, Head(toMap[s]))
    BY DEF Alike, Settled, Waitless
  <1> QED BY <1>2, <1>3 DEF Calmer

LEMMA BrokenSteps ==
  ASSUME ConstantsOK, Types, NEW s \in Servers, party_broken(s)
  PROVE  Types' /\ Calmer(s)
  <1> DEFINE p == Head(toMap[s]).party
  <1>1. toMap[s] # <<>> /\ p \in Ids
    BY ToldFacts, ToMapKinds DEF party_broken, Brokens
  <1>2. player' = Disbanded(player, s, p) /\ party_db' = [party_db EXCEPT ![s][p] = None]
        /\ Handled(s, <<>>) /\ <<>> \in Seq(LeaveMsgs) /\ None \in Copies \cup {None}
    BY DEF party_broken
  <1>3. player \in Players
    BY DEF Types, Shape, Players
  <1> HIDE DEF p
  <1>4. player' \in Players /\ \A c \in Chars : Alike(player[c], player'[c])
    BY <1>2, <1>3, DisbandedFacts
  <1>5. /\ party_db' \in [Servers -> [Ids -> Copies \cup {None}]]
        /\ \A q \in Ids : q > lastId => \A t \in Servers : party_db'[t][q] = None
    BY <1>1, <1>2, PutCopy
  <1> QED BY <1>1, <1>2, <1>4, <1>5, AlikeSteps

LEMMA NoInfoSteps ==
  ASSUME ConstantsOK, Types, NEW s \in Servers, party_recv_noinfo(s)
  PROVE  Types' /\ Calmer(s)
  <1> DEFINE m == Head(toMap[s])
             p == m.party
             pl == Disbanded(player, s, p)
             out == OutOf(pl, p, {m.who})
  <1>1. toMap[s] # <<>> /\ p \in Ids /\ m.who \in Chars
    BY ToldFacts, ToMapKinds DEF party_recv_noinfo, NoInfos
  <1>2. party_db' = [party_db EXCEPT ![s][p] = None] /\ player' \in {pl, out}
        /\ Handled(s, <<>>) /\ <<>> \in Seq(LeaveMsgs) /\ None \in Copies \cup {None}
    BY DEF party_recv_noinfo
  <1>3. player \in Players
    BY DEF Types, Shape, Players
  <1> HIDE DEF p, m
  <1>4. pl \in Players /\ \A c \in Chars : Alike(player[c], pl[c])
    BY <1>3, DisbandedFacts
  <1> HIDE DEF pl
  <1>5. out \in Players /\ \A c \in Chars : Alike(pl[c], out[c])
    BY <1>4, OutOfFacts
  <1> HIDE DEF out
  <1>6. player' \in Players /\ \A c \in Chars : Alike(player[c], player'[c])
    BY <1>2, <1>4, <1>5, AlikeTrans
  <1>7. /\ party_db' \in [Servers -> [Ids -> Copies \cup {None}]]
        /\ \A q \in Ids : q > lastId => \A t \in Servers : party_db'[t][q] = None
    BY <1>1, <1>2, PutCopy
  <1> QED BY <1>1, <1>2, <1>6, <1>7, AlikeSteps

LEMMA OptionSteps ==
  ASSUME ConstantsOK, Types, NEW s \in Servers, party_optionchanged(s)
  PROVE  Types' /\ Calmer(s)
  <1> DEFINE m == Head(toMap[s])
             p == m.party
             old == party_db[s][p]
             C == IF old = None \/ m.denied THEN old ELSE [old EXCEPT !.exp = m.exp]
  <1>1. toMap[s] # <<>> /\ p \in Ids /\ m.exp \in BOOLEAN
    BY ToldFacts, ToMapKinds DEF party_optionchanged, Options
  <1>2. party_db' = [party_db EXCEPT ![s][p] = C] /\ player' = player
        /\ Handled(s, <<>>) /\ <<>> \in Seq(LeaveMsgs)
    BY DEF party_optionchanged
  <1>3. player \in Players /\ \A c \in Chars : player[c] \in Sessions \cup {Away}
    BY DEF Types, Shape, Players
  <1>4. old \in Copies \cup {None} /\ (old # None => p <= lastId)
    BY <1>1, CopyFacts DEF Copy
  <1> HIDE DEF p, m, old
  <1>5. C \in Copies \cup {None} /\ (C # None => p <= lastId)
    BY <1>1, <1>4 DEF Copies
  <1> HIDE DEF C
  <1>6. /\ party_db' \in [Servers -> [Ids -> Copies \cup {None}]]
        /\ \A q \in Ids : q > lastId => \A t \in Servers : party_db'[t][q] = None
    BY <1>1, <1>2, <1>5, PutCopy
  <1>7. player' \in Players /\ \A c \in Chars : Alike(player[c], player'[c])
    BY <1>2, <1>3, AlikeSelf
  <1> QED BY <1>1, <1>2, <1>6, <1>7, AlikeSteps

LEMMA ForgottenFacts ==
  ASSUME NEW C \in Copies, NEW c, NEW D, D = Forgotten(C, c)
  PROVE  /\ D \in Copies /\ D.exp = C.exp /\ D.data = C.data \ {c}
         /\ DOMAIN D.member = DOMAIN C.member \ {c}
         /\ \A d \in DOMAIN C.member \ {c} : D.member[d] = C.member[d]
  <1> DEFINE less == [d \in DOMAIN C.member \ {c} |-> C.member[d]]
  <1>1. C.member \in Rosters /\ C.data \subseteq Chars
    BY DEF Copies
  <1>2. less \in Rosters
    <2>1. less \in [DOMAIN less -> Member] /\ DOMAIN less \subseteq Chars
      BY <1>1, RosterFacts
    <2> QED BY <2>1, RosterFacts
  <1>3. /\ DOMAIN less = DOMAIN C.member \ {c}
        /\ \A d \in DOMAIN C.member \ {c} : less[d] = C.member[d]
    OBVIOUS
  <1> HIDE DEF less
  <1>4. D = [C EXCEPT !.member = less, !.data = C.data \ {c}]
    BY DEF Forgotten, less
  <1> QED BY <1>1, <1>2, <1>3, <1>4 DEF Copies

LEMMA WithdrawSteps ==
  ASSUME ConstantsOK, Types, NEW s \in Servers, party_member_withdraw(s)
  PROVE  Types' /\ Calmer(s)
  <1> DEFINE m == Head(toMap[s])
             p == m.party
             old == party_db[s][p]
             C == IF old = None THEN old ELSE Forgotten(old, m.who)
             out == OutOf(player, p, {m.who})
  <1>1. toMap[s] # <<>> /\ p \in Ids /\ m.who \in Chars
    BY ToldFacts, ToMapKinds DEF party_member_withdraw, Withdraws
  <1>2. party_db' = [party_db EXCEPT ![s][p] = C] /\ player' \in {player, out}
        /\ Handled(s, <<>>) /\ <<>> \in Seq(LeaveMsgs)
    BY DEF party_member_withdraw
  <1>3. player \in Players /\ \A c \in Chars : player[c] \in Sessions \cup {Away}
    BY DEF Types, Shape, Players
  <1>4. old \in Copies \cup {None} /\ (old # None => p <= lastId)
    BY <1>1, CopyFacts DEF Copy
  <1> HIDE DEF p, m, old
  <1>5. C \in Copies \cup {None} /\ (C # None => p <= lastId)
    BY <1>4, ForgottenFacts
  <1> HIDE DEF C
  <1>6. /\ party_db' \in [Servers -> [Ids -> Copies \cup {None}]]
        /\ \A q \in Ids : q > lastId => \A t \in Servers : party_db'[t][q] = None
    BY <1>1, <1>2, <1>5, PutCopy
  <1>7. out \in Players /\ \A c \in Chars : Alike(player[c], out[c])
    BY <1>3, OutOfFacts
  <1> HIDE DEF out
  <1>8. player' \in Players /\ \A c \in Chars : Alike(player[c], player'[c])
    BY <1>2, <1>3, <1>7, AlikeSelf
  <1> QED BY <1>1, <1>2, <1>6, <1>8, AlikeSteps

LEMMA BelongsFacts ==
  ASSUME ConstantsOK, NEW pl \in Players, NEW s \in Servers, NEW p, NEW S
  PROVE  /\ Belongs(pl, s, p, S) \subseteq S /\ Astray(pl, s, p, S) \subseteq S
         /\ \A c \in Belongs(pl, s, p, S) : c \in Chars => pl[c].at # None
  BY DEF Belongs, Astray, ConstantsOK

LEMMA RecvInfoSteps ==
  ASSUME ConstantsOK, Types, NEW s \in Servers, party_recv_info(s)
  PROVE  Types' /\ Calmer(s)
  <1> DEFINE m == Head(toMap[s])
             p == m.party
             members == DOMAIN m.member
             removed == IF Copy(s, p) = None THEN {} ELSE Copy(s, p).data \ members
             left == OutOf(player, p, removed)
             sds == Belongs(left, s, p, members)
             checked == InParty(left, p, sds)
             S == Astray(left, s, p, members)
             astray == SetToSeq(S)
             out == OutOf(checked, p, {m.who})
             C == [member |-> m.member, exp |-> m.exp, data |-> sds]
             packets == [i \in DOMAIN astray |-> Leave(p, astray[i])]
  <1>1. toMap[s] # <<>> /\ m \in Infos /\ p <= lastId
    BY ToldFacts, ToMapKinds DEF party_recv_info, Founding
  <1>2. p \in Ids /\ m.member \in Rosters /\ m.exp \in BOOLEAN
    BY <1>1 DEF Infos
  <1>3. /\ party_db' = [party_db EXCEPT ![s][p] = C] /\ player' \in {checked, out}
        /\ Handled(s, packets)
    BY Zenon DEF party_recv_info
  <1>4. player \in Players /\ lastId \in Int
    BY DEF Types, Shape, Players
  <1>5. members \subseteq Chars
    BY <1>2, RosterFacts
  <1> HIDE DEF m, p, members, removed
  <1>6. left \in Players /\ \A c \in Chars : Alike(player[c], left[c])
    BY <1>4, OutOfFacts
  <1> HIDE DEF left
  <1>7. sds \subseteq members /\ S \subseteq members /\ \A c \in sds : c \in Chars => left[c].at # None
    BY <1>6, BelongsFacts
  <1> HIDE DEF sds, S
  <1>8. checked \in Players /\ \A c \in Chars : Alike(left[c], checked[c])
    BY <1>2, <1>6, <1>7, InPartyFacts
  <1> HIDE DEF checked
  <1>9. out \in Players /\ \A c \in Chars : Alike(checked[c], out[c])
    BY <1>8, OutOfFacts
  <1> HIDE DEF out
  <1>10. \A c \in Chars : Alike(player[c], checked[c])
    BY <1>6, <1>8, AlikeTrans
  <1>11. player' \in Players /\ \A c \in Chars : Alike(player[c], player'[c])
    BY <1>3, <1>8, <1>9, <1>10, AlikeTrans
  <1>12. C \in Copies \cup {None} /\ (C # None => p <= lastId)
    BY <1>1, <1>2, <1>5, <1>7 DEF Copies, p
  <1> HIDE DEF C
  <1>13. /\ party_db' \in [Servers -> [Ids -> Copies \cup {None}]]
         /\ \A q \in Ids : q > lastId => \A t \in Servers : party_db'[t][q] = None
    BY <1>2, <1>3, <1>12, PutCopy
  <1>14. packets \in Seq(LeaveMsgs)
    <2>1. S \subseteq Chars /\ IsFiniteSet(S)
      BY <1>5, <1>7, FS_Subset DEF ConstantsOK
    <2>2. astray \in Seq(Chars)
      <3>1. SetToSeq(S) \in Seq(S)
        BY <2>1, Listed
      <3>2. SetToSeq(S) \in Seq(Chars)
        BY <2>1, <3>1, SeqMonotonic
      <3> QED BY <3>2
    <2> HIDE DEF astray
    <2>3. \A i \in DOMAIN astray : astray[i] \in Chars
      BY <2>2
    <2>4. \A i \in DOMAIN astray : Leave(p, astray[i]) \in LeaveMsgs
      BY <1>2, <1>4, <2>3, LeaveSays
    <2>5. DOMAIN astray = 1 .. Len(astray) /\ Len(astray) \in Nat
      BY <2>2, LenProperties
    <2> QED BY <2>4, <2>5
  <1> HIDE DEF packets
  <1> QED BY <1>1, <1>3, <1>11, <1>13, <1>14, AlikeSteps

LEMMA RetoldFacts ==
  ASSUME NEW C \in Copies, NEW m \in Moveds, m.who \in DOMAIN C.member, NEW S \in SUBSET Chars,
         NEW D, D = Retold(C, m, S)
  PROVE  /\ D \in Copies /\ D.exp = C.exp /\ D.data = (C.data \ {m.who}) \cup S
         /\ DOMAIN D.member = DOMAIN C.member
         /\ D.member[m.who].online = m.online
         /\ \A d \in DOMAIN C.member \ {m.who} : D.member[d] = C.member[d]
  <1> DEFINE c == m.who
             v == [C.member[c] EXCEPT !.online = m.online, !.lv = m.lv]
             new == [C.member EXCEPT ![c] = v]
             dat == (C.data \ {c}) \cup S
  <1>1. C.member \in Rosters /\ C.data \subseteq Chars /\ C.member[c] \in Member
        /\ m.online \in BOOLEAN /\ m.lv \in 1 .. TopLevel
    BY RosterFacts DEF Copies, Moveds
  <1>2. v \in Member /\ v.online = m.online
    BY <1>1 DEF Member
  <1>3. D = [C EXCEPT !.member = new, !.data = dat]
    BY DEF Retold
  <1> DEFINE ros == C.member
  <1> HIDE DEF v, c
  <1>4. ros \in Rosters /\ c \in DOMAIN ros
    BY <1>1 DEF c
  <1> HIDE DEF ros
  <1>5. [ros EXCEPT ![c] = v] \in Rosters /\ DOMAIN [ros EXCEPT ![c] = v] = DOMAIN ros
        /\ [ros EXCEPT ![c] = v][c] = v
        /\ \A d \in DOMAIN ros \ {c} : [ros EXCEPT ![c] = v][d] = ros[d]
    BY <1>2, <1>4, Changed
  <1>6. /\ new \in Rosters /\ DOMAIN new = DOMAIN C.member /\ new[c] = v
        /\ \A d \in DOMAIN C.member \ {c} : new[d] = C.member[d]
    BY <1>5 DEF ros
  <1> HIDE DEF new
  <1>7. dat \in SUBSET Chars
    BY <1>1
  <1> HIDE DEF dat
  <1>8. D \in Copies /\ D.exp = C.exp /\ D.data = dat /\ D.member = new
    BY <1>3, <1>6, <1>7 DEF Copies
  <1> QED BY <1>2, <1>6, <1>8 DEF c, dat

LEMMA MovemapSteps ==
  ASSUME ConstantsOK, Types, NEW s \in Servers, party_recv_movemap(s)
  PROVE  Types' /\ Calmer(s)
  <1> DEFINE m == Head(toMap[s])
             p == m.party
             c == m.who
             old == party_db[s][p]
             sds == Belongs(player, s, p, {c})
             C == Retold(old, m, sds)
             in == InParty(player, p, sds)
             packets == IF Astray(player, s, p, {c}) = {} THEN <<>> ELSE <<Leave(p, c)>>
  <1>1. toMap[s] # <<>> /\ m \in Moveds /\ p <= lastId
    BY ToldFacts, ToMapKinds DEF party_recv_movemap, Founding
  <1>2. p \in Ids /\ c \in Chars
    BY <1>1 DEF Moveds
  <1>3. \/ Handled(s, <<>>) /\ UNCHANGED <<party_db, player>>
        \/ /\ old # None /\ c \in DOMAIN old.member
           /\ party_db' = [party_db EXCEPT ![s][p] = C]
           /\ player' = in /\ Handled(s, packets)
    BY DEF party_recv_movemap, Copy
  <1>4. player \in Players /\ lastId \in Int /\ party_db \in [Servers -> [Ids -> Copies \cup {None}]]
        /\ (\A d \in Chars : player[d] \in Sessions \cup {Away})
        /\ \A q \in Ids : q > lastId => \A t \in Servers : party_db[t][q] = None
    BY DEF Types, Shape, Players, Fresh
  <1>5. CASE Handled(s, <<>>) /\ UNCHANGED <<party_db, player>>
    <2>1. player' \in Players /\ \A d \in Chars : Alike(player[d], player'[d])
      BY <1>4, <1>5, AlikeSelf
    <2>2. <<>> \in Seq(LeaveMsgs)
      OBVIOUS
    <2> QED BY <1>1, <1>4, <1>5, <2>1, <2>2, AlikeSteps
  <1>6. CASE /\ old # None /\ c \in DOMAIN old.member
             /\ party_db' = [party_db EXCEPT ![s][p] = C]
             /\ player' = in /\ Handled(s, packets)
    <2>1. old \in Copies
      BY <1>2, <1>4, <1>6
    <2> HIDE DEF old, m, p
    <2>2. sds \subseteq {c} /\ \A d \in sds : d \in Chars => player[d].at # None
      BY <1>4, BelongsFacts
    <2> HIDE DEF sds
    <2>3. sds \in SUBSET Chars
      BY <1>2, <2>2
    <2>4. in \in Players /\ \A d \in Chars : Alike(player[d], in[d])
      BY <1>2, <1>4, <2>2, InPartyFacts
    <2> HIDE DEF in
    <2>5. C \in Copies
      BY <1>1, <1>6, <2>1, <2>3, RetoldFacts
    <2>6. C \in Copies \cup {None} /\ (C # None => p <= lastId)
      BY <1>1, <2>5
    <2> HIDE DEF C
    <2>7. /\ party_db' \in [Servers -> [Ids -> Copies \cup {None}]]
          /\ \A q \in Ids : q > lastId => \A t \in Servers : party_db'[t][q] = None
      BY <1>2, <1>6, <2>6, PutCopy
    <2>8. packets \in Seq(LeaveMsgs)
      BY <1>2, <1>4, LeaveSays
    <2> HIDE DEF packets
    <2> QED BY <1>1, <1>6, <2>4, <2>7, <2>8, AlikeSteps
  <1> QED BY <1>3, <1>5, <1>6

(* One player changes, and stays. *)
LEMMA OneChanges ==
  ASSUME ConstantsOK, Types, NEW c \in Chars, player[c] \in Sessions, NEW y \in Sessions,
         y.at = player[c].at, y.invite <= lastId,
         player[c].state = "auth" => y.state = "auth",
         player' = [player EXCEPT ![c] = y]
  PROVE  /\ player' \in [Chars -> Sessions \cup {Away}] /\ player'[c] = y
         /\ \A d \in Chars \ {c} : player'[d] = player[d]
         /\ \A d \in Chars : player'[d].invite <= lastId
         /\ Steady
  <1>1. player \in [Chars -> Sessions \cup {Away}]
    BY DEF Types, Shape
  <1>2. /\ player' \in [Chars -> Sessions \cup {Away}] /\ player'[c] = y
        /\ \A d \in Chars \ {c} : player'[d] = player[d]
    BY <1>1
  <1>3. \A d \in Chars : player'[d].invite <= lastId
    BY <1>2 DEF Types, Fresh
  <1>4. player[c] # Away
    <2>1. player[c].at \in Servers
      BY DEF Sessions
    <2> QED BY <2>1 DEF Away, ConstantsOK
  <1>5. \A d \in Chars, s \in Servers : Waits(d, s) => Waits(d, s)'
    <2> SUFFICES ASSUME NEW d \in Chars, NEW s \in Servers, Waits(d, s) PROVE Waits(d, s)'
      OBVIOUS
    <2>1. CASE d = c
      BY <1>2, <2>1 DEF Waits
    <2>2. CASE d # c
      BY <1>2, <2>2 DEF Waits
    <2> QED BY <2>1, <2>2
  <1>6. \A d \in Chars : player[d] = Away => player'[d] = Away
    BY <1>2, <1>4
  <1> QED BY <1>2, <1>3, <1>5, <1>6 DEF Steady

LEMMA CreatedSteps ==
  ASSUME ConstantsOK, Types, NEW s \in Servers, party_created(s)
  PROVE  Types' /\ Calmer(s)
  <1> DEFINE m == Head(toMap[s])
             c == m.who
             packets == Abandoned(m.party, c, m.party # 0)
             id == IF m.party = 0 THEN player[c].party_id ELSE m.party
             y == [player[c] EXCEPT !.creating = FALSE, !.party_id = id]
  <1>1. toMap[s] # <<>> /\ m \in Createds
    BY ToldFacts, ToMapKinds DEF party_created
  <1>2. m.party \in 0 .. LastParty /\ c \in Chars
    BY <1>1 DEF Createds
  <1>3. /\ party_db' = party_db
        /\ \/ Here(s, c) /\ player' = [player EXCEPT ![c] = y] /\ Handled(s, <<>>)
           \/ Handled(s, packets) /\ UNCHANGED player
    BY DEF party_created
  <1>4. /\ player \in Players /\ lastId \in Int /\ party_db \in [Servers -> [Ids -> Copies \cup {None}]]
        /\ (\A d \in Chars : player[d] \in Sessions \cup {Away})
        /\ \A q \in Ids : q > lastId => \A t \in Servers : party_db[t][q] = None
    BY DEF Types, Shape, Players, Fresh
  <1>5. <<>> \in Seq(LeaveMsgs)
    OBVIOUS
  <1>6. CASE Handled(s, packets) /\ UNCHANGED player
    <2>1. packets \in Seq(LeaveMsgs)
      <3>1. m.party # 0 => m.party \in Ids
        BY <1>2 DEF Ids
      <3> HIDE DEF c, m
      <3> QED BY <1>2, <1>4, <1>5, <3>1, LeaveSays DEF Abandoned
    <2> HIDE DEF packets
    <2>2. player' \in Players /\ \A d \in Chars : Alike(player[d], player'[d])
      BY <1>4, <1>6, AlikeSelf
    <2> QED BY <1>1, <1>3, <1>4, <1>6, <2>1, <2>2, AlikeSteps
  <1>7. CASE Here(s, c) /\ player' = [player EXCEPT ![c] = y] /\ Handled(s, <<>>)
    <2>1. player[c] \in Sessions /\ player[c].invite <= lastId
      BY <1>2, <1>4, <1>7, SessionFacts DEF Here, Types, Fresh
    <2>2. id \in 0 .. LastParty
      BY <1>2, <2>1 DEF Sessions
    <2> HIDE DEF m, c, id
    <2>3. y \in Sessions /\ y.at = player[c].at /\ y.state = player[c].state
          /\ y.invite = player[c].invite /\ y.joining = player[c].joining
      BY <2>1, <2>2 DEF Sessions
    <2> HIDE DEF y
    <2>4. /\ player' \in [Chars -> Sessions \cup {Away}] /\ Steady
          /\ \A d \in Chars : player'[d].invite <= lastId
          /\ player'[c] = y /\ \A d \in Chars \ {c} : player'[d] = player[d]
      BY <1>2, <1>7, <2>1, <2>3, OneChanges
    <2>5. <<>> \in Seq(MapNews(lastId))
      OBVIOUS
    <2>6. Types'
      BY <1>1, <1>3, <1>4, <1>7, <2>4, <2>5, HandledTypes
    <2>7. \A d \in Chars : Settled(d)
      BY <2>3, <2>4 DEF Settled
    <2>8. Head(toMap[s]).kind = "created"
      BY <1>1 DEF Createds, m
    <2>9. \A d \in Chars : Waitless(d, Head(toMap[s]))
      BY <2>3, <2>4, <2>8 DEF Waitless
    <2> QED BY <1>1, <1>5, <1>7, <2>6, <2>7, <2>9 DEF Calmer
  <1> QED BY <1>3, <1>6, <1>7

(* c hears that it is a member, or that it will not be one. *)
Greeted(s, c) ==
  /\ toMap[s] # <<>> /\ Head(toMap[s]) \in AddedsOf(c)
  /\ \E packets \in Seq(LeaveMsgs) : Handled(s, packets)
  /\ player[c].at = s /\ player'[c].at = s /\ player'[c].invite = 0
  /\ \A d \in Chars \ {c} : player'[d] = player[d]

LEMMA AddedSteps ==
  ASSUME ConstantsOK, Types, NEW s \in Servers, party_member_added(s)
  PROVE  /\ Types'
         /\ \/ Calmer(s)
            \/ \E c \in Chars : Greeted(s, c)
  <1> DEFINE m == Head(toMap[s])
             c == m.who
             known == Copy(s, m.party) # None
             packets1 == IF known THEN <<>> ELSE <<Leave(m.party, c)>>
             packets2 == Abandoned(m.party, c, ~m.flag)
             id == IF known /\ ~m.flag THEN m.party ELSE player[c].party_id
             y == [player[c] EXCEPT !.joining = FALSE, !.invite = 0, !.party_id = id]
  <1>1. toMap[s] # <<>> /\ m \in Addeds
    BY ToldFacts, ToMapKinds DEF party_member_added
  <1>2. m.party \in Ids /\ m.party \in 0 .. LastParty /\ c \in Chars
    BY <1>1 DEF Addeds, Ids
  <1>3. /\ party_db' = party_db
        /\ \/ Here(s, c) /\ player' = [player EXCEPT ![c] = y] /\ Handled(s, packets1)
           \/ Handled(s, packets2) /\ UNCHANGED player
    BY Zenon DEF party_member_added
  <1>4. /\ player \in Players /\ lastId \in Int /\ party_db \in [Servers -> [Ids -> Copies \cup {None}]]
        /\ (\A d \in Chars : player[d] \in Sessions \cup {Away})
        /\ \A q \in Ids : q > lastId => \A t \in Servers : party_db[t][q] = None
    BY DEF Types, Shape, Players, Fresh
  <1>5. packets1 \in Seq(LeaveMsgs) /\ packets2 \in Seq(LeaveMsgs)
    <2>1. <<Leave(m.party, c)>> \in Seq(LeaveMsgs) /\ <<>> \in Seq(LeaveMsgs)
      BY <1>2, <1>4, LeaveSays
    <2> HIDE DEF m, c, known
    <2> QED BY <2>1 DEF Abandoned
  <1>6. CASE Handled(s, packets2) /\ UNCHANGED player
    <2> HIDE DEF packets2
    <2>2. player' \in Players /\ \A d \in Chars : Alike(player[d], player'[d])
      BY <1>4, <1>6, AlikeSelf
    <2> QED BY <1>1, <1>3, <1>4, <1>5, <1>6, <2>2, AlikeSteps
  <1>7. CASE Here(s, c) /\ player' = [player EXCEPT ![c] = y] /\ Handled(s, packets1)
    <2> HIDE DEF packets1
    <2>1. player[c] \in Sessions
      BY <1>2, <1>4, <1>7, SessionFacts DEF Here
    <2>2. id \in 0 .. LastParty /\ 0 \in 0 .. LastParty /\ 0 <= lastId
      <3>1. player[c].party_id \in 0 .. LastParty
        BY <2>1 DEF Sessions
      <3>2. lastId \in 0 .. LastParty /\ LastParty \in Nat
        BY DEF Types, Shape, ConstantsOK
      <3>3. id \in 0 .. LastParty
        <4> HIDE DEF known, c
        <4> QED BY <1>2, <3>1
      <3> QED BY <3>2, <3>3
    <2> HIDE DEF m, c, id
    <2>3. y \in Sessions /\ y.at = player[c].at /\ y.state = player[c].state /\ y.invite = 0
      BY <2>1, <2>2 DEF Sessions
    <2> HIDE DEF y
    <2>4. /\ player' \in [Chars -> Sessions \cup {Away}] /\ Steady
          /\ player'[c] = y /\ (\A d \in Chars \ {c} : player'[d] = player[d])
          /\ \A d \in Chars : player'[d].invite <= lastId
      BY <1>2, <1>7, <2>1, <2>2, <2>3, OneChanges
    <2>5. packets1 \in Seq(MapNews(lastId))
      BY <1>5, LeavesAre, SeqMonotonic
    <2>6. Types'
      BY <1>1, <1>3, <1>4, <1>7, <2>4, <2>5, HandledTypes
    <2>7. Head(toMap[s]) \in AddedsOf(c)
      BY <1>1 DEF Addeds, AddedsOf, ToMapMsg, m, c
    <2>8. Greeted(s, c)
      BY <1>1, <1>5, <1>7, <2>3, <2>4, <2>7 DEF Greeted, Here
    <2> QED BY <1>2, <2>6, <2>8
  <1> QED BY <1>3, <1>6, <1>7

(* The registries of a player are there. *)
LEMMA RegReceivedTypes ==
  ASSUME ConstantsOK, Types, NEW s \in Servers, pc_reg_received(s)
  PROVE  Types'
  <1>1. PICK c \in Chars :
        /\ c = Head(toMap[s]).who
        /\ toMap[s] # <<>> /\ toMap[s] \in Seq(ToMapMsg)
        /\ 1 \in DOMAIN toMap[s] /\ IsReg(toMap[s][1], c)
    <2>1. toMap[s] # <<>> /\ toMap[s] \in Seq(ToMapMsg) /\ Head(toMap[s]) \in RegMsgs
          /\ 1 \in DOMAIN toMap[s] /\ Head(toMap[s]) = toMap[s][1]
      BY ToldFacts, ToMapKinds DEF pc_reg_received
    <2> QED BY <2>1 DEF RegMsgs, IsReg
  <1> DEFINE y == [player[c] EXCEPT !.state = "reg"]
  <1>2. player' = [player EXCEPT ![c] = y] /\ Handled(s, <<>>) /\ UNCHANGED party_db
    BY <1>1 DEF pc_reg_received
  <1>3. /\ Waits(c, s)
        /\ \A j \in DOMAIN toMap[s] : IsReg(toMap[s][j], c) => j = 1
        /\ \A j \in DOMAIN toChar[s] : ~IsReg(toChar[s][j], c)
    BY <1>1 DEF Types, Awaited
  <1>4. player \in [Chars -> Sessions \cup {Away}]
    BY DEF Types, Shape
  <1>5. player[c] \in Sessions /\ player[c] # Away
    BY <1>3, <1>4, SessionFacts DEF Waits
  <1>6. y \in Sessions /\ y.invite = player[c].invite
    BY <1>5 DEF Sessions
  <1>7. player' \in [Chars -> Sessions \cup {Away}]
        /\ \A d \in Chars \ {c} : player'[d] = player[d]
    BY <1>2, <1>4, <1>6
  <1>8. player'[c].invite = player[c].invite
    BY <1>2, <1>4, <1>6
  <1> HIDE DEF y
  <1>9. /\ toChar' \in [Servers -> Seq(ToCharMsg)] /\ toMap' \in [Servers -> Seq(ToMapMsg)]
        /\ toMap'[s] = Tail(toMap[s])
        /\ \A t \in Servers : Moves(toMap[t], toMap'[t], {})
        /\ \A t \in Servers : Moves(toChar[t], toChar'[t], {})
        /\ UNCHANGED <<charVars, level, asked>>
    <2> DEFINE packets == <<>>
               N == {}
    <2>1. packets \in Seq(N) /\ N \subseteq ToCharMsg /\ Handled(s, packets)
      BY <1>2
    <2> HIDE DEF packets, N
    <2>2. /\ toChar' \in [Servers -> Seq(ToCharMsg)] /\ toMap' \in [Servers -> Seq(ToMapMsg)]
          /\ toMap'[s] = Tail(toMap[s])
          /\ \A t \in Servers : Moves(toMap[t], toMap'[t], {})
          /\ \A t \in Servers : Moves(toChar[t], toChar'[t], N)
          /\ UNCHANGED <<charVars, level, asked>>
      BY <1>1, <2>1, HandledLinks
    <2> QED BY <2>2 DEF N
  <1>10. Shape'
    BY <1>2, <1>7, <1>9 DEF Types, Shape, charVars
  <1>11. LetIn'
    <2> SUFFICES ASSUME NEW d \in Chars, NEW t \in Servers, NEW i \in DOMAIN toMap'[t],
                        IsAuth(toMap'[t][i], d)
                 PROVE  /\ player'[d] = Away
                        /\ \A u \in Servers : \A j \in DOMAIN toMap'[u] :
                             IsAuth(toMap'[u][j], d) => u = t /\ j = i
      BY DEF LetIn
    <2>1. \A u \in Servers : \E k \in {0, 1} : \A j \in DOMAIN toMap'[u] :
            IsAuth(toMap'[u][j], d) => j + k \in DOMAIN toMap[u] /\ IsAuth(toMap[u][j + k], d)
      BY <1>9 DEF Moves
    <2>2. d # c
      <3>1. PICK j \in DOMAIN toMap[t] : IsAuth(toMap[t][j], d)
        BY <2>1
      <3>2. player[d] = Away
        BY <3>1 DEF Types, LetIn
      <3> QED BY <1>5, <3>2
    <2> QED BY <1>7, <1>10, <2>1, <2>2, StillOut
  <1>12. Awaited'
    <2> SUFFICES ASSUME NEW d \in Chars, NEW t \in Servers
                 PROVE  /\ \A i \in DOMAIN toMap'[t] : IsReg(toMap'[t][i], d) =>
                             /\ Waits(d, t)'
                             /\ \A j \in DOMAIN toMap'[t] : IsReg(toMap'[t][j], d) => j = i
                             /\ \A j \in DOMAIN toChar'[t] : ~IsReg(toChar'[t][j], d)
                        /\ \A i \in DOMAIN toChar'[t] : IsReg(toChar'[t][i], d) =>
                             /\ Waits(d, t)'
                             /\ \A j \in DOMAIN toChar'[t] : IsReg(toChar'[t][j], d) => j = i
      BY DEF Awaited
    <2>1. \E k \in {0, 1} : \A j \in DOMAIN toMap'[t] : IsReg(toMap'[t][j], d) =>
            j + k \in DOMAIN toMap[t] /\ IsReg(toMap[t][j + k], d)
      BY <1>9 DEF Moves
    <2>2. \E h \in {0, 1} : \A j \in DOMAIN toChar'[t] : IsReg(toChar'[t][j], d) =>
            j + h \in DOMAIN toChar[t] /\ IsReg(toChar[t][j + h], d)
      BY <1>9 DEF Moves
    <2>3. CASE d # c \/ t # s
      <3>1. Waits(d, t) => Waits(d, t)'
        <4>1. CASE d # c
          BY <1>7, <4>1 DEF Waits
        <4>2. CASE d = c
          BY <1>3, <2>3, <4>2 DEF Waits
        <4> QED BY <4>1, <4>2
      <3> HIDE DEF Waits, IsReg
      <3> QED BY <1>10, <2>1, <2>2, <3>1, StillAwaited
    <2>4. CASE d = c /\ t = s
      <3>1. \A j \in DOMAIN toChar'[s] : ~IsReg(toChar'[s][j], c)
        BY <1>3, <2>2, <2>4
      <3>2. \A j \in DOMAIN toMap'[s] : ~IsReg(toMap'[s][j], c)
        <4> SUFFICES ASSUME NEW j \in DOMAIN toMap'[s], IsReg(toMap'[s][j], c)
                     PROVE  FALSE
          OBVIOUS
        <4>1. j + 1 \in DOMAIN toMap[s] /\ Tail(toMap[s])[j] = toMap[s][j + 1]
          BY <1>1, <1>9, Taken
        <4>2. j \in Nat /\ j >= 1
          BY <1>9, LenProperties
        <4>3. j + 1 = 1
          BY <1>3, <1>9, <4>1
        <4> QED BY <4>2, <4>3
      <3> QED BY <2>4, <3>1, <3>2
    <2> QED BY <2>3, <2>4
  <1>13. Fresh'
    <2>1. lastId' = lastId /\ party_db_' = party_db_ /\ lastId' >= lastId
      BY <1>9 DEF charVars, Types, Shape
    <2>2. \A t \in Servers : Moves(toChar[t], toChar'[t], MapAware(lastId'))
      BY <1>9, MoreMoves
    <2>3. \A t \in Servers : Moves(toMap[t], toMap'[t], CharAware(lastId'))
      BY <1>9, MoreMoves
    <2>4. \A d \in Chars : player'[d].invite <= lastId'
      <3>1. \A d \in Chars : player'[d].invite = player[d].invite
        BY <1>7, <1>8
      <3> QED BY <2>1, <3>1 DEF Types, Fresh
    <2>5. \A p \in Ids : p > lastId' => /\ party_db_'[p] = None
                                       /\ \A t \in Servers : party_db'[t][p] = None
      BY <1>2, <2>1 DEF Types, Fresh
    <2> QED BY <1>10, <2>1, <2>2, <2>3, <2>4, <2>5, FreshKept
  <1> QED BY <1>10, <1>11, <1>12, <1>13 DEF Types

(* A character enters the game: its registries are asked for. *)
LEMMA AuthTypes ==
  ASSUME ConstantsOK, Types, NEW s \in Servers, auth_ok(s)
  PROVE  Types'
  <1>1. PICK c \in Chars :
        /\ c = Head(toMap[s]).who /\ Head(toMap[s]).party \in 0 .. LastParty
        /\ toMap[s] # <<>> /\ toMap[s] \in Seq(ToMapMsg)
        /\ 1 \in DOMAIN toMap[s] /\ IsAuth(toMap[s][1], c)
    <2>1. toMap[s] # <<>> /\ toMap[s] \in Seq(ToMapMsg) /\ Head(toMap[s]) \in Auths
          /\ 1 \in DOMAIN toMap[s] /\ Head(toMap[s]) = toMap[s][1]
      BY ToldFacts, ToMapKinds DEF auth_ok
    <2> QED BY <2>1 DEF Auths, IsAuth
  <1> DEFINE y == [Away EXCEPT !.at = s, !.state = "auth", !.party_id = Head(toMap[s]).party]
             reg == [kind |-> "reg", who |-> c]
             packets == <<reg>>
  <1>2. player' = [player EXCEPT ![c] = y] /\ Handled(s, packets) /\ UNCHANGED party_db
    BY <1>1 DEF auth_ok
  <1>3. /\ player[c] = Away
        /\ \A t \in Servers : \A j \in DOMAIN toMap[t] : IsAuth(toMap[t][j], c) => t = s /\ j = 1
    BY <1>1 DEF Types, LetIn
  <1>4. player \in [Chars -> Sessions \cup {Away}]
    BY DEF Types, Shape
  <1>5. /\ y \in Sessions /\ y.at = s /\ y.state = "auth" /\ y.invite = 0
    <2> DEFINE q == Head(toMap[s]).party
    <2>1. q \in 0 .. LastParty /\ 0 \in 0 .. LastParty
      BY <1>1 DEF ConstantsOK
    <2>2. y = [Away EXCEPT !.at = s, !.state = "auth", !.party_id = q]
      OBVIOUS
    <2> HIDE DEF q, y
    <2>3. y = [at |-> s, state |-> "auth", party_id |-> q, invite |-> 0,
               joining |-> FALSE, creating |-> FALSE, told |-> FALSE]
      BY <2>2 DEF Away
    <2> QED BY <2>1, <2>3 DEF Sessions
  <1> HIDE DEF y
  <1>7. player' \in [Chars -> Sessions \cup {Away}] /\ player'[c] = y
        /\ \A d \in Chars \ {c} : player'[d] = player[d]
    BY <1>2, <1>4, <1>5
  <1>8. reg \in ToCharMsg /\ IsReg(reg, c) /\ \A d \in Chars \ {c} : ~IsReg(reg, d)
    BY ToCharMade DEF IsReg
  <1> HIDE DEF reg
  <1>9. /\ toChar' \in [Servers -> Seq(ToCharMsg)] /\ toMap' \in [Servers -> Seq(ToMapMsg)]
        /\ toMap'[s] = Tail(toMap[s]) /\ toChar'[s] = toChar[s] \o packets
        /\ \A t \in Servers : t # s => toMap'[t] = toMap[t] /\ toChar'[t] = toChar[t]
        /\ \A t \in Servers : Moves(toMap[t], toMap'[t], {})
        /\ \A t \in Servers : Moves(toChar[t], toChar'[t], {reg})
        /\ UNCHANGED <<charVars, level, asked>>
    <2> DEFINE N == {reg}
    <2>1. packets \in Seq(N) /\ N \subseteq ToCharMsg /\ Handled(s, packets)
      BY <1>2, <1>8
    <2> HIDE DEF packets, N
    <2>2. /\ toChar' \in [Servers -> Seq(ToCharMsg)] /\ toMap' \in [Servers -> Seq(ToMapMsg)]
          /\ toMap'[s] = Tail(toMap[s]) /\ toChar'[s] = toChar[s] \o packets
          /\ \A t \in Servers : t # s => toMap'[t] = toMap[t] /\ toChar'[t] = toChar[t]
          /\ \A t \in Servers : Moves(toMap[t], toMap'[t], {})
          /\ \A t \in Servers : Moves(toChar[t], toChar'[t], N)
          /\ UNCHANGED <<charVars, level, asked>>
      BY <1>1, <2>1, HandledLinks
    <2> QED BY <2>2 DEF N
  <1>10. Shape'
    BY <1>2, <1>7, <1>9 DEF Types, Shape, charVars
  <1>11. LetIn'
    <2> SUFFICES ASSUME NEW d \in Chars, NEW t \in Servers, NEW i \in DOMAIN toMap'[t],
                        IsAuth(toMap'[t][i], d)
                 PROVE  /\ player'[d] = Away
                        /\ \A u \in Servers : \A j \in DOMAIN toMap'[u] :
                             IsAuth(toMap'[u][j], d) => u = t /\ j = i
      BY DEF LetIn
    <2>1. \A u \in Servers : \E k \in {0, 1} : \A j \in DOMAIN toMap'[u] :
            IsAuth(toMap'[u][j], d) => j + k \in DOMAIN toMap[u] /\ IsAuth(toMap[u][j + k], d)
      <3>1. \A u \in Servers : Moves(toMap[u], toMap'[u], {})
        BY <1>9
      <3> HIDE DEF IsAuth
      <3> QED BY <3>1 DEF Moves
    <2>2. d # c
      <3> SUFFICES ASSUME d = c PROVE FALSE
        OBVIOUS
      <3>1. CASE t # s
        <4>1. i \in DOMAIN toMap[t] /\ IsAuth(toMap[t][i], c)
          BY <1>9, <3>1
        <4> QED BY <1>3, <3>1, <4>1
      <3>2. CASE t = s
        <4>1. i + 1 \in DOMAIN toMap[s] /\ Tail(toMap[s])[i] = toMap[s][i + 1]
          BY <1>1, <1>9, <3>2, Taken
        <4>2. i \in Nat /\ i >= 1
          BY <1>9, LenProperties
        <4>3. IsAuth(toMap[s][i + 1], c)
          BY <1>9, <3>2, <4>1
        <4>4. i + 1 = 1
          BY <1>3, <4>1, <4>3
        <4> QED BY <4>2, <4>4
      <3> QED BY <3>1, <3>2
    <2> QED BY <1>7, <1>10, <2>1, <2>2, StillOut
  <1>12. Awaited'
    <2> SUFFICES ASSUME NEW d \in Chars, NEW t \in Servers
                 PROVE  /\ \A i \in DOMAIN toMap'[t] : IsReg(toMap'[t][i], d) =>
                             /\ Waits(d, t)'
                             /\ \A j \in DOMAIN toMap'[t] : IsReg(toMap'[t][j], d) => j = i
                             /\ \A j \in DOMAIN toChar'[t] : ~IsReg(toChar'[t][j], d)
                        /\ \A i \in DOMAIN toChar'[t] : IsReg(toChar'[t][i], d) =>
                             /\ Waits(d, t)'
                             /\ \A j \in DOMAIN toChar'[t] : IsReg(toChar'[t][j], d) => j = i
      BY DEF Awaited
    <2>1. \E k \in {0, 1} : \A j \in DOMAIN toMap'[t] : IsReg(toMap'[t][j], d) =>
            j + k \in DOMAIN toMap[t] /\ IsReg(toMap[t][j + k], d)
      <3>1. Moves(toMap[t], toMap'[t], {})
        BY <1>9
      <3> HIDE DEF IsReg
      <3> QED BY <3>1 DEF Moves
    <2>3. CASE d # c \/ t # s
      <3>1. Waits(d, t) => Waits(d, t)'
        <4>1. CASE d # c
          BY <1>7, <4>1 DEF Waits
        <4>2. CASE d = c
          BY <1>3, <4>2 DEF Waits, Away
        <4> QED BY <4>1, <4>2
      <3>2. \E h \in {0, 1} : \A j \in DOMAIN toChar'[t] : IsReg(toChar'[t][j], d) =>
              j + h \in DOMAIN toChar[t] /\ IsReg(toChar[t][j + h], d)
        <4>1. CASE t # s
          <5>1. toChar[t] \in Seq(ToCharMsg) /\ toChar'[t] = toChar[t]
            BY <1>9, <4>1 DEF Types, Shape
          <5>2. \A j \in DOMAIN toChar[t] : j + 0 = j
            BY <5>1
          <5> QED BY <5>1, <5>2
        <4>2. CASE t = s
          <5>1. d # c /\ Moves(toChar[t], toChar'[t], {reg})
            BY <1>9, <2>3, <4>2
          <5>2. \A x \in {reg} : ~IsReg(x, d)
            BY <1>8, <5>1
          <5> HIDE DEF IsReg
          <5> QED BY <5>1, <5>2 DEF Moves
        <4> QED BY <4>1, <4>2
      <3> HIDE DEF Waits, IsReg
      <3> QED BY <1>10, <2>1, <3>1, <3>2, StillAwaited
    <2>4. CASE d = c /\ t = s
      <3>0. ~Waits(c, s)
        BY <1>3 DEF Waits, Away
      <3>1. /\ \A j \in DOMAIN toMap[s] : ~IsReg(toMap[s][j], c)
            /\ \A j \in DOMAIN toChar[s] : ~IsReg(toChar[s][j], c)
        BY <3>0 DEF Types, Awaited
      <3>2. \A j \in DOMAIN toMap'[s] : ~IsReg(toMap'[s][j], c)
        BY <2>1, <2>4, <3>1
      <3>3. Waits(c, s)'
        BY <1>5, <1>7 DEF Waits
      <3>4. \A i, j \in DOMAIN toChar'[s] : IsReg(toChar'[s][i], c) /\ IsReg(toChar'[s][j], c) => i = j
        <4> DEFINE q == toChar[s]
                   u == toChar'[s]
        <4>1. q \in Seq(ToCharMsg) /\ u = q \o packets
          BY <1>9 DEF Types, Shape
        <4>2. \A j \in DOMAIN q : ~IsReg(q[j], c)
          BY <3>1
        <4> HIDE DEF q, u
        <4>3. \A i \in DOMAIN u : (i \in DOMAIN q /\ u[i] = q[i]) \/ i = Len(q) + 1
          <5>1. Len(q) \in Nat /\ DOMAIN q = 1 .. Len(q) /\ DOMAIN u = 1 .. Len(q) + 1
                /\ \A i \in 1 .. Len(q) : u[i] = q[i]
            BY <4>1
          <5> QED BY <5>1
        <4>4. \A i \in DOMAIN u : IsReg(u[i], c) => i = Len(q) + 1
          BY <4>2, <4>3
        <4> QED BY <4>4 DEF u
      <3> HIDE DEF Waits, IsReg
      <3> QED BY <2>4, <3>2, <3>3, <3>4
    <2> QED BY <2>3, <2>4
  <1>13. Fresh'
    <2>1. lastId' = lastId /\ party_db_' = party_db_ /\ lastId' >= lastId /\ lastId >= 0
      BY <1>9 DEF charVars, Types, Shape
    <2>2. {reg} \subseteq MapAware(lastId')
      BY <1>8 DEF MapAware, About, IsReg
    <2>3. \A t \in Servers : Moves(toChar[t], toChar'[t], MapAware(lastId'))
      BY <1>9, <2>2, MoreMoves
    <2>4. \A t \in Servers : Moves(toMap[t], toMap'[t], CharAware(lastId'))
      BY <1>9, MoreMoves
    <2>5. \A d \in Chars : player'[d].invite <= lastId'
      <3> TAKE d \in Chars
      <3>1. CASE d = c
        BY <1>5, <1>7, <2>1, <3>1
      <3>2. CASE d # c
        BY <1>7, <2>1, <3>2 DEF Types, Fresh
      <3> QED BY <3>1, <3>2
    <2>6. \A p \in Ids : p > lastId' => /\ party_db_'[p] = None
                                       /\ \A t \in Servers : party_db'[t][p] = None
      BY <1>2, <2>1 DEF Types, Fresh
    <2> QED BY <1>10, <2>1, <2>3, <2>4, <2>5, <2>6, FreshKept
  <1> QED BY <1>10, <1>11, <1>12, <1>13 DEF Types

(* A map-server starts again. *)
LEMMA CrashTypes ==
  ASSUME ConstantsOK, Types, NEW s \in Servers, Crash(s)
  PROVE  Types'
  <1>1. /\ player' = [c \in Chars |-> IF player[c].at = s THEN Away ELSE player[c]]
        /\ party_db' = [party_db EXCEPT ![s] = [p \in Ids |-> None]]
        /\ toMap' = [toMap EXCEPT ![s] = <<>>]
        /\ toChar' = [toChar EXCEPT ![s] = <<>>]
        /\ party_db_' = party_db_ /\ lastId' = lastId /\ row' = row
        /\ level' = level /\ asked' = asked
    BY DEF Crash, charVars
  <1>2. Shape
    BY DEF Types
  <1>3. /\ player' \in [Chars -> Sessions \cup {Away}]
        /\ \A c \in Chars : player'[c] = Away \/ player'[c] = player[c]
        /\ \A c \in Chars : player'[c] # player[c] => player[c].at = s
    BY <1>1, <1>2 DEF Shape
  <1>4. /\ toMap' \in [Servers -> Seq(ToMapMsg)] /\ toChar' \in [Servers -> Seq(ToCharMsg)]
        /\ toMap'[s] = <<>> /\ toChar'[s] = <<>>
        /\ \A t \in Servers : t # s => toMap'[t] = toMap[t] /\ toChar'[t] = toChar[t]
    BY <1>1, <1>2 DEF Shape
  <1>5. party_db' \in [Servers -> [Ids -> Copies \cup {None}]]
        /\ \A t \in Servers, p \in Ids : party_db'[t][p] \in {None, party_db[t][p]}
    BY <1>1, <1>2 DEF Shape
  <1>6. Shape'
    BY <1>1, <1>2, <1>3, <1>4, <1>5 DEF Shape
  <1>7. \A t \in Servers : /\ \A i \in DOMAIN toMap'[t] : i \in DOMAIN toMap[t] /\ toMap'[t] = toMap[t] /\ t # s
                           /\ \A i \in DOMAIN toChar'[t] : i \in DOMAIN toChar[t] /\ toChar'[t] = toChar[t] /\ t # s
    BY <1>4
  <1>8. LetIn'
    <2> SUFFICES ASSUME NEW c \in Chars, NEW t \in Servers, NEW i \in DOMAIN toMap'[t],
                        IsAuth(toMap'[t][i], c)
                 PROVE  /\ player'[c] = Away
                        /\ \A u \in Servers : \A j \in DOMAIN toMap'[u] :
                             IsAuth(toMap'[u][j], c) => u = t /\ j = i
      BY DEF LetIn
    <2>1. i \in DOMAIN toMap[t] /\ IsAuth(toMap[t][i], c)
      BY <1>7
    <2>2. /\ player[c] = Away
          /\ \A u \in Servers : \A j \in DOMAIN toMap[u] : IsAuth(toMap[u][j], c) => u = t /\ j = i
      BY <2>1 DEF Types, LetIn
    <2> HIDE DEF IsAuth
    <2> QED BY <1>3, <1>7, <2>2
  <1>9. Awaited'
    <2> SUFFICES ASSUME NEW c \in Chars, NEW t \in Servers
                 PROVE  /\ \A i \in DOMAIN toMap'[t] : IsReg(toMap'[t][i], c) =>
                             /\ Waits(c, t)'
                             /\ \A j \in DOMAIN toMap'[t] : IsReg(toMap'[t][j], c) => j = i
                             /\ \A j \in DOMAIN toChar'[t] : ~IsReg(toChar'[t][j], c)
                        /\ \A i \in DOMAIN toChar'[t] : IsReg(toChar'[t][i], c) =>
                             /\ Waits(c, t)'
                             /\ \A j \in DOMAIN toChar'[t] : IsReg(toChar'[t][j], c) => j = i
      BY DEF Awaited
    <2>1. CASE t = s
      BY <1>7, <2>1
    <2>2. CASE t # s
      <3>1. toMap'[t] = toMap[t] /\ toChar'[t] = toChar[t]
        BY <1>4, <2>2
      <3>2. Waits(c, t) => Waits(c, t)'
        BY <1>3, <2>2 DEF Waits
      <3>3. /\ \A i \in DOMAIN toMap[t] : IsReg(toMap[t][i], c) =>
                 /\ Waits(c, t)
                 /\ \A j \in DOMAIN toMap[t] : IsReg(toMap[t][j], c) => j = i
                 /\ \A j \in DOMAIN toChar[t] : ~IsReg(toChar[t][j], c)
            /\ \A i \in DOMAIN toChar[t] : IsReg(toChar[t][i], c) =>
                 /\ Waits(c, t)
                 /\ \A j \in DOMAIN toChar[t] : IsReg(toChar[t][j], c) => j = i
        BY DEF Types, Awaited
      <3> HIDE DEF Waits, IsReg
      <3> QED BY <3>1, <3>2, <3>3
    <2> QED BY <2>1, <2>2
  <1>10. Fresh'
    <2>1. \A p \in Ids : p > lastId => /\ party_db_'[p] = None
                                       /\ \A t \in Servers : party_db'[t][p] = None
      BY <1>1, <1>5 DEF Types, Fresh
    <2>2. \A c \in Chars : player'[c].invite <= lastId
      <3>1. Away.invite <= lastId
        BY <1>2 DEF Away, Shape
      <3> QED BY <1>3, <3>1 DEF Types, Fresh
    <2>3. /\ \A t \in Servers : \A i \in DOMAIN toMap'[t] : About(toMap'[t][i], Founding, lastId)
          /\ \A t \in Servers : \A i \in DOMAIN toChar'[t] : About(toChar'[t][i], {"join"}, lastId)
      <3> HIDE DEF About
      <3> QED BY <1>7 DEF Types, Fresh
    <2> QED BY <1>1, <2>1, <2>2, <2>3 DEF Fresh
  <1> QED BY <1>6, <1>8, <1>9, <1>10 DEF Types

-----------------------------------------------------------------------------
(* Every step keeps the types: the players'. *)
LEMMA InGame ==
  ASSUME ConstantsOK, Types, NEW c \in Chars, player[c].state \in {"reg", "map"}
  PROVE  /\ player[c] \in Sessions /\ player[c] # Away /\ player[c].at \in Servers
         /\ \A s \in Servers : ~Waits(c, s)
         /\ player[c].party_id \in 0 .. LastParty
         /\ player[c].party_id # 0 => player[c].party_id \in Ids
         /\ player[c].invite \in 0 .. LastParty /\ player[c].invite <= lastId
         /\ player[c].invite # 0 => player[c].invite \in Ids
         /\ level[c] \in 1 .. TopLevel
  <1>1. player[c] \in Sessions \cup {Away} /\ level[c] \in 1 .. TopLevel
    BY DEF Types, Shape
  <1>2. player[c] # Away
    BY DEF Away
  <1>3. player[c] \in Sessions
    BY <1>1, <1>2
  <1>4. /\ player[c].at \in Servers /\ player[c].party_id \in 0 .. LastParty
        /\ player[c].invite \in 0 .. LastParty
    BY <1>3 DEF Sessions
  <1>5. /\ player[c].party_id # 0 => player[c].party_id \in Ids
        /\ player[c].invite # 0 => player[c].invite \in Ids
    BY <1>4 DEF Ids
  <1>6. player[c].invite <= lastId
    BY DEF Types, Fresh
  <1>7. \A s \in Servers : ~Waits(c, s)
    BY DEF Waits
  <1> QED BY <1>1, <1>2, <1>3, <1>4, <1>5, <1>6, <1>7

LEMMA MineFacts ==
  ASSUME ConstantsOK, Types, NEW c \in Chars, player[c].state \in {"reg", "map"}, Mine(c) # None
  PROVE  /\ player[c].party_id \in Ids
         /\ Mine(c) = party_db[player[c].at][player[c].party_id]
         /\ Mine(c) = Copy(player[c].at, player[c].party_id)
         /\ Mine(c) \in Copies /\ DOMAIN Mine(c).member \subseteq Chars
         /\ player[c].party_id <= lastId
  <1>1. player[c].party_id \in Ids /\ player[c].at \in Servers
    BY InGame DEF Mine
  <1>2. Mine(c) = Copy(player[c].at, player[c].party_id) /\ player[c].party_id # 0
    BY <1>1 DEF Mine, Ids
  <1>3. Mine(c) \in Copies /\ Mine(c).member \in Rosters /\ player[c].party_id <= lastId
        /\ Mine(c) = party_db[player[c].at][player[c].party_id]
    BY <1>1, <1>2, CopyFacts
  <1>4. DOMAIN Mine(c).member \subseteq Chars
    BY <1>3, RosterFacts
  <1> QED BY <1>1, <1>2, <1>3, <1>4

LEMMA OneActs ==
  ASSUME ConstantsOK, Types, NEW c \in Chars, player[c].state \in {"reg", "map"},
         NEW y \in Sessions \cup {Away}, y.invite <= lastId, player' = [player EXCEPT ![c] = y]
  PROVE  /\ player' \in [Chars -> Sessions \cup {Away}] /\ player'[c] = y
         /\ \A d \in Chars \ {c} : player'[d] = player[d]
         /\ \A d \in Chars : player'[d].invite <= lastId
         /\ Steady
  <1>1. player \in [Chars -> Sessions \cup {Away}]
    BY DEF Types, Shape
  <1>2. /\ player' \in [Chars -> Sessions \cup {Away}] /\ player'[c] = y
        /\ \A d \in Chars \ {c} : player'[d] = player[d]
    BY <1>1
  <1>3. \A d \in Chars : player'[d].invite <= lastId
    BY <1>2 DEF Types, Fresh
  <1>4. player[c] # Away /\ \A s \in Servers : ~Waits(c, s)
    BY InGame
  <1>5. \A d \in Chars, s \in Servers : Waits(d, s) => Waits(d, s)'
    <2> SUFFICES ASSUME NEW d \in Chars, NEW s \in Servers, Waits(d, s) PROVE Waits(d, s)'
      OBVIOUS
    <2>1. d # c
      BY <1>4
    <2> QED BY <1>2, <2>1 DEF Waits
  <1>6. \A d \in Chars : player[d] = Away => player'[d] = Away
    BY <1>2, <1>4
  <1> QED BY <1>2, <1>3, <1>5, <1>6 DEF Steady

(* Nobody changes. *)
LEMMA Unmoved ==
  ASSUME Types, player' = player
  PROVE  /\ player' \in [Chars -> Sessions \cup {Away}] /\ Steady
         /\ \A c \in Chars : player'[c].invite <= lastId
  BY DEF Types, Shape, Fresh, Steady, Waits

LEMMA CopiesStay ==
  ASSUME Types, party_db' = party_db
  PROVE  /\ party_db' \in [Servers -> [Ids -> Copies \cup {None}]]
         /\ \A p \in Ids : p > lastId => \A t \in Servers : party_db'[t][p] = None
  BY DEF Types, Shape, Fresh

LEMMA Silent ==
  ASSUME Types, NEW s \in Servers, UNCHANGED <<charVars, toMap, toChar>>
  PROVE  Request(s, <<>>)
  <1>1. toChar \in [Servers -> Seq(ToCharMsg)]
    BY DEF Types, Shape
  <1>2. toChar[s] \o <<>> = toChar[s]
    <2> DEFINE q == toChar[s]
    <2>1. q \in Seq(ToCharMsg)
      BY <1>1
    <2> HIDE DEF q
    <2>2. q \o <<>> = q
      BY <2>1
    <2> QED BY <2>2 DEF q
  <1>3. toChar = [toChar EXCEPT ![s] = toChar[s] \o <<>>]
    BY <1>1, <1>2
  <1> QED BY <1>3 DEF Request

LEMMA MapSays2 ==
  ASSUME ConstantsOK, Types, NEW c \in Chars, player[c].state \in {"reg", "map"}
  PROVE  /\ <<>> \in Seq(MapNews(lastId))
         /\ \A f \in BOOLEAN : Save(c, f) \in MapNews(lastId) /\ <<Save(c, f)>> \in Seq(MapNews(lastId))
         /\ player[c].party_id # 0 => \A o \in BOOLEAN :
              /\ ChangeMap(c, o) \in MapNews(lastId)
              /\ <<ChangeMap(c, o)>> \in Seq(MapNews(lastId))
         /\ player[c].party_id # 0 => \A o \in BOOLEAN, l \in 1 .. TopLevel :
              /\ [ChangeMap(c, o) EXCEPT !.lv = l] \in MapNews(lastId)
              /\ <<[ChangeMap(c, o) EXCEPT !.lv = l]>> \in Seq(MapNews(lastId))
  <1> DEFINE p == player[c].party_id
             N == MapNews(lastId)
  <1>1. p \in 0 .. LastParty /\ (p # 0 => p \in Ids) /\ level[c] \in 1 .. TopLevel
    BY InGame
  <1>2. \A f \in BOOLEAN : Save(c, f) \in N
    BY <1>1, ToCharMade DEF MapNews, MapAware, About, Save
  <1>3. ASSUME p # 0, NEW o \in BOOLEAN, NEW l \in 1 .. TopLevel
        PROVE  [kind |-> "move", party |-> p, who |-> c, online |-> o, lv |-> l] \in N
    <2>1. [kind |-> "move", party |-> p, who |-> c, online |-> o, lv |-> l] \in ToCharMsg
      BY <1>1, <1>3, ToCharMade
    <2> QED BY <2>1 DEF MapNews, MapAware, About
  <1>4. ASSUME p # 0, NEW o \in BOOLEAN, NEW l \in 1 .. TopLevel
        PROVE  ChangeMap(c, o) \in N /\ [ChangeMap(c, o) EXCEPT !.lv = l] \in N
    <2>1. ChangeMap(c, o) = [kind |-> "move", party |-> p, who |-> c, online |-> o, lv |-> level[c]]
      BY DEF ChangeMap
    <2>2. [ChangeMap(c, o) EXCEPT !.lv = l]
            = [kind |-> "move", party |-> p, who |-> c, online |-> o, lv |-> l]
      BY DEF ChangeMap
    <2> QED BY <1>1, <1>3, <1>4, <2>1, <2>2
  <1> HIDE DEF N
  <1>5. \A x \in N : <<x>> \in Seq(N)
    BY One
  <1>6. <<>> \in Seq(N)
    OBVIOUS
  <1>7. ASSUME p # 0, NEW o \in BOOLEAN
        PROVE  ChangeMap(c, o) \in N /\ <<ChangeMap(c, o)>> \in Seq(N)
    BY <1>1, <1>4, <1>5, <1>7
  <1> QED BY <1>2, <1>4, <1>5, <1>6, <1>7 DEF N

(* A step of a player that changes no copy, or only points one to it. *)
LEMMA ActTypes ==
  ASSUME ConstantsOK, Types, NEW c \in Chars, player[c].state \in {"reg", "map"},
         NEW packets \in Seq(MapNews(lastId)), Request(player[c].at, packets),
         player' = player \/ \E y \in Sessions \cup {Away} : /\ y.invite <= lastId
                                                            /\ player' = [player EXCEPT ![c] = y],
         \/ party_db' = party_db
         \/ \E p \in Ids, C \in Copies : p <= lastId /\ party_db' = [party_db EXCEPT ![player[c].at][p] = C],
         level' \in [Chars -> 1 .. TopLevel],
         asked' = asked \/ (asked < Bound /\ asked' = asked + 1)
  PROVE  Types'
  <1>1. player[c].at \in Servers
    BY InGame
  <1>2. /\ player' \in [Chars -> Sessions \cup {Away}] /\ Steady
        /\ \A d \in Chars : player'[d].invite <= lastId
    <2>1. CASE player' = player
      BY <2>1, Unmoved
    <2>2. CASE \E y \in Sessions \cup {Away} : /\ y.invite <= lastId
                                               /\ player' = [player EXCEPT ![c] = y]
      <3>1. PICK y \in Sessions \cup {Away} : /\ y.invite <= lastId
                                              /\ player' = [player EXCEPT ![c] = y]
        BY <2>2
      <3> QED BY <3>1, OneActs
    <2> QED BY <2>1, <2>2
  <1>3. /\ party_db' \in [Servers -> [Ids -> Copies \cup {None}]]
        /\ \A p \in Ids : p > lastId => \A t \in Servers : party_db'[t][p] = None
    <2>1. CASE party_db' = party_db
      BY <2>1, CopiesStay
    <2>2. CASE \E p \in Ids, C \in Copies :
                 p <= lastId /\ party_db' = [party_db EXCEPT ![player[c].at][p] = C]
      <3> DEFINE s == player[c].at
      <3>1. PICK p \in Ids, C \in Copies : p <= lastId /\ party_db' = [party_db EXCEPT ![s][p] = C]
        BY <2>2
      <3>2. C \in Copies \cup {None} /\ (C # None => p <= lastId) /\ s \in Servers
        BY <1>1, <3>1
      <3> HIDE DEF s
      <3> QED BY <3>1, <3>2, PutCopy
    <2> QED BY <2>1, <2>2
  <1>4. asked' \in 0 .. Bound
    BY DEF Types, Shape, ConstantsOK
  <1> QED BY <1>1, <1>2, <1>3, <1>4, RequestTypes

LEMMA LevelsStay ==
  ASSUME Types, level' = level
  PROVE  level' \in [Chars -> 1 .. TopLevel]
  BY DEF Types, Shape

LEMMA LoadedTypes ==
  ASSUME ConstantsOK, Types, NEW c \in Chars, clif_parse_LoadEndAck(c)
  PROVE  Types'
  <1> DEFINE packets == IF player[c].party_id = 0 THEN <<>> ELSE <<ChangeMap(c, TRUE)>>
             y == [player[c] EXCEPT !.state = "map"]
  <1>1. /\ player[c].state \in {"reg", "map"} /\ player' = [player EXCEPT ![c] = y]
        /\ Request(player[c].at, packets) /\ party_db' = party_db /\ asked' = asked
        /\ level' = level
    BY DEF clif_parse_LoadEndAck
  <1>2. player[c] \in Sessions /\ player[c].invite <= lastId
        /\ level' \in [Chars -> 1 .. TopLevel]
    BY <1>1, InGame, LevelsStay
  <1>3. y \in Sessions /\ y.invite = player[c].invite
    BY <1>2 DEF Sessions
  <1>4. packets \in Seq(MapNews(lastId))
    BY <1>1, <1>2, MapSays2
  <1>5. \E z \in Sessions \cup {Away} : z.invite <= lastId /\ player' = [player EXCEPT ![c] = z]
    BY <1>1, <1>2, <1>3
  <1>6. asked' = asked \/ (asked < Bound /\ asked' = asked + 1)
    BY <1>1
  <1> HIDE DEF packets, y
  <1> QED BY <1>1, <1>2, <1>4, <1>5, <1>6, ActTypes

LEMMA JoinedTypes ==
  ASSUME ConstantsOK, Types, NEW c \in Chars, party_member_joined(c)
  PROVE  Types'
  <1> DEFINE s == player[c].at
             p == player[c].party_id
             old == Mine(c)
             packets == IF p # 0 /\ old = None
                        THEN <<[kind |-> "info", party |-> p, who |-> c]>> ELSE <<>>
             id == IF old # None /\ c \notin DOMAIN old.member THEN 0 ELSE p
             y == [player[c] EXCEPT !.told = TRUE, !.party_id = id]
             C == [old EXCEPT !.data = old.data \cup {c}]
  <1>1. /\ player[c].state \in {"reg", "map"} /\ player' = [player EXCEPT ![c] = y]
        /\ Request(s, packets) /\ asked' = asked /\ level' = level
        /\ \/ old # None /\ party_db' = [party_db EXCEPT ![s][p].data = party_db[s][p].data \cup {c}]
           \/ party_db' = party_db
    BY Zenon DEF party_member_joined
  <1>2. /\ player[c] \in Sessions /\ player[c].invite <= lastId
        /\ p \in 0 .. LastParty /\ (p # 0 => p \in Ids) /\ 0 \in 0 .. LastParty
        /\ level' \in [Chars -> 1 .. TopLevel] /\ lastId \in Int
    <2>1. level' \in [Chars -> 1 .. TopLevel]
      BY <1>1, LevelsStay
    <2>2. player[c] \in Sessions /\ player[c].invite <= lastId
      BY <1>1, InGame
    <2>3. lastId \in Int /\ LastParty \in Nat
      BY DEF Types, Shape, ConstantsOK
    <2>4. p \in 0 .. LastParty
      BY <2>2 DEF Sessions
    <2>5. (p # 0 => p \in Ids) /\ 0 \in 0 .. LastParty
      <3> HIDE DEF p
      <3> QED BY <2>3, <2>4 DEF Ids
    <2> QED BY <2>1, <2>2, <2>3, <2>4, <2>5
  <1>3. packets \in Seq(MapNews(lastId))
    <2>1. p # 0 => [kind |-> "info", party |-> p, who |-> c] \in MapNews(lastId)
      <3> HIDE DEF p
      <3>1. p # 0 => [kind |-> "info", party |-> p, who |-> c] \in ToCharMsg
        BY <1>2, ToCharMade
      <3> QED BY <3>1 DEF MapNews, MapAware, About
    <2>2. <<>> \in Seq(MapNews(lastId))
      OBVIOUS
    <2>3. p # 0 => <<[kind |-> "info", party |-> p, who |-> c]>> \in Seq(MapNews(lastId))
      <3> HIDE DEF p
      <3> QED BY <2>1, One
    <2> HIDE DEF p, old
    <2> QED BY <2>2, <2>3
  <1>4. y \in Sessions /\ y.invite = player[c].invite
    <2>1. id \in 0 .. LastParty
      <3> HIDE DEF old, p
      <3> QED BY <1>2
    <2> HIDE DEF id
    <2> QED BY <1>2, <2>1 DEF Sessions
  <1>5. \E z \in Sessions \cup {Away} : z.invite <= lastId /\ player' = [player EXCEPT ![c] = z]
    <2> HIDE DEF y
    <2> QED BY <1>1, <1>2, <1>4
  <1>6. \/ party_db' = party_db
        \/ \E q \in Ids, D \in Copies : q <= lastId /\ party_db' = [party_db EXCEPT ![s][q] = D]
    <2>1. CASE old # None /\ party_db' = [party_db EXCEPT ![s][p].data = party_db[s][p].data \cup {c}]
      <3>1. p \in Ids /\ old = party_db[s][p] /\ old \in Copies /\ p <= lastId
        BY <1>1, <2>1, MineFacts
      <3>2. C \in Copies
        <4> HIDE DEF old
        <4> QED BY <3>1 DEF Copies
      <3>3. party_db' = [party_db EXCEPT ![s][p] = C]
        BY <2>1, <3>1
      <3> HIDE DEF C, s, p
      <3> QED BY <3>1, <3>2, <3>3
    <2> QED BY <1>1, <2>1
  <1>7. asked' = asked \/ (asked < Bound /\ asked' = asked + 1)
    BY <1>1
  <1> HIDE DEF packets, y, old
  <1> QED BY <1>1, <1>2, <1>3, <1>5, <1>6, <1>7, ActTypes

LEMMA QuitTypes ==
  ASSUME ConstantsOK, Types, NEW c \in Chars, map_quit(c)
  PROVE  Types'
  <1> DEFINE s == player[c].at
             p == player[c].party_id
             old == Mine(c)
             more == IF p = 0 THEN <<>> ELSE <<ChangeMap(c, FALSE)>>
             packets == <<Save(c, TRUE)>> \o more
             C == [old EXCEPT !.data = old.data \ {c}]
  <1>1. /\ player[c].state \in {"reg", "map"} /\ player' = [player EXCEPT ![c] = Away]
        /\ Request(s, packets) /\ asked < Bound /\ asked' = asked + 1 /\ level' = level
        /\ \/ old # None /\ party_db' = [party_db EXCEPT ![s][p].data = party_db[s][p].data \ {c}]
           \/ party_db' = party_db
    BY DEF map_quit, Unlinked
  <1>2. level' \in [Chars -> 1 .. TopLevel] /\ Away.invite <= lastId
    BY <1>1, LevelsStay DEF Types, Shape, Away
  <1>3. packets \in Seq(MapNews(lastId))
    <2>1. <<Save(c, TRUE)>> \in Seq(MapNews(lastId))
      <3>1. \A f \in BOOLEAN : <<Save(c, f)>> \in Seq(MapNews(lastId))
        BY <1>1, MapSays2
      <3> QED BY <3>1, Zenon
    <2>2. more \in Seq(MapNews(lastId))
      <3>1. <<>> \in Seq(MapNews(lastId))
        OBVIOUS
      <3>2. p # 0 => \A o \in BOOLEAN : <<ChangeMap(c, o)>> \in Seq(MapNews(lastId))
        BY <1>1, MapSays2
      <3>3. p # 0 => <<ChangeMap(c, FALSE)>> \in Seq(MapNews(lastId))
        BY <3>2, Zenon
      <3> QED BY <3>1, <3>3
    <2> HIDE DEF more
    <2> QED BY <2>1, <2>2, ConcatProperties, Zenon
  <1>5. \E z \in Sessions \cup {Away} : z.invite <= lastId /\ player' = [player EXCEPT ![c] = z]
    BY <1>1, <1>2
  <1>6. \/ party_db' = party_db
        \/ \E q \in Ids, D \in Copies : q <= lastId /\ party_db' = [party_db EXCEPT ![s][q] = D]
    <2>1. CASE old # None /\ party_db' = [party_db EXCEPT ![s][p].data = party_db[s][p].data \ {c}]
      <3>1. p \in Ids /\ old = party_db[s][p] /\ old \in Copies /\ p <= lastId
        BY <1>1, <2>1, MineFacts
      <3>2. C \in Copies
        <4> HIDE DEF old
        <4> QED BY <3>1 DEF Copies
      <3>3. party_db' = [party_db EXCEPT ![s][p] = C]
        BY <2>1, <3>1
      <3> HIDE DEF C, s, p
      <3> QED BY <3>1, <3>2, <3>3
    <2> QED BY <1>1, <2>1
  <1> HIDE DEF packets, old
  <1> QED BY <1>1, <1>2, <1>3, <1>5, <1>6, ActTypes

LEMMA CreateAskedTypes ==
  ASSUME ConstantsOK, Types, NEW c \in Chars, party_create(c)
  PROVE  Types'
  <1> DEFINE y == [player[c] EXCEPT !.creating = TRUE]
             packets == <<[kind |-> "create", who |-> c, as |-> Filled(c, TRUE)]>>
  <1>1. /\ player[c].state \in {"reg", "map"} /\ player' = [player EXCEPT ![c] = y]
        /\ Request(player[c].at, packets) /\ party_db' = party_db
        /\ asked < Bound /\ asked' = asked + 1 /\ level' = level
    BY DEF party_create, Asks
  <1>2. /\ player[c] \in Sessions /\ player[c].invite <= lastId
        /\ level' \in [Chars -> 1 .. TopLevel] /\ level[c] \in 1 .. TopLevel
    BY <1>1, InGame, LevelsStay
  <1>3. y \in Sessions /\ y.invite = player[c].invite
    BY <1>2 DEF Sessions
  <1>4. packets \in Seq(MapNews(lastId))
    <2>1. Filled(c, TRUE) \in Member
      BY <1>2 DEF Filled, Member
    <2> DEFINE m == [kind |-> "create", who |-> c, as |-> Filled(c, TRUE)]
    <2>2. m \in ToCharMsg
      BY <2>1, ToCharMade
    <2>3. m.kind = "create"
      OBVIOUS
    <2> HIDE DEF m
    <2>4. m \in MapNews(lastId)
      BY <2>2, <2>3 DEF MapNews, MapAware, About
    <2>5. <<m>> \in Seq(MapNews(lastId))
      BY <2>4, One
    <2> QED BY <2>5 DEF m
  <1>5. \E z \in Sessions \cup {Away} : z.invite <= lastId /\ player' = [player EXCEPT ![c] = z]
    BY <1>1, <1>2, <1>3
  <1> HIDE DEF packets, y
  <1> QED BY <1>1, <1>2, <1>4, <1>5, ActTypes

LEMMA ReplyTypes ==
  ASSUME ConstantsOK, Types, NEW c \in Chars, NEW accepts \in BOOLEAN, party_reply_invite(c, accepts)
  PROVE  Types'
  <1> DEFINE p == player[c].invite
             m == [kind |-> "join", party |-> p, who |-> c, as |-> Filled(c, FALSE)]
             y == [player[c] EXCEPT !.joining = TRUE]
             z == [player[c] EXCEPT !.invite = 0]
  <1>1. /\ player[c].state \in {"reg", "map"} /\ p # 0
        /\ \/ player' = [player EXCEPT ![c] = y] /\ Request(player[c].at, <<m>>)
           \/ player' = [player EXCEPT ![c] = z] /\ Request(player[c].at, <<>>)
        /\ party_db' = party_db /\ asked' = asked /\ level' = level
    BY DEF party_reply_invite
  <1>2. /\ player[c] \in Sessions /\ player[c].invite <= lastId /\ 0 <= lastId
        /\ level' \in [Chars -> 1 .. TopLevel] /\ level[c] \in 1 .. TopLevel
        /\ p \in Ids /\ 0 \in 0 .. LastParty
    <2>1. player[c] \in Sessions /\ player[c].invite <= lastId /\ level[c] \in 1 .. TopLevel
      BY <1>1, InGame
    <2>2. level' \in [Chars -> 1 .. TopLevel]
      BY <1>1, LevelsStay
    <2>3. 0 <= lastId
      BY DEF Types, Shape
    <2>4. p \in 0 .. LastParty
      BY <2>1 DEF Sessions
    <2>5. LastParty \in Nat
      BY DEF ConstantsOK
    <2> HIDE DEF p
    <2>6. p \in Ids /\ 0 \in 0 .. LastParty
      BY <1>1, <2>4, <2>5 DEF Ids
    <2> QED BY <2>1, <2>2, <2>3, <2>6
  <1>3. /\ y \in Sessions /\ y.invite = p
        /\ z \in Sessions /\ z.invite = 0
    BY <1>2 DEF Sessions
  <1>4. <<m>> \in Seq(MapNews(lastId)) /\ <<>> \in Seq(MapNews(lastId))
    <2>1. Filled(c, FALSE) \in Member
      BY <1>2 DEF Filled, Member
    <2>2. m \in ToCharMsg
      <3> HIDE DEF p
      <3> QED BY <1>2, <2>1, ToCharMade
    <2>3. m.kind = "join" /\ m.party <= lastId
      BY <1>2
    <2> HIDE DEF m
    <2>4. m \in MapNews(lastId)
      BY <2>2, <2>3 DEF MapNews, MapAware, About
    <2> QED BY <2>4, One
  <1>6. party_db' = party_db /\ (asked' = asked \/ (asked < Bound /\ asked' = asked + 1))
    BY <1>1
  <1>7. CASE player' = [player EXCEPT ![c] = y] /\ Request(player[c].at, <<m>>)
    <2> DEFINE packets == <<m>>
    <2>1. packets \in Seq(MapNews(lastId)) /\ Request(player[c].at, packets)
      BY <1>4, <1>7
    <2>2. \E x \in Sessions \cup {Away} : x.invite <= lastId /\ player' = [player EXCEPT ![c] = x]
      BY <1>2, <1>3, <1>7
    <2> HIDE DEF packets, y
    <2> QED BY <1>1, <1>2, <1>6, <2>1, <2>2, ActTypes
  <1>8. CASE player' = [player EXCEPT ![c] = z] /\ Request(player[c].at, <<>>)
    <2>2. \E x \in Sessions \cup {Away} : x.invite <= lastId /\ player' = [player EXCEPT ![c] = x]
      BY <1>2, <1>3, <1>8
    <2> HIDE DEF z, m
    <2> QED BY <1>1, <1>2, <1>4, <1>6, <1>8, <2>2, ActTypes
  <1> QED BY <1>1, <1>7, <1>8

(* Requests that change nothing on the map-server. *)
LEMMA AskTypes ==
  ASSUME ConstantsOK, Types, NEW c \in Chars,
         \/ party_leave(c) \/ pc_autosave(c)
         \/ \E exp \in BOOLEAN : party_changeoption(c, exp)
         \/ \E t \in Chars : party_removemember(c, t)
  PROVE  Types'
  <1>1. \E m \in MapNews(lastId) :
          /\ player[c].state \in {"reg", "map"} /\ Request(player[c].at, <<m>>)
          /\ UNCHANGED mapVars /\ asked < Bound /\ asked' = asked + 1
    <2>1. CASE party_leave(c)
      <3>1. /\ player[c].state \in {"reg", "map"} /\ Mine(c) # None
            /\ Request(player[c].at, <<Leave(player[c].party_id, c)>>)
            /\ UNCHANGED mapVars /\ asked < Bound /\ asked' = asked + 1
        BY <2>1 DEF party_leave, Asks
      <3>2. player[c].party_id \in Ids /\ lastId \in Int
        BY <3>1, MineFacts DEF Types, Shape
      <3>3. Leave(player[c].party_id, c) \in MapNews(lastId)
        BY <3>2, MapSays
      <3> QED BY <3>1, <3>3
    <2>2. CASE pc_autosave(c)
      <3>1. /\ player[c].state \in {"reg", "map"}
            /\ Request(player[c].at, <<Save(c, FALSE)>>)
            /\ UNCHANGED mapVars /\ asked < Bound /\ asked' = asked + 1
        BY <2>2 DEF pc_autosave, Asks
      <3>2. \A f \in BOOLEAN : Save(c, f) \in MapNews(lastId)
        BY <3>1, MapSays2
      <3>3. Save(c, FALSE) \in MapNews(lastId)
        BY <3>2, Zenon
      <3> QED BY <3>1, <3>3
    <2>3. CASE \E exp \in BOOLEAN : party_changeoption(c, exp)
      <3> DEFINE m(e) == [kind |-> "option", party |-> player[c].party_id, exp |-> e]
      <3>1. PICK e \in BOOLEAN : party_changeoption(c, e)
        BY <2>3
      <3>2. /\ player[c].state \in {"reg", "map"} /\ Mine(c) # None
            /\ Request(player[c].at, <<m(e)>>)
            /\ UNCHANGED mapVars /\ asked < Bound /\ asked' = asked + 1
        BY <3>1 DEF party_changeoption, Asks, Leads
      <3>3. player[c].party_id \in Ids
        BY <3>2, MineFacts
      <3>4. m(e) \in ToCharMsg
        <4> DEFINE p == player[c].party_id
        <4> HIDE DEF p
        <4>1. p \in Ids
          BY <3>3 DEF p
        <4>2. [kind |-> "option", party |-> p, exp |-> e] \in ToCharMsg
          BY <3>1, <4>1, ToCharMade, Zenon
        <4> QED BY <4>2 DEF p
      <3>5. m(e) \in MapNews(lastId)
        BY <3>4 DEF MapNews, MapAware, About
      <3> QED BY <3>2, <3>5
    <2>4. CASE \E t \in Chars : party_removemember(c, t)
      <3>1. PICK t \in Chars : party_removemember(c, t)
        BY <2>4
      <3>2. /\ player[c].state \in {"reg", "map"} /\ Mine(c) # None
            /\ Request(player[c].at, <<Leave(player[c].party_id, t)>>)
            /\ UNCHANGED mapVars /\ asked < Bound /\ asked' = asked + 1
        BY <3>1 DEF party_removemember, Asks, Leads
      <3>3. player[c].party_id \in Ids /\ lastId \in Int
        BY <3>2, MineFacts DEF Types, Shape
      <3>4. Leave(player[c].party_id, t) \in MapNews(lastId)
        BY <3>3, MapSays
      <3> QED BY <3>2, <3>4
    <2> QED BY <2>1, <2>2, <2>3, <2>4
  <1>2. PICK m \in MapNews(lastId) :
          /\ player[c].state \in {"reg", "map"} /\ Request(player[c].at, <<m>>)
          /\ UNCHANGED mapVars /\ asked < Bound /\ asked' = asked + 1
    BY <1>1
  <1> DEFINE packets == <<m>>
  <1>3. packets \in Seq(MapNews(lastId)) /\ Request(player[c].at, packets)
    BY <1>2, One
  <1>4. player' = player /\ party_db' = party_db /\ level' \in [Chars -> 1 .. TopLevel]
    BY <1>2, LevelsStay DEF mapVars
  <1> HIDE DEF packets
  <1> QED BY <1>2, <1>3, <1>4, ActTypes

LEMMA LevelupTypes ==
  ASSUME ConstantsOK, Types, NEW c \in Chars, NEW n \in Leap, party_send_levelup(c, n)
  PROVE  Types'
  <1> DEFINE lv == level[c] + n
             p == player[c].party_id
             packets == IF p = 0 THEN <<>> ELSE <<[ChangeMap(c, TRUE) EXCEPT !.lv = lv]>>
  <1>1. /\ player[c].state \in {"reg", "map"} /\ player' = player
        /\ Request(player[c].at, packets) /\ party_db' = party_db
        /\ asked < Bound /\ asked' = asked + 1 /\ lv \in 1 .. TopLevel
        /\ level' = [level EXCEPT ![c] = lv]
    BY DEF party_send_levelup, Asks
  <1>2. lv \in 1 .. TopLevel /\ level' \in [Chars -> 1 .. TopLevel]
    BY <1>1 DEF Types, Shape, ConstantsOK
  <1> HIDE DEF lv
  <1>3. packets \in Seq(MapNews(lastId))
    <2>1. p # 0 => \A o \in BOOLEAN, l \in 1 .. TopLevel :
            <<[ChangeMap(c, o) EXCEPT !.lv = l]>> \in Seq(MapNews(lastId))
      BY <1>1, MapSays2
    <2>2. p # 0 => <<[ChangeMap(c, TRUE) EXCEPT !.lv = lv]>> \in Seq(MapNews(lastId))
      BY <1>2, <2>1, Zenon
    <2>3. <<>> \in Seq(MapNews(lastId))
      OBVIOUS
    <2> QED BY <2>2, <2>3
  <1> HIDE DEF packets
  <1> QED BY <1>1, <1>2, <1>3, ActTypes

LEMMA InviteTypes ==
  ASSUME ConstantsOK, Types, NEW c \in Chars, NEW t \in Chars, party_invite(c, t)
  PROVE  Types'
  <1> DEFINE p == player[c].party_id
             s == player[c].at
             y == [player[t] EXCEPT !.invite = p]
  <1>1. /\ player[c].state \in {"reg", "map"} /\ Mine(c) # None /\ Here(s, t)
        /\ player' = [player EXCEPT ![t] = y]
        /\ asked < Bound /\ asked' = asked + 1
        /\ UNCHANGED <<charVars, party_db, level, toChar, toMap>>
    BY DEF party_invite, Asks
  <1>2. s \in Servers /\ p \in Ids /\ p <= lastId /\ p \in 0 .. LastParty
    BY <1>1, InGame, MineFacts DEF Ids
  <1>3. player[t] \in Sessions
    <2>1. player[t] \in Sessions \cup {Away} /\ player[t].at = s
      BY <1>1 DEF Here, Types, Shape
    <2> HIDE DEF s
    <2> QED BY <1>2, <2>1, SessionFacts
  <1> HIDE DEF p, s
  <1>4. y \in Sessions /\ y.at = player[t].at /\ y.state = player[t].state /\ y.invite = p
    BY <1>2, <1>3 DEF Sessions
  <1> HIDE DEF y
  <1>5. /\ player' \in [Chars -> Sessions \cup {Away}] /\ Steady
        /\ \A d \in Chars : player'[d].invite <= lastId
    BY <1>1, <1>2, <1>3, <1>4, OneChanges
  <1>6. Request(s, <<>>) /\ <<>> \in Seq(MapNews(lastId))
    BY <1>1, <1>2, Silent
  <1>7. asked' \in 0 .. Bound /\ level' \in [Chars -> 1 .. TopLevel]
    BY <1>1, LevelsStay DEF Types, Shape, ConstantsOK
  <1>8. /\ party_db' \in [Servers -> [Ids -> Copies \cup {None}]]
        /\ \A q \in Ids : q > lastId => \A u \in Servers : party_db'[u][q] = None
    BY <1>1, CopiesStay
  <1> QED BY <1>2, <1>5, <1>6, <1>7, <1>8, RequestTypes

Relabelled(C, c, t) == [C EXCEPT !.member[c].leader = FALSE, !.member[t].leader = TRUE]

LEMMA RelabelFacts ==
  ASSUME NEW C \in Copies, NEW c \in DOMAIN C.member, NEW t, NEW D, D = Relabelled(C, c, t)
  PROVE  /\ D \in Copies /\ D.exp = C.exp /\ D.data = C.data
         /\ DOMAIN D.member = DOMAIN C.member
         /\ \A d \in DOMAIN C.member : D.member[d].online = C.member[d].online
  <1> DEFINE v == [C.member[c] EXCEPT !.leader = FALSE]
             one == [C.member EXCEPT ![c] = v]
             w == [one[t] EXCEPT !.leader = TRUE]
             two == [one EXCEPT ![t] = w]
  <1>1. C.member \in Rosters /\ C.member[c] \in Member
    BY RosterFacts DEF Copies
  <1>2. v \in Member /\ v.online = C.member[c].online
    BY <1>1 DEF Member
  <1> HIDE DEF v
  <1>3. one \in Rosters /\ DOMAIN one = DOMAIN C.member /\ one[c] = v
        /\ \A d \in DOMAIN C.member \ {c} : one[d] = C.member[d]
    <2> DEFINE ros == C.member
    <2>1. ros \in Rosters /\ c \in DOMAIN ros
      BY <1>1
    <2> HIDE DEF ros
    <2>2. [ros EXCEPT ![c] = v] \in Rosters /\ DOMAIN [ros EXCEPT ![c] = v] = DOMAIN ros
          /\ [ros EXCEPT ![c] = v][c] = v
          /\ \A d \in DOMAIN ros \ {c} : [ros EXCEPT ![c] = v][d] = ros[d]
      BY <1>2, <2>1, Changed
    <2> QED BY <2>2 DEF ros
  <1>4. D = [C EXCEPT !.member = two]
    BY <1>1 DEF v, Copies, Relabelled
  <1> HIDE DEF one
  <1>5. two \in Rosters /\ DOMAIN two = DOMAIN one
        /\ \A d \in DOMAIN one : two[d].online = one[d].online
    <2>1. CASE t \in DOMAIN one
      <3>1. one[t] \in Member
        BY <1>3, <2>1, RosterFacts
      <3>2. w \in Member /\ w.online = one[t].online
        BY <3>1 DEF Member
      <3> HIDE DEF w
      <3>3. [one EXCEPT ![t] = w] \in Rosters /\ DOMAIN [one EXCEPT ![t] = w] = DOMAIN one
            /\ [one EXCEPT ![t] = w][t] = w
            /\ \A d \in DOMAIN one \ {t} : [one EXCEPT ![t] = w][d] = one[d]
        BY <1>3, <2>1, <3>2, Changed
      <3> QED BY <3>2, <3>3
    <2>2. CASE t \notin DOMAIN one
      <3>1. two = one
        <4>1. one = [d \in DOMAIN one |-> one[d]]
          BY <1>3, RosterFacts
        <4> HIDE DEF w
        <4> QED BY <2>2, <4>1
      <3> QED BY <1>3, <3>1
    <2> QED BY <2>1, <2>2
  <1>6. \A d \in DOMAIN C.member : two[d].online = C.member[d].online
    BY <1>2, <1>3, <1>5
  <1> HIDE DEF two
  <1>7. D \in Copies /\ D.member = two /\ D.exp = C.exp /\ D.data = C.data
    BY <1>4, <1>5 DEF Copies
  <1> QED BY <1>3, <1>5, <1>6, <1>7

LEMMA LeaderCopy ==
  ASSUME ConstantsOK, Types, NEW c \in Chars, NEW t \in Chars, party_changeleader(c, t),
         NEW s, s = player[c].at, NEW p, p = player[c].party_id
  PROVE  LET D == Relabelled(party_db[s][p], c, t)
         IN  /\ s \in Servers /\ p \in Ids /\ p <= lastId
             /\ party_db[s][p] \in Copies /\ c \in DOMAIN party_db[s][p].member
             /\ party_db' = [party_db EXCEPT ![s][p] = D]
  <1> DEFINE C == party_db[s][p]
             C1 == [C EXCEPT !.member[c].leader = FALSE]
             D == Relabelled(C, c, t)
             one == [party_db EXCEPT ![s][p] = C1]
  <1>0. /\ player[c].state \in {"reg", "map"} /\ Mine(c) # None /\ c \in DOMAIN Mine(c).member
        /\ party_db' = [party_db EXCEPT ![s][p].member[c].leader = FALSE,
                                        ![s][p].member[t].leader = TRUE]
    BY Zenon DEF party_changeleader, Asks, Leads
  <1>1. /\ s \in Servers /\ p \in Ids /\ p <= lastId /\ C \in Copies /\ c \in DOMAIN C.member
        /\ party_db[s] \in [Ids -> Copies \cup {None}]
        /\ party_db \in [Servers -> [Ids -> Copies \cup {None}]]
    BY <1>0, InGame, MineFacts, Zenon DEF Types, Shape
  <1>2. party_db' = [one EXCEPT ![s][p] = [one[s][p] EXCEPT !.member[t].leader = TRUE]]
    BY <1>0, Zenon
  <1>3. D = [C1 EXCEPT !.member[t].leader = TRUE]
    BY DEF Relabelled
  <1> HIDE DEF C, C1, D
  <1> DEFINE r == [party_db[s] EXCEPT ![p] = C1]
             w == [r EXCEPT ![p] = D]
  <1>4. r[p] = C1 /\ w = [party_db[s] EXCEPT ![p] = D]
    BY <1>1
  <1>5. one = [party_db EXCEPT ![s] = r]
    OBVIOUS
  <1> HIDE DEF one, r
  <1>6. one[s] = r
    BY <1>1, <1>5
  <1>7. party_db' = [one EXCEPT ![s] = w]
    BY <1>2, <1>3, <1>4, <1>6
  <1> HIDE DEF w
  <1>8. party_db' = [party_db EXCEPT ![s] = w]
    BY <1>5, <1>7
  <1> QED BY <1>1, <1>4, <1>8 DEF C, D

LEMMA ChangeLeaderTypes ==
  ASSUME ConstantsOK, Types, NEW c \in Chars, NEW t \in Chars, party_changeleader(c, t)
  PROVE  Types'
  <1> DEFINE s == player[c].at
             p == player[c].party_id
             C == party_db[s][p]
             D == Relabelled(C, c, t)
             m == [kind |-> "leader", party |-> p, who |-> t]
             packets == <<m>>
  <1>1. /\ player[c].state \in {"reg", "map"}
        /\ player' = player /\ level' = level /\ Request(s, packets)
        /\ asked < Bound /\ asked' = asked + 1
    BY Zenon DEF party_changeleader, Asks
  <1>2. /\ s \in Servers /\ p \in Ids /\ p <= lastId /\ C \in Copies /\ c \in DOMAIN C.member
        /\ party_db' = [party_db EXCEPT ![s][p] = D]
    BY LeaderCopy
  <1>3. level' \in [Chars -> 1 .. TopLevel]
    BY <1>1, LevelsStay
  <1>4. D \in Copies
    <2> HIDE DEF C
    <2>1. D = Relabelled(C, c, t)
      OBVIOUS
    <2> HIDE DEF D
    <2> QED BY <1>2, <2>1, RelabelFacts
  <1>6. packets \in Seq(MapNews(lastId))
    <2>1. m \in ToCharMsg
      <3> HIDE DEF p
      <3> QED BY <1>2, ToCharMade
    <2>2. m.kind = "leader"
      OBVIOUS
    <2> HIDE DEF m
    <2>3. m \in MapNews(lastId)
      BY <2>1, <2>2 DEF MapNews, MapAware, About
    <2> QED BY <2>3, One
  <1>7. \E q \in Ids, E \in Copies : q <= lastId /\ party_db' = [party_db EXCEPT ![s][q] = E]
    <2> HIDE DEF D, s, p
    <2> QED BY <1>2, <1>4
  <1> HIDE DEF packets
  <1> QED BY <1>1, <1>3, <1>6, <1>7, ActTypes, Zenon

(* The char-server lets a character in that is out of the game and that it *)
(* lets in nowhere else.                                                   *)
LEMMA ReqAuthTypes ==
  ASSUME ConstantsOK, Types, NEW c \in Chars, NEW s \in Servers, chmapif_parse_reqauth(c, s)
  PROVE  Types'
  <1> DEFINE m == [kind |-> "auth", who |-> c, party |-> row[c]]
             New == {m}
  <1>1. /\ asked < Bound /\ player[c] = Away /\ asked' = asked + 1
        /\ \A t \in Servers : \A i \in DOMAIN toMap[t] : ~IsAuth(toMap[t][i], c)
        /\ toMap' = [toMap EXCEPT ![s] = Append(toMap[s], m)]
        /\ UNCHANGED <<charVars, mapVars, toChar>>
    BY DEF chmapif_parse_reqauth, Idle, IsAuth
  <1>2. /\ m \in ToMapMsg /\ m.kind = "auth" /\ m.who = c
    BY ToMapMade2 DEF Types, Shape
  <1> HIDE DEF m
  <1>3. /\ party_db_' = party_db_ /\ lastId' = lastId /\ row' = row /\ toChar' = toChar
        /\ party_db' = party_db /\ player' = player /\ level' = level
    BY <1>1 DEF charVars, mapVars
  <1>4. toMap[s] \in Seq(ToMapMsg) /\ <<m>> \in Seq(ToMapMsg) /\ <<m>> \in Seq(New)
        /\ Append(toMap[s], m) = toMap[s] \o <<m>>
    <2> DEFINE q == toMap[s]
    <2>1. q \in Seq(ToMapMsg)
      BY DEF Types, Shape
    <2>2. <<m>> \in Seq(ToMapMsg) /\ <<m>> \in Seq(New)
      BY <1>2, One
    <2> HIDE DEF q
    <2>3. Append(q, m) = q \o <<m>>
      BY <1>2, <2>1
    <2> QED BY <2>1, <2>2, <2>3 DEF q
  <1>5. /\ toMap[s] \o <<m>> \in Seq(ToMapMsg)
        /\ \A j \in DOMAIN <<m>> : Len(toMap[s]) + j \in DOMAIN (toMap[s] \o <<m>>)
                                   /\ (toMap[s] \o <<m>>)[Len(toMap[s]) + j] = <<m>>[j]
        /\ \A i \in DOMAIN (toMap[s] \o <<m>>) :
             \/ i \in DOMAIN toMap[s]
             \/ i - Len(toMap[s]) \in DOMAIN <<m>>
        /\ \A i \in DOMAIN toMap[s] : (toMap[s] \o <<m>>)[i] = toMap[s][i]
        /\ Moves(toMap[s], toMap[s] \o <<m>>, New)
    <2> DEFINE q == toMap[s]
               r == <<m>>
    <2>1. q \in Seq(ToMapMsg) /\ r \in Seq(ToMapMsg) /\ r \in Seq(New)
      BY <1>4
    <2> HIDE DEF q, r, New
    <2>2. /\ q \o r \in Seq(ToMapMsg)
          /\ \A j \in DOMAIN r : Len(q) + j \in DOMAIN (q \o r) /\ (q \o r)[Len(q) + j] = r[j]
          /\ \A i \in DOMAIN (q \o r) : i \in DOMAIN q \/ i - Len(q) \in DOMAIN r
          /\ \A i \in DOMAIN q : (q \o r)[i] = q[i]
          /\ Moves(q, q \o r, New)
      BY <2>1, Added2
    <2> QED BY <2>2 DEF q, r
  <1>6. toMap' \in [Servers -> Seq(ToMapMsg)] /\ toMap'[s] = toMap[s] \o <<m>>
        /\ \A t \in Servers : t # s => toMap'[t] = toMap[t]
    BY <1>1, <1>4, <1>5 DEF Types, Shape
  <1>7. asked' \in 0 .. Bound
    BY <1>1 DEF Types, Shape, ConstantsOK
  <1>8. Shape'
    BY <1>3, <1>6, <1>7 DEF Types, Shape
  <1>9. \A t \in Servers : Moves(toMap[t], toMap'[t], New)
    <2> TAKE t \in Servers
    <2>1. CASE t = s
      BY <1>5, <1>6, <2>1
    <2>2. CASE t # s
      <3>1. toMap[t] \in Seq(ToMapMsg) /\ toMap'[t] = toMap[t]
        BY <1>6, <2>2 DEF Types, Shape
      <3> QED BY <3>1, Same
    <2> QED BY <2>1, <2>2
  <1>10. Fresh'
    <2>1. \A t \in Servers : Moves(toMap[t], toMap'[t], CharAware(lastId'))
      <3>1. New \subseteq CharAware(lastId')
        BY <1>2 DEF CharAware, About, Founding
      <3> HIDE DEF New
      <3> QED BY <1>9, <3>1, MoreMoves
    <2>2. \A t \in Servers : Moves(toChar[t], toChar'[t], MapAware(lastId'))
      <3> TAKE t \in Servers
      <3>1. toChar[t] \in Seq(ToCharMsg) /\ toChar'[t] = toChar[t]
        BY <1>3 DEF Types, Shape
      <3> QED BY <3>1, Same
    <2>3. /\ lastId' >= lastId
          /\ \A p \in Ids : p > lastId' => /\ party_db_'[p] = None
                                           /\ \A u \in Servers : party_db'[u][p] = None
          /\ \A d \in Chars : player'[d].invite <= lastId'
      BY <1>3 DEF Types, Shape, Fresh
    <2> QED BY <1>8, <2>1, <2>2, <2>3, FreshKept
  <1>11. Awaited'
    <2> SUFFICES ASSUME NEW d \in Chars, NEW t \in Servers
                 PROVE  /\ \A i \in DOMAIN toMap'[t] : IsReg(toMap'[t][i], d) =>
                             /\ Waits(d, t)'
                             /\ \A j \in DOMAIN toMap'[t] : IsReg(toMap'[t][j], d) => j = i
                             /\ \A j \in DOMAIN toChar'[t] : ~IsReg(toChar'[t][j], d)
                        /\ \A i \in DOMAIN toChar'[t] : IsReg(toChar'[t][i], d) =>
                             /\ Waits(d, t)'
                             /\ \A j \in DOMAIN toChar'[t] : IsReg(toChar'[t][j], d) => j = i
      BY DEF Awaited
    <2>1. \E k \in {0, 1} : \A j \in DOMAIN toMap'[t] : IsReg(toMap'[t][j], d) =>
            j + k \in DOMAIN toMap[t] /\ IsReg(toMap[t][j + k], d)
      BY <1>2, <1>9 DEF Moves, IsReg
    <2>2. \E h \in {0, 1} : \A j \in DOMAIN toChar'[t] : IsReg(toChar'[t][j], d) =>
            j + h \in DOMAIN toChar[t] /\ IsReg(toChar[t][j + h], d)
      <3>1. toChar[t] \in Seq(ToCharMsg) /\ toChar'[t] = toChar[t]
        BY <1>3 DEF Types, Shape
      <3>2. \A j \in DOMAIN toChar[t] : j + 0 = j
        BY <3>1, LenProperties
      <3> QED BY <3>1, <3>2
    <2>3. Waits(d, t) => Waits(d, t)'
      BY <1>3 DEF Waits
    <2> QED BY <1>8, <2>1, <2>2, <2>3, StillAwaited
  <1>12. LetIn'
    <2> SUFFICES ASSUME NEW d \in Chars, NEW t \in Servers, NEW i \in DOMAIN toMap'[t],
                        IsAuth(toMap'[t][i], d)
                 PROVE  /\ player'[d] = Away
                        /\ \A u \in Servers : \A j \in DOMAIN toMap'[u] :
                             IsAuth(toMap'[u][j], d) => u = t /\ j = i
      BY DEF LetIn
    <2>1. CASE d = c
      <3>1. \A u \in Servers : \A j \in DOMAIN toMap'[u] :
              IsAuth(toMap'[u][j], c) => u = s /\ j = Len(toMap[s]) + 1
        <4> SUFFICES ASSUME NEW u \in Servers, NEW j \in DOMAIN toMap'[u],
                            IsAuth(toMap'[u][j], c)
                     PROVE  u = s /\ j = Len(toMap[s]) + 1
          OBVIOUS
        <4>1. u = s
          BY <1>1, <1>6
        <4>2. j \notin DOMAIN toMap[s]
          BY <1>1, <1>5, <1>6, <4>1
        <4>3. j \in DOMAIN (toMap[s] \o <<m>>)
          BY <1>6, <4>1
        <4>4. j - Len(toMap[s]) \in DOMAIN <<m>>
          BY <1>5, <4>2, <4>3
        <4>5. j - Len(toMap[s]) = 1
          BY <4>4
        <4>6. j \in Int /\ Len(toMap[s]) \in Int
          <5>1. toMap'[u] \in Seq(ToMapMsg)
            BY <1>6
          <5> QED BY <1>4, <5>1, LenProperties
        <4> QED BY <4>1, <4>5, <4>6
      <3>2. t = s /\ i = Len(toMap[s]) + 1
        BY <2>1, <3>1
      <3> QED BY <1>1, <1>3, <2>1, <3>1, <3>2
    <2>2. CASE d # c
      <3>1. \A u \in Servers : \E k \in {0, 1} : \A j \in DOMAIN toMap'[u] :
              IsAuth(toMap'[u][j], d) => j + k \in DOMAIN toMap[u] /\ IsAuth(toMap[u][j + k], d)
        BY <1>2, <1>9, <2>2 DEF Moves, IsAuth
      <3>2. player[d] = Away => player'[d] = Away
        BY <1>3
      <3> QED BY <1>8, <3>1, <3>2, StillOut
    <2> QED BY <2>1, <2>2
  <1> QED BY <1>8, <1>10, <1>11, <1>12 DEF Types

LEMMA StillTypes ==
  ASSUME Types, UNCHANGED vars
  PROVE  Types'
  BY DEF Types, Shape, LetIn, Awaited, Fresh, Waits, vars, charVars, mapVars

LEMMA InitTypes ==
  ASSUME ConstantsOK, Init
  PROVE  Types
  <1>1. PICK place \in Places, founders \in Founders :
          LET P == Founded([c \in founders |-> [leader |-> c = Chief, online |-> place[c] # None,
                                                lv |-> StartLevel[c]]])
              here(s) == {c \in founders : place[c] = s}
              copy(s) == [member |-> P.member, exp |-> P.exp, data |-> here(s)]
              home(c) == IF c \in founders THEN 1 ELSE 0
          IN  /\ party_db_ = [p \in Ids |-> IF p = 1 THEN P ELSE None]
              /\ lastId = 1
              /\ row = [c \in Chars |-> home(c)]
              /\ party_db = [s \in Servers |->
                              [p \in Ids |-> IF p = 1 /\ here(s) # {} THEN copy(s) ELSE None]]
              /\ player = [c \in Chars |->
                            IF place[c] = None THEN Away
                            ELSE [Away EXCEPT !.at = place[c], !.state = "map", !.told = TRUE,
                                              !.party_id = home(c)]]
              /\ level = StartLevel
              /\ toChar = [s \in Servers |-> <<>>]
              /\ toMap = [s \in Servers |-> <<>>]
              /\ asked = 0
    BY DEF Init
  <1> DEFINE members == [c \in founders |-> [leader |-> c = Chief, online |-> place[c] # None,
                                             lv |-> StartLevel[c]]]
             P == Founded(members)
             here(s) == {c \in founders : place[c] = s}
             copy(s) == [member |-> P.member, exp |-> P.exp, data |-> here(s)]
             home(c) == IF c \in founders THEN 1 ELSE 0
             there(c) == [Away EXCEPT !.at = place[c], !.state = "map", !.told = TRUE,
                                      !.party_id = home(c)]
  <1>2. /\ party_db_ = [p \in Ids |-> IF p = 1 THEN P ELSE None]
        /\ lastId = 1
        /\ row = [c \in Chars |-> home(c)]
        /\ party_db = [s \in Servers |->
                        [p \in Ids |-> IF p = 1 /\ here(s) # {} THEN copy(s) ELSE None]]
        /\ player = [c \in Chars |-> IF place[c] = None THEN Away ELSE there(c)]
        /\ level = StartLevel
        /\ toChar = [s \in Servers |-> <<>>]
        /\ toMap = [s \in Servers |-> <<>>]
        /\ asked = 0
    BY <1>1
  <1>3. /\ LastParty \in Nat \ {0} /\ Bound \in Nat /\ founders \subseteq Chars
        /\ StartLevel \in [Chars -> 1 .. TopLevel] /\ place \in [Chars -> Servers \cup {None}]
    BY DEF ConstantsOK
  <1>4. members \in Rosters
    <2>1. \A c \in founders : members[c] \in Member
      <3> TAKE c \in founders
      <3>1. StartLevel[c] \in 1 .. TopLevel
        BY <1>3
      <3>2. \A x, y \in BOOLEAN : [leader |-> x, online |-> y, lv |-> StartLevel[c]] \in Member
        BY <3>1 DEF Member
      <3>3. (c = Chief) \in BOOLEAN /\ (place[c] # None) \in BOOLEAN
        OBVIOUS
      <3>4. [leader |-> c = Chief, online |-> place[c] # None, lv |-> StartLevel[c]] \in Member
        BY <3>2, <3>3, Zenon
      <3> QED BY <3>4
    <2>2. DOMAIN members \subseteq Chars /\ DOMAIN members = founders
      BY <1>3
    <2>3. members = [c \in founders |-> members[c]]
      OBVIOUS
    <2> HIDE DEF members
    <2>4. members \in [DOMAIN members -> Member]
      BY <2>1, <2>2, <2>3
    <2> QED BY <2>2, <2>4, RosterFacts
  <1> HIDE DEF members
  <1>5. P \in Parties /\ P.exp = FALSE
    BY <1>4, FoundedFacts
  <1> HIDE DEF P
  <1>6. \A s \in Servers : copy(s) \in Copies
    BY <1>3, <1>5 DEF Copies, Parties
  <1> HIDE DEF copy, here
  <1>7. \A c \in Chars : home(c) \in 0 .. LastParty
    BY <1>3
  <1> HIDE DEF home
  <1>8. \A c \in Chars : place[c] # None => /\ there(c) \in Sessions /\ there(c).invite = 0
                                            /\ there(c).at = place[c]
    <2> TAKE c \in Chars
    <2> HAVE place[c] # None
    <2>1. place[c] \in Servers /\ home(c) \in 0 .. LastParty /\ 0 \in 0 .. LastParty
      BY <1>3, <1>7
    <2> DEFINE R == [at : {None}, state : {"off"}, party_id : {0}, invite : {0},
                     joining : BOOLEAN, creating : BOOLEAN, told : BOOLEAN]
               x == Away
    <2>2. x \in R
      BY DEF Away
    <2> HIDE DEF x
    <2>3. /\ [x EXCEPT !.at = place[c], !.state = "map", !.told = TRUE, !.party_id = home(c)] \in Sessions
          /\ [x EXCEPT !.at = place[c], !.state = "map", !.told = TRUE, !.party_id = home(c)].invite = 0
          /\ [x EXCEPT !.at = place[c], !.state = "map", !.told = TRUE, !.party_id = home(c)].at = place[c]
      BY <2>1, <2>2 DEF Sessions
    <2> QED BY <2>3 DEF x
  <1> HIDE DEF there
  <1>9. player \in [Chars -> Sessions \cup {Away}] /\ \A c \in Chars : player[c].invite <= lastId
    BY <1>2, <1>8 DEF Away
  <1>10. party_db_ \in [Ids -> Parties \cup {None}]
    BY <1>2, <1>5
  <1>11. party_db \in [Servers -> [Ids -> Copies \cup {None}]]
    BY <1>2, <1>6
  <1>12. \A p \in Ids : p > lastId => /\ party_db_[p] = None
                                      /\ \A s \in Servers : party_db[s][p] = None
    BY <1>2 DEF Ids
  <1>13. Shape
    BY <1>2, <1>3, <1>7, <1>9, <1>10, <1>11 DEF Shape
  <1>14. \A s \in Servers : DOMAIN toMap[s] = {} /\ DOMAIN toChar[s] = {}
    BY <1>2
  <1>15. LetIn /\ Awaited
    BY <1>14 DEF LetIn, Awaited
  <1>16. Fresh
    BY <1>9, <1>12, <1>14 DEF Fresh
  <1> QED BY <1>13, <1>15, <1>16 DEF Types

LEMMA TypesInductive ==
  ASSUME ConstantsOK, Types, [Next]_vars
  PROVE  Types'
  <1>1. ASSUME NEW s \in Servers, CharServer(s) PROVE Types'
    BY <1>1, CreateSteps, PartyInfoSteps, AddMemberTypes, ChangeOptionSteps, LeaveSteps,
       ChangeMapSteps, LeaderChangeSteps, SaveSteps, RegistryTypes DEF CharServer
  <1>2. ASSUME NEW s \in Servers, MapServer(s) PROVE Types'
    BY <1>2, AuthTypes, RegReceivedTypes, CreatedSteps, AddedSteps, RecvInfoSteps, NoInfoSteps,
       BrokenSteps, WithdrawSteps, CrashTypes, OptionSteps, MovemapSteps DEF MapServer
  <1>3. ASSUME NEW c \in Chars, Client(c) PROVE Types'
    BY <1>3, ReqAuthTypes, LoadedTypes, JoinedTypes, CreateAskedTypes, QuitTypes, AskTypes,
       ReplyTypes, LevelupTypes, InviteTypes, ChangeLeaderTypes DEF Client
  <1>4. CASE UNCHANGED vars
    BY <1>4, StillTypes
  <1> QED BY <1>1, <1>2, <1>3, <1>4 DEF Next

(* Whatever is asked of the parties and in whatever order the links hand   *)
(* it on: every message names characters and parties there are, a          *)
(* character is let in to one map-server at a time and only while it is    *)
(* out of the game, its registries are asked for once, and nobody hears of *)
(* a party before it is founded.                                           *)
THEOREM PartyTypes == ConstantsOK => (Spec => []Types)
  <1> SUFFICES ASSUME ConstantsOK PROVE Spec => []Types
    OBVIOUS
  <1>1. Init => Types
    BY InitTypes
  <1>2. Types /\ [Next]_vars => Types'
    BY TypesInductive
  <1> QED BY <1>1, <1>2, PTL DEF Spec
=============================================================================
