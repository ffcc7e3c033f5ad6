-------------------------------- MODULE Party --------------------------------
(***************************************************************************)
(* Parties: party.cpp on the map-servers, int_party.cpp on the char-server *)
(* and the links between them.  The char-server keeps the parties, every   *)
(* map-server keeps a copy of those its players belong to, and a player    *)
(* carries the id of its party, which is saved with the character.  Every  *)
(* change is asked of the char-server and told to all map-servers.         *)
(* Accounts have one character here; maps, families, item sharing and the  *)
(* chat of a party are left out.                                           *)
(***************************************************************************)
EXTENDS Integers, Sequences, FiniteSets, SequencesExt

CONSTANTS Chars, Servers,
          Founders,    \* who may be in party 1, which is there from the start
          Chief,       \* its leader
          LastParty,   \* bound on party ids
          MAX_PARTY,
          TopLevel,    \* bound on base levels
          StartLevel,  \* StartLevel[c]: base level at first
          Leap,        \* levels a player may gain or lose at once
          party_share_level,
          Asked,       \* what may be asked: a set of names of actions
          Bound,       \* bound on all that players ask
          Places,      \* where the characters may be at first
          None

Ids == 1 .. LastParty

VARIABLES
  party_db_,  \* the char-server's parties
  lastId,     \* the database's last party id
  row,        \* row[c]: party_id of the character in the database
  party_db,   \* party_db[s]: the parties map-server s knows
  player,     \* player[c]: status and state of c where it plays
  level,      \* base level of each character
  toChar, toMap,  \* the links, in order each way
  asked       \* requests so far

charVars == <<party_db_, lastId, row>>
mapVars  == <<party_db, player, level>>
vars == <<charVars, mapVars, toChar, toMap, asked>>

Member == [leader : BOOLEAN, online : BOOLEAN, lv : 1 .. TopLevel]
IsRoster(m) == DOMAIN m \subseteq Chars /\ m \in [DOMAIN m -> Member]
IsParty(P) == /\ IsRoster(P.member) /\ P.exp \in BOOLEAN
              /\ P.count \in 0 .. Cardinality(Chars)
              /\ P.min_lv \in 1 .. TopLevel + 1 /\ P.max_lv \in 0 .. TopLevel
IsCopy(P) == IsRoster(P.member) /\ P.exp \in BOOLEAN /\ P.data \subseteq Chars
Away == [at |-> None, state |-> "off", party_id |-> 0, invite |-> 0,
         joining |-> FALSE, creating |-> FALSE, told |-> FALSE]
Sessions == [at : Servers, state : {"auth", "reg", "map"}, party_id : 0 .. LastParty,
             invite : 0 .. LastParty, joining : BOOLEAN, creating : BOOLEAN, told : BOOLEAN]

TypeOK ==
  /\ \A p \in Ids : party_db_[p] = None \/ IsParty(party_db_[p])
  /\ lastId \in 0 .. LastParty
  /\ row \in [Chars -> 0 .. LastParty]
  /\ \A s \in Servers, p \in Ids : party_db[s][p] = None \/ IsCopy(party_db[s][p])
  /\ player \in [Chars -> Sessions \cup {Away}]
  /\ level \in [Chars -> 1 .. TopLevel]
  /\ asked \in 0 .. Bound

(* The same values as sets, which are slower to evaluate. *)
Rosters == UNION {[S -> Member] : S \in SUBSET Chars}
Parties == [member : Rosters, exp : BOOLEAN, count : Int,
            min_lv : 1 .. TopLevel + 1, max_lv : 0 .. TopLevel]
Copies == [member : Rosters, exp : BOOLEAN, data : SUBSET Chars]

(* What the constants may be; the modules that instantiate this one assume *)
(* it of theirs.                                                           *)
ConstantsOK ==
  /\ IsFiniteSet(Chars) /\ None \notin Chars /\ None \notin Servers
  /\ None \notin Parties /\ None \notin Copies
  /\ LastParty \in Nat \ {0} /\ TopLevel \in Nat \ {0}
  /\ MAX_PARTY \in Nat /\ party_share_level \in Nat /\ Bound \in Nat /\ Leap \subseteq Int
  /\ Founders \subseteq (SUBSET Chars) \ {{}}
  /\ StartLevel \in [Chars -> 1 .. TopLevel]
  /\ Places \subseteq [Chars -> Servers \cup {None}]

-----------------------------------------------------------------------------
(* The level range of a party: the online members count; no member online  *)
(* leaves UINT_MAX and 0.                                                  *)
Online(P) == {c \in DOMAIN P.member : P.member[c].online}
Levels(P) == {P.member[c].lv : c \in Online(P)}
Ranged(P) == [P EXCEPT !.min_lv = IF Levels(P) = {} THEN TopLevel + 1 ELSE Min(Levels(P)),
                       !.max_lv = IF Levels(P) = {} THEN 0 ELSE Max(Levels(P))]
party_check_exp_share(P) == P.count < 2 \/ P.max_lv - P.min_lv <= party_share_level

int_party_check_lv(P) == LET Q == Ranged(P)
                         IN  [Q EXCEPT !.exp = @ /\ party_check_exp_share(Q)]
int_party_calc_state(P) == int_party_check_lv([P EXCEPT !.count = Cardinality(Online(P))])

Filled(c, leads) == [leader |-> leads, online |-> TRUE, lv |-> level[c]]
Founded(members) == int_party_calc_state([member |-> members, exp |-> FALSE, count |-> 0,
                                          min_lv |-> 1, max_lv |-> 0])

(* Messages to the map-servers.                                            *)
Info(p, P, c) == [kind |-> "info", party |-> p, who |-> c, member |-> P.member, exp |-> P.exp]
NoInfo(p, c)  == [kind |-> "noinfo", party |-> p, who |-> c]
Broken(p)     == [kind |-> "broken", party |-> p]
Withdraw(p, c) == [kind |-> "withdraw", party |-> p, who |-> c]
Moved(p, P, c) == [kind |-> "moved", party |-> p, who |-> c, online |-> P.member[c].online,
                   lv |-> P.member[c].lv]
Option(p, P, denied) == [kind |-> "option", party |-> p, exp |-> P.exp, denied |-> denied]
Created(c, p) == [kind |-> "created", who |-> c, party |-> p]
Added(p, c, flag) == [kind |-> "added", party |-> p, who |-> c, flag |-> flag]
(* Even share went off by itself: everybody is told. *)
Dropped(p, P, Q) == IF P.exp /\ ~Q.exp THEN <<Option(p, Q, FALSE)>> ELSE <<>>

(* Messages to the char-server.                                            *)
Leave(p, c) == [kind |-> "leave", party |-> p, who |-> c]
ChangeMap(c, online) == [kind |-> "move", party |-> player[c].party_id, who |-> c,
                         online |-> online, lv |-> level[c]]
Save(c, final) == [kind |-> "save", who |-> c, party |-> player[c].party_id, final |-> final]

Init ==
  \E place \in Places, founders \in Founders :
    LET P == Founded([c \in founders |-> [leader |-> c = Chief, online |-> place[c] # None,
                                          lv |-> StartLevel[c]]])
        here(s) == {c \in founders : place[c] = s}
        copy(s) == [member |-> P.member, exp |-> P.exp, data |-> here(s)]
        home(c) == IF c \in founders THEN 1 ELSE 0
    IN  /\ party_db_ = [p \in Ids |-> IF p = 1 THEN P ELSE None]
        /\ lastId = 1
        /\ row = [c \in Chars |-> home(c)]
        /\ party_db = [s \in Servers |->
                        [p \in Ids |-> IF p = 1 /\ here(s) # {} THEN copy(s) ELSE None]]
        /\ player = [c \in Chars |->
                      IF place[c] = None THEN Away
                      ELSE [Away EXCEPT !.at = place[c], !.state = "map", !.told = TRUE,
                                        !.party_id = home(c)]]
        /\ level = StartLevel
        /\ toChar = [s \in Servers |-> <<>>]
        /\ toMap = [s \in Servers |-> <<>>]
        /\ asked = 0

-----------------------------------------------------------------------------
Heard(s, kind) == toChar[s] # <<>> /\ Head(toChar[s]).kind = kind
(* Mutant: what everybody should hear goes to the asking map-server only *)
AnswerAsker(s, all, one) ==
  /\ toChar' = [toChar EXCEPT ![s] = Tail(@)]
  /\ toMap' = [toMap EXCEPT ![s] = @ \o all \o one]
  /\ UNCHANGED <<mapVars, asked>>

(* The char-server answers the first message of a map-server.              *)
Answer(s, all, one) ==
  /\ toChar' = [toChar EXCEPT ![s] = Tail(@)]
  /\ toMap' = [t \in Servers |-> toMap[t] \o all \o IF t = s THEN one ELSE <<>>]
  /\ UNCHANGED <<mapVars, asked>>
Known(p) == p \in Ids /\ party_db_[p] # None
Put(p, P) == party_db_' = [party_db_ EXCEPT ![p] = P]

(* The name may be taken by a party that exists.                           *)
CreateParty(s) ==
  /\ Heard(s, "create")
  /\ LET m == Head(toChar[s])
         p == lastId + 1
         P == Founded([c \in {m.who} |-> m.as])
     IN  \/ /\ p \in Ids
            /\ Put(p, P)
            /\ lastId' = p
            /\ row' = [row EXCEPT ![m.who] = p]
            /\ Answer(s, <<>>, <<Info(p, P, None), Created(m.who, p)>>)
         \/ /\ \E q \in Ids : Known(q)
            /\ Answer(s, <<>>, <<Created(m.who, 0)>>)
            /\ UNCHANGED charVars

PartyInfo(s) ==
  /\ Heard(s, "info")
  /\ LET m == Head(toChar[s])
     IN  Answer(s, <<>>, IF Known(m.party) THEN <<Info(m.party, party_db_[m.party], m.who)>>
                         ELSE <<NoInfo(m.party, m.who)>>)
  /\ UNCHANGED charVars

(* The level range is worked out again for small parties, and otherwise if *)
(* the new member is outside it.                                           *)
Joined(P, c, m) ==
  LET new == [m EXCEPT !.leader = FALSE]
      Q == [P EXCEPT !.member = [d \in DOMAIN P.member \cup {c} |->
                                   IF d = c THEN new ELSE P.member[d]],
                     !.count = @ + IF m.online THEN 1 ELSE 0]
  IN  IF Cardinality(DOMAIN Q.member) \in {2, 3} THEN int_party_calc_state(Q)
      ELSE IF m.lv < P.min_lv \/ m.lv > P.max_lv THEN int_party_check_lv(Q)
      ELSE Q

PartyAddMember(s) ==
  /\ Heard(s, "join")
  /\ LET m == Head(toChar[s])
         P == party_db_[m.party]
         Q == Joined(P, m.who, m.as)
     IN  IF Known(m.party) /\ Cardinality(DOMAIN P.member) < MAX_PARTY
         THEN /\ Put(m.party, Q)
              /\ row' = [row EXCEPT ![m.who] = m.party]
              /\ Answer(s, Dropped(m.party, P, Q) \o <<Info(m.party, Q, None)>>,
                        <<Added(m.party, m.who, FALSE)>>)
              /\ UNCHANGED lastId
         ELSE /\ Answer(s, <<>>, <<Added(m.party, m.who, TRUE)>>)
              /\ UNCHANGED charVars

PartyChangeOption(s) ==
  /\ Heard(s, "option")
  /\ LET m == Head(toChar[s])
         P == party_db_[m.party]
         Q == IF Cardinality(DOMAIN P.member) \in {2, 3} THEN int_party_calc_state(P) ELSE P
         denied == m.exp /\ ~party_check_exp_share(Q)
         R == [Q EXCEPT !.exp = m.exp /\ ~denied]
         told == <<Option(m.party, R, denied)>>
     IN  IF Known(m.party)
         THEN /\ Put(m.party, R)
              /\ Answer(s, Dropped(m.party, P, Q) \o IF denied THEN <<>> ELSE told,
                        IF denied THEN told ELSE <<>>)
         ELSE Answer(s, <<>>, <<>>) /\ UNCHANGED party_db_
  /\ UNCHANGED <<lastId, row>>

(* Mutant: a member who leaves does not change the range *)
WithoutCheck(P, c) ==
  [P EXCEPT !.member = [d \in DOMAIN P.member \ {c} |-> P.member[d]],
            !.count = @ - IF P.member[c].online THEN 1 ELSE 0]

(* Mutant: a member who leaves is counted off although it is not in the game *)
WithoutCount(P, c) ==
  LET Q == [P EXCEPT !.member = [d \in DOMAIN P.member \ {c} |-> P.member[d]],
                     !.count = @ - 1]
  IN  IF P.member[c].lv \in {P.min_lv, P.max_lv} THEN int_party_check_lv(Q) ELSE Q

(* A member less: the range is worked out again if it was at its border.   *)
Without(P, c) ==
  LET m == P.member[c]
      Q == [P EXCEPT !.member = [d \in DOMAIN P.member \ {c} |-> P.member[d]],
                     !.count = @ - IF m.online THEN 1 ELSE 0]
  IN  IF m.lv \in {P.min_lv, P.max_lv} THEN int_party_check_lv(Q) ELSE Q

(* The party of a leader who leaves, and one without members, is broken.   *)
PartyLeave(s) ==
  /\ Heard(s, "leave")
  /\ LET m == Head(toChar[s])
         p == m.party
         P == party_db_[p]
         Q == Without(P, m.who)
         ends == P.member[m.who].leader \/ DOMAIN Q.member = {}
         others == IF P.member[m.who].leader THEN SetToSeq(DOMAIN P.member \ {m.who}) ELSE <<>>
     IN  IF ~Known(p)
         THEN /\ row' = [c \in Chars |-> IF row[c] = p THEN 0 ELSE row[c]]
              /\ Answer(s, <<>>, <<>>)
              /\ UNCHANGED party_db_
         ELSE IF m.who \notin DOMAIN P.member
         THEN Answer(s, <<>>, <<>>) /\ UNCHANGED <<party_db_, row>>
         ELSE IF ends
         THEN /\ Put(p, None)
              /\ row' = [c \in Chars |-> IF row[c] = p THEN 0 ELSE row[c]]
              /\ Answer(s, <<Withdraw(p, m.who)>>
                           \o [i \in DOMAIN others |-> Withdraw(p, others[i])]
                           \o <<Broken(p)>>, <<>>)
         ELSE /\ Put(p, Q)
              /\ row' = [row EXCEPT ![m.who] = IF @ = p THEN 0 ELSE @]
              /\ Answer(s, <<Withdraw(p, m.who)>> \o Dropped(p, P, Q) \o <<Info(p, Q, None)>>, <<>>)
  /\ UNCHANGED lastId

(* A member enters, leaves or changes its level.                           *)
Shown(P, c, online, lv) ==
  LET m == P.member[c]
      Q == [P EXCEPT !.member[c].online = online,
                     !.count = IF online THEN @ + 1 ELSE @ - 1]
      border(l) == l <= P.min_lv \/ l >= P.max_lv
  IN  IF m.online = online THEN P
      ELSE IF border(m.lv) \/ border(lv)
      THEN int_party_check_lv([Q EXCEPT !.member[c].lv = lv])
      ELSE Q
Levelled(P, c, lv) ==
  LET Q == [P EXCEPT !.member[c].lv = lv]
  IN  IF P.member[c].lv # lv /\ P.member[c].lv \in {P.min_lv, P.max_lv}
      THEN int_party_check_lv(Q) ELSE Q

PartyChangeMap(s) ==
  /\ Heard(s, "move")
  /\ LET m == Head(toChar[s])
         p == m.party
         P == party_db_[p]
         Q == Shown(P, m.who, m.online, m.lv)
         R == Levelled(Q, m.who, m.lv)
     IN  IF Known(p) /\ m.who \in DOMAIN P.member
         THEN /\ Put(p, R)
              /\ Answer(s, Dropped(p, P, Q)
                           \o (IF P.member[m.who].online # m.online
                               THEN <<Moved(p, Q, m.who)>> ELSE <<>>)
                           \o Dropped(p, Q, R), <<>>)
         ELSE Answer(s, <<>>, <<>>) /\ UNCHANGED party_db_
  /\ UNCHANGED <<lastId, row>>

(* Whoever leads leads no longer, even if the new leader is gone.          *)
PartyLeaderChange(s) ==
  /\ Heard(s, "leader")
  /\ LET m == Head(toChar[s])
         P == party_db_[m.party]
         led == [c \in DOMAIN P.member |-> [P.member[c] EXCEPT !.leader = c = m.who]]
     IN  IF Known(m.party)
         THEN Put(m.party, [P EXCEPT !.member = led])
         ELSE UNCHANGED party_db_
  /\ Answer(s, <<>>, <<>>)
  /\ UNCHANGED <<lastId, row>>

(* char_mmo_char_tosql: something of the character has changed.            *)
char_mmo_char_tosql(s) ==
  /\ Heard(s, "save")
  /\ row' = [row EXCEPT ![Head(toChar[s]).who] = Head(toChar[s]).party]
  /\ Answer(s, <<>>, <<>>)
  /\ UNCHANGED <<party_db_, lastId>>

RegistryRequest(s) ==
  /\ Heard(s, "reg")
  /\ Answer(s, <<>>, <<[kind |-> "reg", who |-> Head(toChar[s]).who]>>)
  /\ UNCHANGED charVars

(* The char-server lets a character enter map-server s, if it is out of    *)
(* the game and was saved.                                                 *)
Idle(c, links, kind) ==
  \A s \in Servers : \A i \in DOMAIN links[s] :
    ~(links[s][i].kind = kind /\ links[s][i].who = c)

chmapif_parse_reqauth(c, s) ==
  /\ "login" \in Asked /\ asked < Bound
  /\ player[c] = Away
  /\ Idle(c, toChar, "save") /\ Idle(c, toMap, "auth")
  /\ toMap' = [toMap EXCEPT ![s] = Append(@, [kind |-> "auth", who |-> c, party |-> row[c]])]
  /\ asked' = asked + 1
  /\ UNCHANGED <<charVars, mapVars, toChar>>

-----------------------------------------------------------------------------
(* A map-server handles the first message of its link.                     *)
Told(s, kind) == toMap[s] # <<>> /\ Head(toMap[s]).kind = kind
Here(s, c) == player[c].at = s /\ player[c].state # "auth"   \* map_id2sd
Handled(s, packets) ==
  /\ toMap' = [toMap EXCEPT ![s] = Tail(@)]
  /\ toChar' = [toChar EXCEPT ![s] = @ \o packets]
  /\ UNCHANGED <<charVars, level, asked>>
Copy(s, p) == party_db[s][p]

auth_ok(s) ==
  /\ Told(s, "auth")
  /\ LET m == Head(toMap[s])
     IN  /\ player' = [player EXCEPT ![m.who] =
                         [Away EXCEPT !.at = s, !.state = "auth", !.party_id = m.party]]
         /\ Handled(s, <<[kind |-> "reg", who |-> m.who]>>)
  /\ UNCHANGED party_db

pc_reg_received(s) ==
  /\ Told(s, "reg")
  /\ player' = [player EXCEPT ![Head(toMap[s]).who].state = "reg"]
  /\ Handled(s, <<>>)
  /\ UNCHANGED party_db

(* Mutant: a character who has logged off stays a member *)
AbandonedNot(p, c, done) == <<>>

(* Nobody waits for the party any more: it is left at once.                *)
Abandoned(p, c, done) == IF done THEN <<Leave(p, c)>> ELSE <<>>

party_created(s) ==
  /\ Told(s, "created")
  /\ LET m == Head(toMap[s])
         c == m.who
     IN  IF Here(s, c) /\ player[c].creating
         THEN /\ player' = [player EXCEPT ![c].creating = FALSE,
                                          ![c].party_id = IF m.party = 0 THEN @ ELSE m.party]
              /\ Handled(s, <<>>)
         ELSE /\ Handled(s, Abandoned(m.party, c, m.party # 0))
              /\ UNCHANGED player
  /\ UNCHANGED party_db

(* Mutant: who joined a party that is unknown here goes on waiting *)
party_member_added_known(s) ==
  /\ Told(s, "added")
  /\ LET m == Head(toMap[s])
         c == m.who
     IN  IF Here(s, c) /\ player[c].joining /\ Copy(s, m.party) # None
         THEN /\ player' = [player EXCEPT ![c].joining = FALSE, ![c].invite = 0,
                              ![c].party_id = IF m.flag THEN @ ELSE m.party]
              /\ Handled(s, <<>>)
         ELSE /\ Handled(s, Abandoned(m.party, c, ~m.flag))
              /\ UNCHANGED player
  /\ UNCHANGED party_db

party_member_added(s) ==
  /\ Told(s, "added")
  /\ LET m == Head(toMap[s])
         c == m.who
         known == Copy(s, m.party) # None
     IN  IF Here(s, c) /\ player[c].joining
         THEN /\ player' = [player EXCEPT ![c].joining = FALSE, ![c].invite = 0,
                              ![c].party_id = IF known /\ ~m.flag THEN m.party ELSE @]
              /\ Handled(s, IF known THEN <<>> ELSE <<Leave(m.party, c)>>)
         ELSE /\ Handled(s, Abandoned(m.party, c, ~m.flag))
              /\ UNCHANGED player
  /\ UNCHANGED party_db

(* party_sd_check for each of `members`: who is here and in no party is in *)
(* this one, who is in another one leaves it.                              *)
Belongs(pl, s, p, members) ==
  {c \in members : pl[c].at = s /\ pl[c].state # "auth" /\ pl[c].party_id \in {0, p}}
Astray(pl, s, p, members) ==
  {c \in members : pl[c].at = s /\ pl[c].state # "auth" /\ pl[c].party_id \notin {0, p}}
InParty(pl, p, members) ==
  [c \in Chars |-> IF c \in members THEN [pl[c] EXCEPT !.party_id = p] ELSE pl[c]]
OutOf(pl, p, members) ==
  [c \in Chars |-> IF c \in members /\ pl[c].party_id = p
                   THEN [pl[c] EXCEPT !.party_id = 0] ELSE pl[c]]

party_recv_info(s) ==
  /\ Told(s, "info")
  /\ LET m == Head(toMap[s])
         p == m.party
         members == DOMAIN m.member
         removed == IF Copy(s, p) = None THEN {} ELSE Copy(s, p).data \ members
         left == OutOf(player, p, removed)
         sds == Belongs(left, s, p, members)
         checked == InParty(left, p, sds)
         astray == SetToSeq(Astray(left, s, p, members))
     IN  /\ party_db' = [party_db EXCEPT ![s][p] = [member |-> m.member, exp |-> m.exp, data |-> sds]]
         /\ player' = IF m.who = None \/ m.who \in members \/ ~Here(s, m.who) THEN checked
                      ELSE OutOf(checked, p, {m.who})
         /\ Handled(s, [i \in DOMAIN astray |-> Leave(p, astray[i])])

(* party_broken: whoever is linked to the party has none.                  *)
Disbanded(pl, s, p) ==
  [c \in Chars |-> IF Copy(s, p) # None /\ c \in Copy(s, p).data
                   THEN [pl[c] EXCEPT !.party_id = 0] ELSE pl[c]]
party_broken(s) ==
  /\ Told(s, "broken")
  /\ LET p == Head(toMap[s]).party
     IN  /\ player' = Disbanded(player, s, p)
         /\ party_db' = [party_db EXCEPT ![s][p] = None]
  /\ Handled(s, <<>>)

party_recv_noinfo(s) ==
  /\ Told(s, "noinfo")
  /\ LET m == Head(toMap[s])
         pl == Disbanded(player, s, m.party)
     IN  /\ player' = IF Here(s, m.who) THEN OutOf(pl, m.party, {m.who}) ELSE pl
         /\ party_db' = [party_db EXCEPT ![s][m.party] = None]
  /\ Handled(s, <<>>)

(* A player whose party the map-server does not know is withdrawn from it: *)
(* p->instance_id is read through a null pointer.                          *)
Unknown(s, m) == Copy(s, m.party) = None /\ Here(s, m.who) /\ player[m.who].party_id = m.party

Forgotten(C, c) == [C EXCEPT !.member = [d \in DOMAIN C.member \ {c} |-> C.member[d]],
                             !.data = @ \ {c}]

party_member_withdraw(s) ==
  /\ Told(s, "withdraw")
  /\ LET m == Head(toMap[s])
         p == m.party
     IN  /\ ~Unknown(s, m)
         /\ party_db' = [party_db EXCEPT ![s][p] = IF @ = None THEN @ ELSE Forgotten(@, m.who)]
         /\ player' = IF Here(s, m.who) THEN OutOf(player, p, {m.who}) ELSE player
  /\ Handled(s, <<>>)

(* The map-server is gone, with its players, and starts again.             *)
Crash(s) ==
  /\ Told(s, "withdraw") /\ Unknown(s, Head(toMap[s]))
  /\ player' = [c \in Chars |-> IF player[c].at = s THEN Away ELSE player[c]]
  /\ party_db' = [party_db EXCEPT ![s] = [p \in Ids |-> None]]
  /\ toMap' = [toMap EXCEPT ![s] = <<>>]
  /\ toChar' = [toChar EXCEPT ![s] = <<>>]
  /\ UNCHANGED <<charVars, level, asked>>

party_optionchanged(s) ==
  /\ Told(s, "option")
  /\ LET m == Head(toMap[s])
     IN  party_db' = [party_db EXCEPT ![s][m.party] =
                        IF @ = None \/ m.denied THEN @ ELSE [@ EXCEPT !.exp = m.exp]]
  /\ Handled(s, <<>>)
  /\ UNCHANGED player

Retold(C, m, sds) ==
  [C EXCEPT !.member[m.who].online = m.online, !.member[m.who].lv = m.lv,
            !.data = (@ \ {m.who}) \cup sds]

party_recv_movemap(s) ==
  /\ Told(s, "moved")
  /\ LET m == Head(toMap[s])
         p == m.party
         c == m.who
         sds == Belongs(player, s, p, {c})
     IN  IF Copy(s, p) = None \/ c \notin DOMAIN Copy(s, p).member
         THEN Handled(s, <<>>) /\ UNCHANGED <<party_db, player>>
         ELSE /\ party_db' = [party_db EXCEPT ![s][p] = Retold(@, m, sds)]
              /\ player' = InParty(player, p, sds)
              /\ Handled(s, IF Astray(player, s, p, {c}) = {} THEN <<>> ELSE <<Leave(p, c)>>)

-----------------------------------------------------------------------------
(* What players do, each on its own map-server.                            *)
Asks(c, what) ==
  /\ what \in Asked /\ asked < Bound
  /\ player[c].state = "map"
  /\ asked' = asked + 1
Request(s, packets) ==
  /\ toChar' = [toChar EXCEPT ![s] = @ \o packets]
  /\ UNCHANGED <<charVars, toMap>>
Mine(c) == IF player[c].party_id = 0 THEN None ELSE Copy(player[c].at, player[c].party_id)
Leads(c) == /\ Mine(c) # None
            /\ c \in DOMAIN Mine(c).member
            /\ Mine(c).member[c].leader

(* In no party and not about to be in one. *)
Free(c) == player[c].party_id = 0 /\ ~player[c].joining /\ ~player[c].creating

(* The map has loaded: the party is told.                                  *)
clif_parse_LoadEndAck(c) ==
  /\ player[c].state = "reg"
  /\ player' = [player EXCEPT ![c].state = "map"]
  /\ Request(player[c].at, IF player[c].party_id = 0 THEN <<>> ELSE <<ChangeMap(c, TRUE)>>)
  /\ UNCHANGED <<party_db, level, asked>>

(* The client confirms that it plays (0447); only then the player is       *)
(* matched with its party, which is asked for if it is not known.          *)
party_member_joined(c) ==
  LET s == player[c].at
      p == player[c].party_id
  IN  /\ player[c].state = "map" /\ ~player[c].told
      /\ player' = [player EXCEPT ![c].told = TRUE,
                      ![c].party_id = IF Mine(c) # None /\ c \notin DOMAIN Mine(c).member
                                      THEN 0 ELSE @]
      /\ party_db' = IF Mine(c) # None /\ c \in DOMAIN Mine(c).member
                     THEN [party_db EXCEPT ![s][p].data = @ \cup {c}] ELSE party_db
      /\ Request(s, IF p # 0 /\ Mine(c) = None
                    THEN <<[kind |-> "info", party |-> p, who |-> c]>> ELSE <<>>)
      /\ UNCHANGED <<level, asked>>

party_create(c) ==
  /\ Asks(c, "create")
  /\ Free(c)
  /\ player' = [player EXCEPT ![c].creating = TRUE]
  /\ Request(player[c].at, <<[kind |-> "create", who |-> c, as |-> Filled(c, TRUE)]>>)
  /\ UNCHANGED <<party_db, level>>

party_invite(c, t) ==
  LET s == player[c].at
      P == Mine(c)
  IN  /\ Asks(c, "invite")
      /\ P # None /\ c \in P.data /\ Leads(c)
      /\ Cardinality(DOMAIN P.member) < MAX_PARTY
      /\ Here(s, t) /\ t \notin DOMAIN P.member
      /\ player[t].party_id = 0 /\ player[t].invite = 0
      /\ player' = [player EXCEPT ![t].invite = player[c].party_id]
      /\ UNCHANGED <<charVars, party_db, level, toChar, toMap>>

party_reply_invite(c, accepts) ==
  LET joins == accepts /\ Free(c)
  IN  /\ player[c].state = "map" /\ player[c].invite # 0
      /\ player' = IF joins THEN [player EXCEPT ![c].joining = TRUE]
                   ELSE [player EXCEPT ![c].invite = 0]
      /\ Request(player[c].at, IF joins THEN <<[kind |-> "join", party |-> player[c].invite,
                                                who |-> c, as |-> Filled(c, FALSE)]>>
                               ELSE <<>>)
      /\ UNCHANGED <<party_db, level, asked>>

party_leave(c) ==
  /\ Asks(c, "leave")
  /\ Mine(c) # None /\ c \in DOMAIN Mine(c).member
  /\ Request(player[c].at, <<Leave(player[c].party_id, c)>>)
  /\ UNCHANGED mapVars

party_removemember(c, t) ==
  /\ Asks(c, "expel")
  /\ Leads(c) /\ t \in DOMAIN Mine(c).member \ {c}
  /\ Request(player[c].at, <<Leave(player[c].party_id, t)>>)
  /\ UNCHANGED mapVars

party_changeleader(c, t) ==
  LET s == player[c].at
      p == player[c].party_id
  IN  /\ Asks(c, "leader")
      /\ Leads(c) /\ t # c /\ {c, t} \subseteq Mine(c).data /\ player[t].party_id = p
      /\ party_db' = [party_db EXCEPT ![s][p].member[c].leader = FALSE,
                                      ![s][p].member[t].leader = TRUE]
      /\ Request(s, <<[kind |-> "leader", party |-> p, who |-> t]>>)
      /\ UNCHANGED <<player, level>>

party_changeoption(c, exp) ==
  /\ Asks(c, "option")
  /\ Leads(c) /\ c \in Mine(c).data
  /\ Request(player[c].at, <<[kind |-> "option", party |-> player[c].party_id, exp |-> exp]>>)
  /\ UNCHANGED mapVars

(* Levels rise with experience; @baselevel and scripts may also take some  *)
(* back, and pc_resetlvl all but one.                                      *)
party_send_levelup(c, n) ==
  /\ Asks(c, "level")
  /\ level[c] + n \in 1 .. TopLevel
  /\ level' = [level EXCEPT ![c] = @ + n]
  /\ LET lv == level[c] + n
     IN  Request(player[c].at, IF player[c].party_id = 0 THEN <<>>
                               ELSE <<[ChangeMap(c, TRUE) EXCEPT !.lv = lv]>>)
  /\ UNCHANGED <<party_db, player>>

(* Mutant: the copy keeps its pointer to a player who logs out *)
UnlinkedNot(c) == party_db

(* party_send_logout: the copy forgets the player. *)
Unlinked(c) == IF Mine(c) = None THEN party_db
               ELSE [party_db EXCEPT ![player[c].at][player[c].party_id].data = @ \ {c}]

(* A final save, then the party is told (party_send_logout).               *)
map_quit(c) ==
  LET s == player[c].at
      p == player[c].party_id
  IN  /\ "quit" \in Asked /\ asked < Bound
      /\ player[c].state \in {"reg", "map"}
      /\ asked' = asked + 1
      /\ player' = [player EXCEPT ![c] = Away]
      /\ party_db' = Unlinked(c)
      /\ Request(s, <<Save(c, TRUE)>> \o IF p = 0 THEN <<>> ELSE <<ChangeMap(c, FALSE)>>)
      /\ UNCHANGED level

pc_autosave(c) ==
  /\ Asks(c, "save")
  /\ Request(player[c].at, <<Save(c, FALSE)>>)
  /\ UNCHANGED mapVars

-----------------------------------------------------------------------------
CharServer(s) ==
  \/ CreateParty(s) \/ PartyInfo(s) \/ PartyAddMember(s) \/ PartyChangeOption(s)
  \/ PartyLeave(s) \/ PartyChangeMap(s) \/ PartyLeaderChange(s)
  \/ char_mmo_char_tosql(s) \/ RegistryRequest(s)
MapServer(s) ==
  \/ auth_ok(s) \/ pc_reg_received(s) \/ party_created(s) \/ party_member_added(s)
  \/ party_recv_info(s) \/ party_recv_noinfo(s) \/ party_broken(s)
  \/ party_member_withdraw(s) \/ Crash(s)
  \/ party_optionchanged(s) \/ party_recv_movemap(s)
Client(c) ==
  \/ \E s \in Servers : chmapif_parse_reqauth(c, s)
  \/ clif_parse_LoadEndAck(c) \/ party_member_joined(c)
  \/ party_create(c) \/ party_leave(c) \/ map_quit(c) \/ pc_autosave(c)
  \/ \E accepts \in BOOLEAN : party_reply_invite(c, accepts)
  \/ \E exp \in BOOLEAN : party_changeoption(c, exp)
  \/ \E n \in Leap : party_send_levelup(c, n)
  \/ \E t \in Chars : party_invite(c, t) \/ party_removemember(c, t) \/ party_changeleader(c, t)

Next == \/ \E s \in Servers : CharServer(s) \/ MapServer(s)
        \/ \E c \in Chars : Client(c)
Spec == Init /\ [][Next]_vars

-----------------------------------------------------------------------------
Quiet == \A s \in Servers : toChar[s] = <<>> /\ toMap[s] = <<>>
Playing(c) == player[c].state = "map" /\ player[c].told

(* When all messages are handled, nobody waits for the answer of the       *)
(* char-server: a player who founds a party or joins one may do neither    *)
(* again before it is answered, and it is, whatever became of the party    *)
(* and of the map-servers meanwhile.                                       *)
NobodyWaits ==
  Quiet => \A c \in Chars : ~player[c].creating /\ ~player[c].joining

(* When all messages are handled, nobody is in two parties, and a player   *)
(* whose client has confirmed is in the party the char-server has it in.   *)
PlayersAgree ==
  Quiet => \A c \in Chars :
    /\ Cardinality({p \in Ids : Known(p) /\ c \in DOMAIN party_db_[p].member}) <= 1
    /\ Playing(c) => \A p \in Ids :
         player[c].party_id = p <=> Known(p) /\ c \in DOMAIN party_db_[p].member

(* When all messages are handled, the copies show the char-server's        *)
(* members, who of them is in the game, and the sharing of experience.     *)
CopiesAgree ==
  Quiet => \A s \in Servers, p \in Ids :
    Copy(s, p) # None =>
      /\ Known(p)
      /\ Copy(s, p).exp = party_db_[p].exp
      /\ DOMAIN Copy(s, p).member = DOMAIN party_db_[p].member
      /\ \A c \in DOMAIN Copy(s, p).member :
           Copy(s, p).member[c].online = party_db_[p].member[c].online

(* c will leave party p, as map-server s sees it: it was let in after it   *)
(* had logged off, and the answer will find nobody, or somebody asked for  *)
(* it, or the map-server is about to hear.                                 *)
Leaving(c, p, s) ==
  \/ \E t \in Servers :
       \/ \E i \in DOMAIN toMap[t] : toMap[t][i] = Added(p, c, FALSE)
       \/ \E i \in DOMAIN toChar[t] : toChar[t][i] = Leave(p, c)
  \/ \E i \in DOMAIN toMap[s] : toMap[s][i] = Withdraw(p, c)

(* A copy points to nobody who has left the map-server, and to nobody who  *)
(* is in another party or none, unless the player is about to leave.  A    *)
(* player that was let in and has founded another party may log off first: *)
(* party_send_logout clears the pointer of its new party only, and the     *)
(* other is left without a player until the map-server hears.              *)
PointersHold ==
  \A s \in Servers, p \in Ids : Copy(s, p) # None =>
    \A c \in Copy(s, p).data : \/ Here(s, c) /\ player[c].party_id = p
                               \/ Leaving(c, p, s)

(* The char-server counts the members in the game right, even share never  *)
(* outlives the range it keeps, and that range always has members in the   *)
(* game at both ends, whoever came, went, rose or fell: a border left      *)
(* behind by a member that has gone would never be worked out again.       *)
(* Members outside the range are another matter (EvenShare).               *)
SharingKept ==
  \A p \in Ids : Known(p) =>
    LET P == party_db_[p]
    IN  /\ P.count = Cardinality(Online(P))
        /\ P.exp => party_check_exp_share(P)
        /\ Levels(P) # {} => {P.min_lv, P.max_lv} \subseteq Levels(P) /\ P.min_lv <= P.max_lv

(* "Updates party's level range and unsets even share if broken" (comment  *)
(* in int_party.cpp): experience is shared evenly only by members whose    *)
(* levels are at most party_share_level apart.                             *)
EvenShare ==
  \A p \in Ids : Known(p) /\ party_db_[p].exp /\ party_db_[p].count > 1 =>
    Max(Levels(party_db_[p])) - Min(Levels(party_db_[p])) <= party_share_level
=============================================================================
