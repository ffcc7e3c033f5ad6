------------------------- MODULE LoginSystem_proofs -------------------------
(* Theorems about the login-server under any char-servers and clients. *)
EXTENDS LoginSystem, SequenceTheorems, TLAPS

-----------------------------------------------------------------------------
(* The actions of the login-server keep its state well typed, whoever else *)
(* uses its links.                                                         *)
LoginTypes == LoginTypeOK /\ LinkLoginTypeOK

USE DEF login_add_auth_node, login_remove_auth_node

(* The online-table operators keep the table well typed. *)
LEMMA OnlineTableType ==
  ASSUME LoginTypes, NEW a \in Accounts, NEW s \in Places
  PROVE  /\ login_add_online_user(a, s) =>
              /\ login_online_db' \in [Accounts -> Places]
              /\ login_timer' \in [Accounts -> BOOLEAN]
         /\ login_remove_online_user(a) =>
              /\ login_online_db' \in [Accounts -> Places]
              /\ login_timer' \in [Accounts -> BOOLEAN]
  BY DEF LoginTypes, LoginTypeOK, login_add_online_user, login_remove_online_user, Places

(* Consuming the head of a link leaves a well typed link and yields a      *)
(* well typed packet of the wanted type.                                   *)
LEMMA ReceiveType ==
  ASSUME LoginTypes, NEW s \in CharServers, NEW t, LoginReceives(s, t)
  PROVE  /\ toLogin' \in [CharServers -> Seq(ToLoginMsg)]
         /\ Head(toLogin[s]) \in ToLoginMsg
         /\ Head(toLogin[s]).type = t
         /\ Head(toLogin[s]).account \in Accounts
         /\ t = "reqauth" => /\ Head(toLogin[s]).id \in Ids
                             /\ Head(toLogin[s]).fd \in Clients
  <1>1. toLogin[s] \in Seq(ToLoginMsg) /\ toLogin[s] # << >>
    BY DEF LoginTypes, LinkLoginTypeOK, LoginReceives
  <1>2. Head(toLogin[s]) \in ToLoginMsg /\ Tail(toLogin[s]) \in Seq(ToLoginMsg)
    BY <1>1
  <1>3. toLogin' \in [CharServers -> Seq(ToLoginMsg)]
    BY <1>2 DEF LoginTypes, LinkLoginTypeOK, LoginReceives
  <1>4. Head(toLogin[s]).type = t
    BY DEF LoginReceives
  <1> QED BY <1>2, <1>3, <1>4 DEF ToLoginMsg

(* A client logs in. *)
LEMMA ClientTypes ==
  ASSUME LoginTypes, NEW a \in Accounts, logclif_auth_ok(a)
  PROVE  LoginTypes'
  <1> USE MaxIdAssumption
  <1>1. ASSUME AuthRefused(a) PROVE LoginTypes'
    <2>1. AskKick(a) \in FromLoginMsg
      BY DEF AskKick, FromLoginMsg
    <2>2. fromLogin' \in [CharServers -> Seq(FromLoginMsg)]
      BY <1>1, <2>1 DEF AuthRefused, LoginTypes, LinkLoginTypeOK
    <2> QED BY <1>1, <2>2 DEF AuthRefused, LoginTypes, LoginTypeOK, LinkLoginTypeOK
  <1>2. ASSUME AuthAccepted(a) PROVE LoginTypes'
    BY <1>2 DEF AuthAccepted, LoginTypes, LoginTypeOK, LinkLoginTypeOK, linkLoginVars,
       Ids, Places
  <1> QED BY <1>1, <1>2 DEF logclif_auth_ok

(* A timer runs out. *)
LEMMA TimerTypes ==
  ASSUME LoginTypes, NEW a \in Accounts, login_waiting_disconnect_timer(a)
  PROVE  LoginTypes'
  BY OnlineTableType DEF login_waiting_disconnect_timer, LoginTypes,
     LoginTypeOK, LinkLoginTypeOK, linkLoginVars, Places

(* A packet of a char-server is handled. *)
LEMMA PacketTypes ==
  ASSUME LoginTypes, NEW s \in CharServers, logchrif_parse(s)
  PROVE  LoginTypes'
  <1>1. ASSUME logchrif_parse_reqauth(s) PROVE LoginTypes'
    <2> DEFINE m == Head(toLogin[s])
               ans == AckAccReq(m.account, m.id, m.fd, TicketMatches(m))
    <2>1. LoginReceives(s, "reqauth")
      BY <1>1 DEF logchrif_parse_reqauth
    <2>2. /\ toLogin' \in [CharServers -> Seq(ToLoginMsg)]
          /\ m.account \in Accounts /\ m.id \in Ids /\ m.fd \in Clients
      BY <2>1, ReceiveType
    <2>3. ans \in FromLoginMsg
      BY <2>2 DEF AckAccReq, FromLoginMsg, TicketMatches
    <2> HIDE DEF ans
    <2>4. fromLogin' = [fromLogin EXCEPT ![s] = Append(@, ans)]
      BY <1>1 DEF logchrif_parse_reqauth, ans
    <2>5. fromLogin' \in [CharServers -> Seq(FromLoginMsg)]
      BY <2>3, <2>4 DEF LoginTypes, LinkLoginTypeOK
    <2> HIDE DEF m
    <2>6. /\ login_auth_db' \in [Accounts -> Ids \cup {NoId}]
          /\ acks' \in [Ids -> Nat]
      <3>1. acks[m.id] + 1 \in Nat
        BY <2>2 DEF LoginTypes, LoginTypeOK
      <3>2. CASE TicketMatches(m)
        <4>1. /\ login_auth_db' = [login_auth_db EXCEPT ![m.account] = NoId]
              /\ acks' = [acks EXCEPT ![m.id] = @ + 1]
          BY <1>1, <3>2 DEF logchrif_parse_reqauth, m
        <4> QED BY <4>1, <3>1 DEF LoginTypes, LoginTypeOK
      <3>3. CASE ~TicketMatches(m)
        <4>1. UNCHANGED <<login_auth_db, acks>>
          BY <1>1, <3>3 DEF logchrif_parse_reqauth, m
        <4> QED BY <4>1 DEF LoginTypes, LoginTypeOK
      <3> QED BY <3>2, <3>3
    <2> QED BY <1>1, <2>2, <2>5, <2>6 DEF logchrif_parse_reqauth, LoginTypes,
               LoginTypeOK, LinkLoginTypeOK
  <1>2. ASSUME logchrif_parse_setacconline(s) PROVE LoginTypes'
    <2>1. LoginReceives(s, "setacconline") /\ s \in Places
      BY <1>2 DEF logchrif_parse_setacconline, Places
    <2>2. /\ toLogin' \in [CharServers -> Seq(ToLoginMsg)]
          /\ Head(toLogin[s]).account \in Accounts
      BY <2>1, ReceiveType
    <2>3. /\ login_online_db' \in [Accounts -> Places]
          /\ login_timer' \in [Accounts -> BOOLEAN]
      BY <1>2, <2>1, <2>2, OnlineTableType DEF logchrif_parse_setacconline
    <2> QED BY <1>2, <2>2, <2>3 DEF logchrif_parse_setacconline, LoginTypes,
               LoginTypeOK, LinkLoginTypeOK
  <1>3. ASSUME logchrif_parse_setaccoffline(s) PROVE LoginTypes'
    <2>1. LoginReceives(s, "setaccoffline") /\ s \in Places
      BY <1>3 DEF logchrif_parse_setaccoffline, Places
    <2>2. /\ toLogin' \in [CharServers -> Seq(ToLoginMsg)]
          /\ Head(toLogin[s]).account \in Accounts
      BY <2>1, ReceiveType
    <2>3. /\ login_online_db' \in [Accounts -> Places]
          /\ login_timer' \in [Accounts -> BOOLEAN]
      BY <1>3, <2>1, <2>2, OnlineTableType DEF logchrif_parse_setaccoffline
    <2> QED BY <1>3, <2>2, <2>3 DEF logchrif_parse_setaccoffline, LoginTypes,
               LoginTypeOK, LinkLoginTypeOK
  <1> QED BY <1>1, <1>2, <1>3 DEF logchrif_parse

-----------------------------------------------------------------------------
(* Every variable keeps its type in every reachable state. *)
THEOREM TypeCorrect == Spec => []TypeOK
  <1>1. Init => TypeOK
    BY MaxIdAssumption DEF Init, LoginInit, LinkLoginInit, TypeOK, LoginTypeOK,
       LinkLoginTypeOK, Ids, NoId, Places
  <1>2. TypeOK /\ [Next]_vars => TypeOK'
    <2> SUFFICES ASSUME TypeOK, [Next]_vars PROVE TypeOK'
      OBVIOUS
    <2> USE DEF LoginTypes
    <2>1. ASSUME NEW a \in Accounts, logclif_auth_ok(a) PROVE TypeOK'
      BY <2>1, ClientTypes DEF TypeOK
    <2>2. ASSUME NEW a \in Accounts, login_waiting_disconnect_timer(a) PROVE TypeOK'
      BY <2>2, TimerTypes DEF TypeOK
    <2>3. ASSUME NEW s \in CharServers, logclif_parse_reqcharconnec(s) PROVE TypeOK'
      BY <2>3 DEF logclif_parse_reqcharconnec, TypeOK, LoginTypeOK,
         LinkLoginTypeOK, linkLoginVars
    <2>4. ASSUME NEW s \in CharServers, logchrif_parse(s) PROVE TypeOK'
      BY <2>4, PacketTypes DEF TypeOK
    <2>5. ASSUME NEW s \in CharServers, logchrif_on_disconnect(s) PROVE TypeOK'
      <3>1. << >> \in Seq(ToLoginMsg) /\ << >> \in Seq(FromLoginMsg)
        OBVIOUS
      <3> QED BY <2>5, <3>1 DEF logchrif_on_disconnect, login_online_db_setoffline,
                 TypeOK, LoginTypeOK, LinkLoginTypeOK
    <2>6. ASSUME NEW s \in CharServers, CharServerSteps(s) PROVE TypeOK'
      <3>1. fromLogin' \in [CharServers -> Seq(FromLoginMsg)]
        <4>1. CASE UNCHANGED fromLogin
          BY <4>1 DEF TypeOK, LinkLoginTypeOK
        <4>2. CASE /\ fromLogin[s] # <<>>
                   /\ fromLogin' = [fromLogin EXCEPT ![s] = Tail(@)]
          <5>1. Tail(fromLogin[s]) \in Seq(FromLoginMsg)
            BY <4>2 DEF TypeOK, LinkLoginTypeOK
          <5> QED BY <4>2, <5>1 DEF TypeOK, LinkLoginTypeOK
        <4> QED BY <2>6, <4>1, <4>2 DEF CharServerSteps
      <3>2. toLogin' \in [CharServers -> Seq(ToLoginMsg)]
        <4>1. CASE UNCHANGED toLogin
          BY <4>1 DEF TypeOK, LinkLoginTypeOK
        <4>2. ASSUME NEW m \in ToLoginMsg, toLogin' = [toLogin EXCEPT ![s] = Append(@, m)]
              PROVE  toLogin' \in [CharServers -> Seq(ToLoginMsg)]
          BY <4>2 DEF TypeOK, LinkLoginTypeOK
        <4> QED BY <2>6, <4>1, <4>2 DEF CharServerSteps
      <3> QED BY <2>6, <3>1, <3>2 DEF CharServerSteps, TypeOK, LoginTypeOK,
                 LinkLoginTypeOK, loginVars
    <2>7. CASE UNCHANGED vars
      BY <2>7 DEF vars, loginVars, linkLoginVars, TypeOK, LoginTypeOK, LinkLoginTypeOK
    <2> QED BY <2>1, <2>2, <2>3, <2>4, <2>5, <2>6, <2>7 DEF Next
  <1> QED BY <1>1, <1>2, PTL DEF Spec

-----------------------------------------------------------------------------
(* The inductive invariant behind single use. *)
TicketInv == TypeOK /\ OpenTicketFresh /\ TicketUsedOnce

(* Only three actions touch tickets. *)
TicketsUnchanged == UNCHANGED <<login_auth_db, next_id, acks>>

(* A step issues a ticket to an account, accepts the open ticket of an     *)
(* account, throws the ticket of an account away, or touches no ticket.    *)
LEMMA TicketSteps ==
  ASSUME TypeOK, [Next]_vars
  PROVE  \/ \E a \in Accounts : AuthAccepted(a)
         \/ \E a \in Accounts, i \in Ids :
              /\ login_auth_db[a] = i
              /\ login_auth_db' = [login_auth_db EXCEPT ![a] = NoId]
              /\ acks' = [acks EXCEPT ![i] = @ + 1]
              /\ next_id' = next_id
         \/ \E a \in Accounts :
              /\ login_auth_db' = [login_auth_db EXCEPT ![a] = NoId]
              /\ UNCHANGED <<next_id, acks>>
         \/ TicketsUnchanged
  <1>1. ASSUME NEW a \in Accounts, logclif_auth_ok(a)
        PROVE  AuthAccepted(a) \/ TicketsUnchanged
    BY <1>1 DEF logclif_auth_ok, AuthRefused, TicketsUnchanged
  <1>2. ASSUME NEW a \in Accounts, login_waiting_disconnect_timer(a)
        PROVE  /\ login_auth_db' = [login_auth_db EXCEPT ![a] = NoId]
               /\ UNCHANGED <<next_id, acks>>
    BY <1>2 DEF login_waiting_disconnect_timer
  <1>3. ASSUME NEW s \in CharServers, logchrif_parse_reqauth(s)
        PROVE  \/ \E a \in Accounts, i \in Ids :
                    /\ login_auth_db[a] = i
                    /\ login_auth_db' = [login_auth_db EXCEPT ![a] = NoId]
                    /\ acks' = [acks EXCEPT ![i] = @ + 1]
                    /\ next_id' = next_id
               \/ TicketsUnchanged
    <2> DEFINE m == Head(toLogin[s])
    <2>1. m.account \in Accounts /\ m.id \in Ids
      BY <1>3, ReceiveType DEF TypeOK, LoginTypes, logchrif_parse_reqauth
    <2>2. CASE TicketMatches(m)
      <3>1. /\ login_auth_db[m.account] = m.id
            /\ login_auth_db' = [login_auth_db EXCEPT ![m.account] = NoId]
            /\ acks' = [acks EXCEPT ![m.id] = @ + 1]
            /\ next_id' = next_id
        BY <1>3, <2>2 DEF logchrif_parse_reqauth, TicketMatches
      <3> QED BY <2>1, <3>1
    <2>3. CASE ~TicketMatches(m)
      BY <1>3, <2>3 DEF logchrif_parse_reqauth, TicketsUnchanged
    <2> QED BY <2>2, <2>3
  <1>4. ASSUME NEW s \in CharServers,
               \/ logclif_parse_reqcharconnec(s)
               \/ logchrif_parse_setacconline(s)
               \/ logchrif_parse_setaccoffline(s)
               \/ logchrif_on_disconnect(s)
               \/ CharServerSteps(s)
        PROVE  TicketsUnchanged
    BY <1>4 DEF logclif_parse_reqcharconnec, logchrif_parse_setacconline,
       logchrif_parse_setaccoffline, logchrif_on_disconnect, CharServerSteps,
       loginVars, TicketsUnchanged
  <1>5. CASE UNCHANGED vars
    BY <1>5 DEF vars, loginVars, TicketsUnchanged
  <1> QED BY <1>1, <1>2, <1>3, <1>4, <1>5 DEF Next, logchrif_parse

(* It holds at the start and every step keeps it. *)
LEMMA TicketInvInductive ==
  /\ Init => TicketInv
  /\ TicketInv /\ [Next]_vars /\ TypeOK' => TicketInv'
  <1> USE MaxIdAssumption DEF Ids, NoId
  <1>1. Init => TypeOK
    BY DEF Init, LoginInit, LinkLoginInit, TypeOK, LoginTypeOK, LinkLoginTypeOK, Places
  <1>2. Init => OpenTicketFresh /\ TicketUsedOnce
    BY DEF Init, LoginInit, OpenTicketFresh, TicketUsedOnce
  <1>3. ASSUME TicketInv, [Next]_vars, TypeOK' PROVE OpenTicketFresh' /\ TicketUsedOnce'
    <2>1. /\ login_auth_db \in [Accounts -> 0 .. MaxId]
          /\ next_id \in 1 .. MaxId + 1
          /\ acks \in [1 .. MaxId -> Nat]
      <3>1. Ids \cup {NoId} = 0 .. MaxId
        OBVIOUS
      <3> QED BY <1>3, <3>1 DEF TicketInv, TypeOK, LoginTypeOK
    <2>2. ASSUME NEW a \in Accounts, AuthAccepted(a)
          PROVE  OpenTicketFresh' /\ TicketUsedOnce'
      <3>1. /\ login_auth_db' = [login_auth_db EXCEPT ![a] = next_id]
            /\ next_id' = next_id + 1
            /\ acks' = acks
            /\ next_id \in 1 .. MaxId
        BY <2>2 DEF AuthAccepted
      <3> QED BY <1>3, <2>1, <3>1 DEF TicketInv, OpenTicketFresh, TicketUsedOnce
    <2>3. ASSUME NEW a \in Accounts, NEW i \in Ids,
                 login_auth_db[a] = i,
                 login_auth_db' = [login_auth_db EXCEPT ![a] = NoId],
                 acks' = [acks EXCEPT ![i] = @ + 1],
                 next_id' = next_id
          PROVE  OpenTicketFresh' /\ TicketUsedOnce'
      <3>1. i < next_id /\ acks[i] = 0
        BY <1>3, <2>3, <2>1 DEF TicketInv, OpenTicketFresh
      <3>2. TicketUsedOnce'
        BY <1>3, <2>3, <2>1, <3>1 DEF TicketInv, TicketUsedOnce
      <3>3. \A b \in Accounts : login_auth_db'[b] # NoId =>
              b # a /\ login_auth_db'[b] = login_auth_db[b] /\ login_auth_db[b] # i
        BY <1>3, <2>3, <2>1 DEF TicketInv, OpenTicketFresh
      <3>4. \A j \in Ids : j # i => acks'[j] = acks[j]
        BY <2>3, <2>1
      <3> QED BY <1>3, <2>3, <2>1, <3>1, <3>2, <3>3, <3>4 DEF TicketInv, OpenTicketFresh
    <2>4. ASSUME NEW a \in Accounts,
                 login_auth_db' = [login_auth_db EXCEPT ![a] = NoId],
                 UNCHANGED <<next_id, acks>>
          PROVE  OpenTicketFresh' /\ TicketUsedOnce'
      BY <1>3, <2>1, <2>4 DEF TicketInv, OpenTicketFresh, TicketUsedOnce
    <2>5. CASE TicketsUnchanged
      BY <1>3, <2>5 DEF TicketInv, OpenTicketFresh, TicketUsedOnce, TicketsUnchanged
    <2> QED BY <1>3, <2>2, <2>3, <2>4, <2>5, TicketSteps DEF TicketInv
  <1> QED BY <1>1, <1>2, <1>3 DEF TicketInv

(* No ticket is ever accepted twice, and every open ticket is unused. *)
THEOREM TicketSafety == Spec => [](TicketUsedOnce /\ OpenTicketFresh)
  <1>1. TicketInv /\ TypeOK' /\ [Next]_vars => TicketInv'
    BY TicketInvInductive
  <1>2. Init => TicketInv
    BY TicketInvInductive
  <1>3. TicketInv => TicketUsedOnce /\ OpenTicketFresh
    BY DEF TicketInv
  <1> QED BY <1>1, <1>2, <1>3, TypeCorrect, PTL DEF Spec

-----------------------------------------------------------------------------
(* Deadlines and entries belong together, whatever char-servers send.      *)
THEOREM DeadlineSafety == Spec => []HalfLoggedInExpires
  <1> DEFINE I == TypeOK /\ HalfLoggedInExpires
  <1> USE ServersAssumption DEF AtLogin, Absent
  <1>1. ASSUME Init PROVE HalfLoggedInExpires
    <2>1. \A a \in Accounts : login_online_db[a] # AtLogin
      <3>1. Absent # AtLogin
        OBVIOUS
      <3> HIDE DEF Absent, AtLogin
      <3> QED BY <1>1, <3>1 DEF Init, LoginInit
    <2>2. \A a \in Accounts : ~login_timer[a]
      BY <1>1, Zenon DEF Init, LoginInit
    <2> QED BY <2>1, <2>2, Zenon DEF HalfLoggedInExpires
  <1>2. ASSUME I, [Next]_vars PROVE HalfLoggedInExpires'
    <2>0. /\ login_online_db \in [Accounts -> Places]
          /\ login_timer \in [Accounts -> BOOLEAN]
          /\ \A s \in CharServers : s \in Nat
      BY <1>2 DEF TypeOK, LoginTypeOK
    <2>1. ASSUME NEW a \in Accounts, AuthRefused(a) PROVE HalfLoggedInExpires'
      BY <1>2, <2>0, <2>1 DEF AuthRefused, HalfLoggedInExpires
    <2>2. ASSUME NEW a \in Accounts, AuthAccepted(a) PROVE HalfLoggedInExpires'
      BY <1>2, <2>0, <2>2 DEF AuthAccepted, HalfLoggedInExpires
    <2>3. ASSUME NEW a \in Accounts, login_remove_online_user(a)
          PROVE  HalfLoggedInExpires'
      BY <1>2, <2>0, <2>3 DEF login_remove_online_user, HalfLoggedInExpires
    <2>4. ASSUME NEW a \in Accounts, NEW s \in CharServers,
                 login_add_online_user(a, s)
          PROVE  HalfLoggedInExpires'
      <3>1. /\ login_online_db' = [login_online_db EXCEPT ![a] = s]
            /\ login_timer' = [login_timer EXCEPT ![a] = FALSE]
            /\ s # -1
        BY <2>0, <2>4 DEF login_add_online_user
      <3> QED BY <1>2, <2>0, <3>1 DEF HalfLoggedInExpires
    <2>5. CASE UNCHANGED <<login_online_db, login_timer>>
      BY <1>2, <2>5 DEF HalfLoggedInExpires
    <2>6. ASSUME NEW s \in CharServers, logchrif_parse_setacconline(s)
          PROVE  HalfLoggedInExpires'
      <3>1. Head(toLogin[s]).account \in Accounts
        BY <1>2, <2>6, ReceiveType DEF TypeOK, LoginTypes, logchrif_parse_setacconline
      <3> QED BY <2>6, <2>4, <3>1 DEF logchrif_parse_setacconline
    <2>7. ASSUME NEW s \in CharServers, logchrif_parse_setaccoffline(s)
          PROVE  HalfLoggedInExpires'
      <3>1. Head(toLogin[s]).account \in Accounts
        BY <1>2, <2>7, ReceiveType DEF TypeOK, LoginTypes, logchrif_parse_setaccoffline
      <3> QED BY <2>7, <2>3, <3>1 DEF logchrif_parse_setaccoffline
    <2> QED BY <1>2, <2>1, <2>2, <2>3, <2>5, <2>6, <2>7 DEF Next, logclif_auth_ok,
               logchrif_parse, login_waiting_disconnect_timer,
               logclif_parse_reqcharconnec, logchrif_parse_reqauth,
               logchrif_on_disconnect, login_online_db_setoffline,
               CharServerSteps, loginVars, vars
  <1> QED BY <1>1, <1>2, TypeCorrect, PTL DEF Spec

-----------------------------------------------------------------------------
(* The login-server implements the abstract ticket office: every step      *)
(* issues, redeems or voids a ticket, or leaves tickets alone.             *)
THEOREM Refinement == Spec => ImplementsOffice
  <1> DEFINE opened == {<<a, login_auth_db[a]>> :
                          a \in {b \in Accounts : login_auth_db[b] # NoId}}
  <1>1. Init => Office!Init
    <2> SUFFICES ASSUME Init PROVE Office!Init
      OBVIOUS
    <2>1. next_id - 1 = 0 /\ acks = [i \in 1 .. MaxId |-> 0]
      BY DEF Init, LoginInit, Ids
    <2>2. opened = {}
      BY DEF Init, LoginInit
    <2> QED BY <2>1, <2>2 DEF Office!Init
  <1>2. ASSUME TypeOK, OpenTicketFresh, [Next]_vars
        PROVE  [Office!Next]_(Office!officeVars)
    <2> USE <1>2, MaxIdAssumption
    <2>0. /\ login_auth_db \in [Accounts -> Ids \cup {NoId}]
          /\ next_id \in 1 .. MaxId + 1
          /\ NoId \notin Ids
      BY DEF TypeOK, LoginTypeOK, Ids, NoId
    <2>1. ASSUME NEW a \in Accounts, AuthAccepted(a) PROVE Office!Issue(a)
      <3>1. /\ login_auth_db' = [login_auth_db EXCEPT ![a] = next_id]
            /\ next_id' = next_id + 1 /\ acks' = acks /\ next_id \in Ids
        BY <2>1 DEF AuthAccepted
      <3>2. next_id - 1 < MaxId /\ next_id' - 1 = (next_id - 1) + 1
        BY <2>0, <3>1 DEF Ids
      <3>3. opened' = {p \in opened : p[1] # a} \cup {<<a, (next_id - 1) + 1>>}
        <4>1. (next_id - 1) + 1 = next_id
          BY <2>0
        <4>2. opened' = {<<b, login_auth_db'[b]>> :
                           b \in {d \in Accounts : login_auth_db'[d] # NoId}}
          OBVIOUS
        <4> QED BY <2>0, <3>1, <4>1, <4>2
      <3> QED BY <3>1, <3>2, <3>3 DEF Office!Issue
    <2>2. ASSUME NEW a \in Accounts, login_auth_db[a] # NoId,
                 login_auth_db' = [login_auth_db EXCEPT ![a] = NoId]
          PROVE  /\ <<a, login_auth_db[a]>> \in opened
                 /\ opened' = opened \ {<<a, login_auth_db[a]>>}
      <3>1. opened' = {<<b, login_auth_db'[b]>> :
                         b \in {d \in Accounts : login_auth_db'[d] # NoId}}
        OBVIOUS
      <3>2. {d \in Accounts : login_auth_db'[d] # NoId}
              = {d \in Accounts : login_auth_db[d] # NoId} \ {a}
        BY <2>0, <2>2
      <3>3. \A b \in Accounts : b # a => login_auth_db'[b] = login_auth_db[b]
        BY <2>0, <2>2
      <3> QED BY <2>2, <3>1, <3>2, <3>3
    <2>3. ASSUME NEW a \in Accounts, NEW i \in Ids,
                 login_auth_db[a] = i,
                 login_auth_db' = [login_auth_db EXCEPT ![a] = NoId],
                 acks' = [acks EXCEPT ![i] = @ + 1],
                 next_id' = next_id
          PROVE  Office!Redeem(a, i)
      BY <2>0, <2>2, <2>3 DEF Office!Redeem
    <2>4. ASSUME NEW a \in Accounts,
                 login_auth_db' = [login_auth_db EXCEPT ![a] = NoId],
                 UNCHANGED <<next_id, acks>>
          PROVE  (\E i \in Ids : Office!Void(a, i)) \/ UNCHANGED Office!officeVars
      <3>1. CASE login_auth_db[a] = NoId
        <4>1. login_auth_db' = login_auth_db
          BY <2>0, <2>4, <3>1
        <4> QED BY <2>4, <4>1 DEF Office!officeVars
      <3>2. CASE login_auth_db[a] # NoId
        <4>1. PICK i \in Ids : login_auth_db[a] = i
          BY <2>0, <3>2
        <4>2. Office!Void(a, i)
          BY <2>2, <2>4, <3>2, <4>1 DEF Office!Void
        <4> QED BY <4>2
      <3> QED BY <3>1, <3>2
    <2>5. CASE TicketsUnchanged
      BY <2>5 DEF TicketsUnchanged, Office!officeVars
    <2> QED BY <2>1, <2>3, <2>4, <2>5, TicketSteps DEF Office!Next, Ids
  <1> QED BY <1>1, <1>2, TypeCorrect, TicketSafety, PTL DEF Spec, ImplementsOffice, Office!Spec
=============================================================================
