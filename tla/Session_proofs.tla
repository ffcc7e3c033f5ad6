--------------------------- MODULE Session_proofs ---------------------------
(* Theorems about the three servers together. *)
EXTENDS Session, SequenceTheorems, TLAPS

-----------------------------------------------------------------------------
(* The actions of the login-server keep its state well typed, whoever else *)
(* uses its links.                                                         *)
LoginTypes == LoginTypeOK /\ LinkLoginTypeOK

USE DEF login_add_auth_node, login_remove_auth_node

(* The online-table operators keep the table well typed. *)
LEMMA OnlineTableType ==
  ASSUME LoginTypes, NEW a \in Accounts, NEW s \in Places
  PROVE  /\ login_add_online_user(a, s) =>
              /\ login_online_db' \in [Accounts -> Places]
              /\ login_timer' \in [Accounts -> BOOLEAN]
         /\ login_remove_online_user(a) =>
              /\ login_online_db' \in [Accounts -> Places]
              /\ login_timer' \in [Accounts -> BOOLEAN]
  BY DEF LoginTypes, LoginTypeOK, login_add_online_user, login_remove_online_user, Places

(* Consuming the head of a link leaves a well typed link and yields a      *)
(* well typed packet of the wanted type.                                   *)
LEMMA ReceiveType ==
  ASSUME LoginTypes, NEW s \in CharServers, NEW t, LoginReceives(s, t)
  PROVE  /\ toLogin' \in [CharServers -> Seq(ToLoginMsg)]
         /\ Head(toLogin[s]) \in ToLoginMsg
         /\ Head(toLogin[s]).type = t
         /\ Head(toLogin[s]).account \in Accounts
         /\ t = "reqauth" => /\ Head(toLogin[s]).id \in Ids
                             /\ Head(toLogin[s]).fd \in Clients
  <1>1. toLogin[s] \in Seq(ToLoginMsg) /\ toLogin[s] # << >>
    BY DEF LoginTypes, LinkLoginTypeOK, LoginReceives
  <1>2. Head(toLogin[s]) \in ToLoginMsg /\ Tail(toLogin[s]) \in Seq(ToLoginMsg)
    BY <1>1
  <1>3. toLogin' \in [CharServers -> Seq(ToLoginMsg)]
    BY <1>2 DEF LoginTypes, LinkLoginTypeOK, LoginReceives
  <1>4. Head(toLogin[s]).type = t
    BY DEF LoginReceives
  <1> QED BY <1>2, <1>3, <1>4 DEF ToLoginMsg

(* A client logs in. *)
LEMMA ClientTypes ==
  ASSUME LoginTypes, NEW a \in Accounts, logclif_auth_ok(a)
  PROVE  LoginTypes'
  <1> USE MaxIdAssumption
  <1>1. ASSUME AuthRefused(a) PROVE LoginTypes'
    <2>1. AskKick(a) \in FromLoginMsg
      BY DEF AskKick, FromLoginMsg
    <2>2. fromLogin' \in [CharServers -> Seq(FromLoginMsg)]
      BY <1>1, <2>1 DEF AuthRefused, LoginTypes, LinkLoginTypeOK
    <2> QED BY <1>1, <2>2 DEF AuthRefused, LoginTypes, LoginTypeOK, LinkLoginTypeOK
  <1>2. ASSUME AuthAccepted(a) PROVE LoginTypes'
    BY <1>2 DEF AuthAccepted, LoginTypes, LoginTypeOK, LinkLoginTypeOK, linkLoginVars,
       Ids, Places
  <1> QED BY <1>1, <1>2 DEF logclif_auth_ok

(* A timer runs out. *)
LEMMA TimerTypes ==
  ASSUME LoginTypes, NEW a \in Accounts, login_waiting_disconnect_timer(a)
  PROVE  LoginTypes'
  BY OnlineTableType DEF login_waiting_disconnect_timer, LoginTypes,
     LoginTypeOK, LinkLoginTypeOK, linkLoginVars, Places

(* A packet of a char-server is handled. *)
LEMMA PacketTypes ==
  ASSUME LoginTypes, NEW s \in CharServers, logchrif_parse(s)
  PROVE  LoginTypes'
  <1>1. ASSUME logchrif_parse_reqauth(s) PROVE LoginTypes'
    <2> DEFINE m == Head(toLogin[s])
               ans == AckAccReq(m.account, m.id, m.fd, TicketMatches(m))
    <2>1. LoginReceives(s, "reqauth")
      BY <1>1 DEF logchrif_parse_reqauth
    <2>2. /\ toLogin' \in [CharServers -> Seq(ToLoginMsg)]
          /\ m.account \in Accounts /\ m.id \in Ids /\ m.fd \in Clients
      BY <2>1, ReceiveType
    <2>3. ans \in FromLoginMsg
      BY <2>2 DEF AckAccReq, FromLoginMsg, TicketMatches
    <2> HIDE DEF ans
    <2>4. fromLogin' = [fromLogin EXCEPT ![s] = Append(@, ans)]
      BY <1>1 DEF logchrif_parse_reqauth, ans
    <2>5. fromLogin' \in [CharServers -> Seq(FromLoginMsg)]
      BY <2>3, <2>4 DEF LoginTypes, LinkLoginTypeOK
    <2> HIDE DEF m
    <2>6. /\ login_auth_db' \in [Accounts -> Ids \cup {NoId}]
          /\ acks' \in [Ids -> Nat]
      <3>1. acks[m.id] + 1 \in Nat
        BY <2>2 DEF LoginTypes, LoginTypeOK
      <3>2. CASE TicketMatches(m)
        <4>1. /\ login_auth_db' = [login_auth_db EXCEPT ![m.account] = NoId]
              /\ acks' = [acks EXCEPT ![m.id] = @ + 1]
          BY <1>1, <3>2 DEF logchrif_parse_reqauth, m
        <4> QED BY <4>1, <3>1 DEF LoginTypes, LoginTypeOK
      <3>3. CASE ~TicketMatches(m)
        <4>1. UNCHANGED <<login_auth_db, acks>>
          BY <1>1, <3>3 DEF logchrif_parse_reqauth, m
        <4> QED BY <4>1 DEF LoginTypes, LoginTypeOK
      <3> QED BY <3>2, <3>3
    <2> QED BY <1>1, <2>2, <2>5, <2>6 DEF logchrif_parse_reqauth, LoginTypes,
               LoginTypeOK, LinkLoginTypeOK
  <1>2. ASSUME logchrif_parse_setacconline(s) PROVE LoginTypes'
    <2>1. LoginReceives(s, "setacconline") /\ s \in Places
      BY <1>2 DEF logchrif_parse_setacconline, Places
    <2>2. /\ toLogin' \in [CharServers -> Seq(ToLoginMsg)]
          /\ Head(toLogin[s]).account \in Accounts
      BY <2>1, ReceiveType
    <2>3. /\ login_online_db' \in [Accounts -> Places]
          /\ login_timer' \in [Accounts -> BOOLEAN]
      BY <1>2, <2>1, <2>2, OnlineTableType DEF logchrif_parse_setacconline
    <2> QED BY <1>2, <2>2, <2>3 DEF logchrif_parse_setacconline, LoginTypes,
               LoginTypeOK, LinkLoginTypeOK
  <1>3. ASSUME logchrif_parse_setaccoffline(s) PROVE LoginTypes'
    <2>1. LoginReceives(s, "setaccoffline") /\ s \in Places
      BY <1>3 DEF logchrif_parse_setaccoffline, Places
    <2>2. /\ toLogin' \in [CharServers -> Seq(ToLoginMsg)]
          /\ Head(toLogin[s]).account \in Accounts
      BY <2>1, ReceiveType
    <2>3. /\ login_online_db' \in [Accounts -> Places]
          /\ login_timer' \in [Accounts -> BOOLEAN]
      BY <1>3, <2>1, <2>2, OnlineTableType DEF logchrif_parse_setaccoffline
    <2> QED BY <1>3, <2>2, <2>3 DEF logchrif_parse_setaccoffline, LoginTypes,
               LoginTypeOK, LinkLoginTypeOK
  <1> QED BY <1>1, <1>2, <1>3 DEF logchrif_parse

-----------------------------------------------------------------------------
(* The inductive invariant: the two tables of a map-server are tables over *)
(* its accounts, and no account is in both.                                *)
IsTable(t) == t = [m \in MapServers |-> [a \in Accounts |-> t[m][a]]]
Tables == IsTable(map_auth_db) /\ IsTable(pc_db)

Exclusive == Tables /\ NodeXorPlayer

-----------------------------------------------------------------------------
(* What an assignment to one entry of a table does to the table. *)
Update(t, m, a, v) == [t EXCEPT ![m][a] = v]

LEMMA TableUpdate ==
  ASSUME NEW t, IsTable(t), NEW m \in MapServers, NEW a, NEW v
  PROVE  /\ IsTable(Update(t, m, a, v))
         /\ \A x \in MapServers, b \in Accounts :
              Update(t, m, a, v)[x][b] = IF x = m /\ b = a THEN v ELSE t[x][b]
  <1> DEFINE u == Update(t, m, a, v)
             row(x) == [b \in Accounts |-> IF x = m /\ b = a THEN v ELSE t[x][b]]
  <1>1. DOMAIN t = MapServers
    BY DEF IsTable
  <1>2. \A x \in MapServers : t[x] = [b \in Accounts |-> t[x][b]]
    BY DEF IsTable
  <1>3. u = [x \in MapServers |-> IF x = m THEN [t[m] EXCEPT ![a] = v] ELSE t[x]]
    BY <1>1 DEF Update
  <1>4. [t[m] EXCEPT ![a] = v] = row(m)
    BY <1>2
  <1>5. \A x \in MapServers : x # m => t[x] = row(x)
    BY <1>2
  <1>6. \A x \in MapServers : u[x] = row(x)
    BY <1>3, <1>4, <1>5
  <1>7. \A x \in MapServers : u[x] = [b \in Accounts |-> u[x][b]]
    BY <1>6
  <1>8. \A x \in MapServers, b \in Accounts :
          u[x][b] = IF x = m /\ b = a THEN v ELSE t[x][b]
    BY <1>6
  <1>9. u = [x \in MapServers |-> u[x]]
    BY <1>3
  <1> HIDE DEF u
  <1>10. IsTable(u)
    BY <1>7, <1>9 DEF IsTable
  <1> QED BY <1>8, <1>10 DEF u

(* The three ways a step touches the tables, each at one account of one    *)
(* server: both, only the auth nodes, or only the players.                 *)
LEMMA BothChange ==
  ASSUME Exclusive, NEW m \in MapServers, NEW a, NEW n, NEW p,
         SetMapNode(m, a, n), SetPlayer(m, a, p), n = None \/ p = None
  PROVE  Exclusive'
  <1>1. /\ map_auth_db' = Update(map_auth_db, m, a, n)
        /\ pc_db' = Update(pc_db, m, a, p)
    BY DEF SetMapNode, SetPlayer, Update
  <1> QED BY <1>1, TableUpdate DEF Exclusive, Tables, NodeXorPlayer

LEMMA NodeChanges ==
  ASSUME Exclusive, NEW m \in MapServers, NEW a, NEW n,
         SetMapNode(m, a, n), UNCHANGED pc_db, n = None \/ pc_db[m][a] = None
  PROVE  Exclusive'
  <1>1. map_auth_db' = Update(map_auth_db, m, a, n)
    BY DEF SetMapNode, Update
  <1> QED BY <1>1, TableUpdate DEF Exclusive, Tables, NodeXorPlayer

LEMMA PlayerChanges ==
  ASSUME Exclusive, NEW m \in MapServers, NEW a, NEW p,
         SetPlayer(m, a, p), UNCHANGED map_auth_db,
         p = None \/ pc_db[m][a] # None
  PROVE  Exclusive'
  <1>1. pc_db' = Update(pc_db, m, a, p)
    BY DEF SetPlayer, Update
  <1> QED BY <1>1, TableUpdate DEF Exclusive, Tables, NodeXorPlayer

(* A step that leaves both tables alone keeps them exclusive. *)
LEMMA NothingChanges ==
  ASSUME Exclusive, UNCHANGED <<map_auth_db, pc_db>>
  PROVE  Exclusive'
  BY DEF Exclusive, Tables, IsTable, NodeXorPlayer

-----------------------------------------------------------------------------
(* A player who quits, from a closed connection or by its timer, becomes   *)
(* an auth node in the step that takes it out of the game.                 *)
LEMMA QuitKeepsExclusive ==
  ASSUME Exclusive, NEW m \in MapServers, NEW a, map_quit(m, a)
  PROVE  Exclusive'
  <1>1. CASE map_auth_db[m][a] = None
    <2>1. PICK n : SetMapNode(m, a, n)
      BY <1>1 DEF map_quit
    <2>2. SetPlayer(m, a, None)
      BY DEF map_quit
    <2> QED BY <2>1, <2>2, BothChange
  <1>2. CASE map_auth_db[m][a] # None
    BY <1>2, PlayerChanges DEF map_quit
  <1> QED BY <1>1, <1>2

(* A link that is ready again only takes auth nodes away. *)
LEMMA ReadyKeepsExclusive ==
  ASSUME Exclusive, NEW m \in MapServers, chrif_on_ready(m)
  PROVE  Exclusive'
  <1> DEFINE row == [a \in Accounts |->
                       IF map_auth_db[m][a] # None /\ map_auth_db[m][a].state = ST_LOGIN
                         THEN None ELSE map_auth_db[m][a]]
  <1>1. map_auth_db' = [map_auth_db EXCEPT ![m] = row] /\ UNCHANGED pc_db
    BY DEF chrif_on_ready
  <1>2. DOMAIN map_auth_db = MapServers
    BY DEF Exclusive, Tables, IsTable
  <1>3. \A x \in MapServers : map_auth_db[x] = [a \in Accounts |-> map_auth_db[x][a]]
    BY DEF Exclusive, Tables, IsTable
  <1>4. map_auth_db' = [x \in MapServers |-> IF x = m THEN row ELSE map_auth_db[x]]
    BY <1>1, <1>2
  <1>5. \A x \in MapServers : map_auth_db'[x] = [a \in Accounts |-> map_auth_db'[x][a]]
    BY <1>3, <1>4
  <1>6. map_auth_db' = [x \in MapServers |-> map_auth_db'[x]]
    BY <1>4
  <1>7. IsTable(map_auth_db')
    BY <1>5, <1>6 DEF IsTable
  <1>8. \A x \in MapServers, a \in Accounts :
          map_auth_db'[x][a] = None \/ map_auth_db'[x][a] = map_auth_db[x][a]
    BY <1>4
  <1>9. NodeXorPlayer'
    BY <1>1, <1>8 DEF Exclusive, NodeXorPlayer
  <1> QED BY <1>1, <1>7, <1>9 DEF Exclusive, Tables, IsTable

(* What clients and players of map-server m do. *)
LEMMA ClientsKeepExclusive ==
  ASSUME Exclusive, NEW m \in MapServers, NEW c \in Clients,
         \/ clif_parse_WantToConnection(m, c)
         \/ clif_parse_Restart(m, c)
         \/ \E dest \in MapServers : pc_setpos(m, c, dest)
         \/ MapHangUp(m, c)
         \/ MapSessionEnds(m, c)
  PROVE  Exclusive'
  <1>1. CASE clif_parse_WantToConnection(m, c)
    <2>1. CASE UNCHANGED map_auth_db
      BY <1>1, <2>1, NothingChanges DEF clif_parse_WantToConnection
    <2>2. CASE map_auth_db' # map_auth_db
      <3> DEFINE a == client[c].account
      <3>1. PICK n : SetMapNode(m, a, n)
        BY <1>1, <2>2 DEF clif_parse_WantToConnection
      <3>2. pc_db[m][a] = None /\ UNCHANGED pc_db
        BY <1>1, <2>2 DEF clif_parse_WantToConnection
      <3> QED BY <3>1, <3>2, NodeChanges
    <2> QED BY <2>1, <2>2
  <1>2. CASE clif_parse_Restart(m, c) \/ MapHangUp(m, c)
    BY <1>2, NothingChanges DEF clif_parse_Restart, MapHangUp, mapVars
  <1>3. ASSUME NEW dest \in MapServers, pc_setpos(m, c, dest) PROVE Exclusive'
    <2> DEFINE a == map_session[m][c].account
    <2>1. SetPlayer(m, a, None)
      BY <1>3 DEF pc_setpos
    <2>2. CASE map_auth_db[m][a] = None
      <3>1. PICK n : SetMapNode(m, a, n)
        BY <1>3, <2>2 DEF pc_setpos
      <3> QED BY <2>1, <3>1, BothChange
    <2>3. CASE map_auth_db[m][a] # None
      BY <1>3, <2>1, <2>3, PlayerChanges DEF pc_setpos
    <2> QED BY <2>2, <2>3
  <1>4. CASE MapSessionEnds(m, c)
    <2> DEFINE a == map_session[m][c].account
    <2>1. CASE UNCHANGED <<map_auth_db, pc_db>>
      BY <2>1, NothingChanges
    <2>2. CASE map_quit(m, a)
      BY <2>2, QuitKeepsExclusive
    <2>3. CASE /\ Plays(m, c) /\ UNCHANGED map_auth_db
               /\ SetPlayer(m, a, [pc_db[m][a] EXCEPT !.fd = None])
      <3>1. pc_db[m][a] # None
        BY <2>3 DEF Plays
      <3> QED BY <2>3, <3>1, PlayerChanges
    <2>4. CASE QuitInactive(m, c)
      BY <2>4, NodeChanges, NothingChanges DEF QuitInactive
    <2> QED BY <1>4, <2>1, <2>2, <2>3, <2>4 DEF MapSessionEnds
  <1> QED BY <1>1, <1>2, <1>3, <1>4

(* What the timers of map-server m and its players' progress do. *)
LEMMA TimersKeepExclusive ==
  ASSUME Exclusive, NEW m \in MapServers, NEW a \in Accounts,
         \/ clif_delayquit(m, a)
         \/ Progress(m, a)
         \/ chrif_save(m, a)
         \/ auth_db_cleanup_sub(m, a)
  PROVE  Exclusive'
  <1>1. CASE clif_delayquit(m, a)
    BY <1>1, QuitKeepsExclusive DEF clif_delayquit
  <1>2. CASE Progress(m, a)
    <2>1. PICK p : SetPlayer(m, a, p)
      BY <1>2 DEF Progress
    <2>2. pc_db[m][a] # None /\ UNCHANGED map_auth_db
      BY <1>2 DEF Progress
    <2> QED BY <2>1, <2>2, PlayerChanges
  <1>3. CASE chrif_save(m, a)
    BY <1>3, NothingChanges DEF chrif_save, mapVars
  <1>4. CASE auth_db_cleanup_sub(m, a)
    <2>1. CASE UNCHANGED map_auth_db
      BY <1>4, <2>1, NothingChanges DEF auth_db_cleanup_sub
    <2>2. CASE SetMapNode(m, a, None)
      BY <1>4, <2>2, NodeChanges DEF auth_db_cleanup_sub
    <2> QED BY <1>4, <2>1, <2>2 DEF auth_db_cleanup_sub
  <1> QED BY <1>1, <1>2, <1>3, <1>4

(* What the packets of the char-server do. *)
LEMMA PacketsKeepExclusive ==
  ASSUME Exclusive, NEW m \in MapServers, chrif_parse(m)
  PROVE  Exclusive'
  <1> DEFINE p == Head(toMap[m])
             a == p.account
             n == map_auth_db[m][a]
  <1>1. CASE chrif_authok(m)
    <2>1. CASE UNCHANGED map_auth_db
      BY <1>1, <2>1, NothingChanges DEF chrif_authok
    <2>2. CASE map_auth_db' # map_auth_db
      <3>1. PICK x : SetMapNode(m, a, x)
        BY <1>1, <2>2 DEF chrif_authok
      <3>2. pc_db[m][a] = None /\ UNCHANGED pc_db
        BY <1>1, <2>2 DEF chrif_authok
      <3> QED BY <3>1, <3>2, NodeChanges
    <2> QED BY <2>1, <2>2
  <1>2. CASE chrif_authfail(m)
    <2>1. SetMapNode(m, a, None) \/ UNCHANGED map_auth_db
      BY <1>2 DEF chrif_authfail
    <2>2. UNCHANGED pc_db
      BY <1>2 DEF chrif_authfail
    <2> QED BY <2>1, <2>2, NodeChanges, NothingChanges
  <1>3. CASE intif_parse_Registers(m)
    <2>1. CASE UNCHANGED <<pc_db, map_auth_db>>
      BY <2>1, NothingChanges
    <2>2. CASE HasNode(m, a, p.char, ST_LOGIN)
      <3>1. PICK x : SetPlayer(m, a, x)
        BY <1>3, <2>2 DEF intif_parse_Registers
      <3>2. SetMapNode(m, a, None)
        BY <1>3, <2>2 DEF intif_parse_Registers, chrif_auth_finished
      <3> QED BY <3>1, <3>2, BothChange
    <2> QED BY <1>3, <2>1, <2>2 DEF intif_parse_Registers
  <1>4. CASE clif_charselectok(m)
    BY <1>4, NothingChanges DEF clif_charselectok, mapVars
  <1>5. CASE chrif_changemapserverack(m)
    <2>1. SetMapNode(m, a, None) \/ UNCHANGED map_auth_db
      BY <1>5 DEF chrif_changemapserverack
    <2>2. UNCHANGED pc_db
      BY <1>5 DEF chrif_changemapserverack
    <2> QED BY <2>1, <2>2, NodeChanges, NothingChanges
  <1>6. CASE chrif_disconnectplayer(m)
    <2>1. SetMapNode(m, a, None) \/ UNCHANGED map_auth_db
      BY <1>6 DEF chrif_disconnectplayer
    <2>2. UNCHANGED pc_db
      BY <1>6 DEF chrif_disconnectplayer
    <2> QED BY <2>1, <2>2, NodeChanges, NothingChanges
  <1>7. CASE chrif_save_ack(m)
    <2>1. SetMapNode(m, a, None) \/ UNCHANGED map_auth_db
      BY <1>7 DEF chrif_save_ack
    <2>2. UNCHANGED pc_db
      BY <1>7 DEF chrif_save_ack
    <2> QED BY <2>1, <2>2, NodeChanges, NothingChanges
  <1>8. CASE chrif_on_ready(m)
    BY <1>8, ReadyKeepsExclusive
  <1> QED BY <1>1, <1>2, <1>3, <1>4, <1>5, <1>6, <1>7, <1>8 DEF chrif_parse

(* On every map-server, at every moment, an account is in the game or has  *)
(* an auth node, never both, for any number of accounts, clients and       *)
(* servers, whatever the timers do and however often links break.          *)
THEOREM NeverBoth == Spec => []NodeXorPlayer
  <1>1. ASSUME Init PROVE Exclusive
    BY <1>1 DEF Init, MapInit, Exclusive, Tables, IsTable, NodeXorPlayer
  <1>2. ASSUME Exclusive, [Next]_vars PROVE Exclusive'
    <2> USE <1>2
    <2>0. \A m \in UpServers : m \in MapServers
      BY MapServersAssumption
    <2>1. ASSUME NEW m \in UpServers, NEW c \in Clients,
                 MapServerClient(m, c) \/ MapClientGone(m, c)
          PROVE  Exclusive'
      BY <2>0, <2>1, ClientsKeepExclusive DEF MapServerClient, MapClientGone
    <2>2. ASSUME NEW m \in UpServers, NEW a \in Accounts,
                 MapServerPlays(m, a) \/ MapPlayerGone(m, a) \/ MapTimer(m, a)
          PROVE  Exclusive'
      BY <2>0, <2>2, TimersKeepExclusive DEF MapServerPlays, MapPlayerGone, MapTimer
    <2>3. ASSUME NEW m \in UpServers, MapServes(m) PROVE Exclusive'
      BY <2>0, <2>3, PacketsKeepExclusive DEF MapServes
    <2>4. CASE UNCHANGED mapVars
      BY <2>4, NothingChanges DEF mapVars
    <2>5. CASE UNCHANGED vars
      BY <2>4, <2>5 DEF vars, mapVars
    <2>6. ASSUME NEW m \in UpServers, LinkBreaks(m) \/ check_connect_char_server(m)
          PROVE  Exclusive'
      BY <2>6, NothingChanges DEF LinkBreaks, check_connect_char_server, mapVars
    <2> QED BY <2>1, <2>2, <2>3, <2>4, <2>5, <2>6 DEF Next, ClientLogsIn, OutsideLogin,
               CharServerClient, OutsideChar, CharClientGone, LoginServes,
               CharServesLogin, LoginTimer, CharTimers, CharServesMap
  <1>3. Exclusive => NodeXorPlayer
    BY DEF Exclusive
  <1> QED BY <1>1, <1>2, <1>3, PTL DEF Spec

-----------------------------------------------------------------------------
(* Types.  The invariant behind them, in parts.  A client that is told to  *)
(* go somewhere has logged in, and picked a character if it is to go to a  *)
(* map-server.                                                             *)
ClientsOK ==
  /\ client \in [Clients -> [account : Accounts \cup {None}, char : Chars \cup {None},
                             id : Ids \cup {NoId}, dest : Destinations]]
  /\ \A c \in Clients :
       /\ client[c].id < next_id
       /\ client[c].id # NoId => client[c].account \in Accounts
       /\ client[c].dest # Nowhere => client[c].id # NoId
       /\ client[c].dest \in MapServers => client[c].char \in Chars

(* Whoever is on a map-server came with a ticket of its client, and that   *)
(* client has picked a character, unless it logged in again since.         *)
Guest(x) == /\ x.id < next_id
            /\ x.fd # None /\ client[x.fd].id = x.id => client[x.fd].char \in Chars

NodesOK ==
  /\ map_auth_db \in [MapServers -> [Accounts -> MapNode \cup {None}]]
  /\ \A m \in MapServers, a \in Accounts : map_auth_db[m][a] # None =>
       /\ Guest(map_auth_db[m][a])
       /\ map_auth_db[m][a].state = ST_MAPCHANGE => map_auth_db[m][a].fd # None

PlayersOK ==
  /\ pc_db \in [MapServers -> [Accounts -> Player \cup {None}]]
  /\ \A m \in MapServers, a \in Accounts : pc_db[m][a] # None => Guest(pc_db[m][a])

Sessions == [Clients -> MapSession \cup {None}]
SessionsOK == map_session \in [MapServers -> Sessions]
BestOK == best \in [Chars -> Versions]
ToCharOK == toChar \in [MapServers -> Seq(ToCharMsg)]
ToMapOK == toMap \in [MapServers -> Seq(ToMapMsg)]
StateOK == connected \subseteq UpServers /\ breaks \in 0 .. MaxBreaks
LinksUp == ch_server = [s \in CharServers |-> TRUE]

MapParts == NodesOK /\ PlayersOK /\ SessionsOK /\ BestOK
IInv == /\ LoginTypes /\ LinksUp /\ CharTypeOK /\ MapParts
        /\ ClientsOK /\ ToCharOK /\ ToMapOK /\ StateOK

(* Clients go on: they keep their ticket and character, or log in anew.    *)
Moves == /\ next_id' >= next_id
         /\ \A c \in Clients : \/ client'[c].id = next_id
                               \/ /\ client'[c].id = client[c].id
                                  /\ client[c].char \in Chars => client'[c].char \in Chars

LEMMA GuestStays ==
  ASSUME NEW x, x.id \in Ids, x.fd \in Clients \cup {None}, Guest(x), Moves,
         next_id \in Nat, next_id' \in Nat
  PROVE  Guest(x)'
  <1>1. x.id < next_id /\ x.id # next_id /\ x.id < next_id'
    BY MaxIdAssumption DEF Guest, Moves, Ids
  <1> QED BY <1>1 DEF Guest, Moves

LEMMA StandingStill ==
  ASSUME UNCHANGED <<client, next_id>>, next_id \in Nat
  PROVE  Moves
  BY DEF Moves

LEMMA PartsTyped == IInv => TypeOK
  BY DEF IInv, LoginTypes, MapParts, NodesOK, PlayersOK, SessionsOK, Sessions, BestOK, ClientsOK,
     ToCharOK, ToMapOK, StateOK, TypeOK, MapTypeOK, LinkMapTypeOK

-----------------------------------------------------------------------------
(* The links. *)

LEMMA SendsToChar ==
  ASSUME ToCharOK, NEW m \in MapServers, NEW packets \in Seq(ToCharMsg), SendToChar(m, packets)
  PROVE  ToCharOK'
  <1>1. toChar[m] \o packets \in Seq(ToCharMsg)
    BY DEF ToCharOK
  <1> QED BY <1>1 DEF ToCharOK, SendToChar

LEMMA SendsToMaps ==
  ASSUME ToMapOK, NEW out \in [MapServers -> Seq(ToMapMsg)], SendToMaps(out)
  PROVE  ToMapOK'
  <1>1. \A m \in MapServers : toMap[m] \o out[m] \in Seq(ToMapMsg)
    BY DEF ToMapOK
  <1> QED BY <1>1 DEF ToMapOK, SendToMaps

LEMMA CharReceivesType ==
  ASSUME ToCharOK, NEW m \in MapServers, NEW t, CharReceives(m, t)
  PROVE  /\ ToCharOK'
         /\ Head(toChar[m]) \in ToCharMsg /\ Head(toChar[m]).type = t
  <1>1. toChar[m] \in Seq(ToCharMsg) /\ toChar[m] # <<>>
    BY DEF ToCharOK, CharReceives
  <1>2. Head(toChar[m]) \in ToCharMsg /\ Tail(toChar[m]) \in Seq(ToCharMsg)
    BY <1>1
  <1> QED BY <1>2 DEF ToCharOK, CharReceives

LEMMA MapReceivesType ==
  ASSUME ToMapOK, NEW m \in MapServers, NEW t, MapReceives(m, t)
  PROVE  /\ ToMapOK'
         /\ Head(toMap[m]) \in ToMapMsg /\ Head(toMap[m]).type = t
  <1>1. toMap[m] \in Seq(ToMapMsg) /\ toMap[m] # <<>>
    BY DEF ToMapOK, MapReceives
  <1>2. Head(toMap[m]) \in ToMapMsg /\ Tail(toMap[m]) \in Seq(ToMapMsg)
    BY <1>1
  <1> QED BY <1>2 DEF ToMapOK, MapReceives

(* The packets are of their types. *)
LEMMA CharPackets ==
  ASSUME NEW a \in Accounts, NEW ch \in Chars, NEW id \in Ids
  PROVE  /\ AuthReq(a, ch, id) \in ToCharMsg
         /\ \A st \in Status, q \in BOOLEAN : SaveChar(a, ch, st, q) \in ToCharMsg
         /\ CharSelectReq(a, id) \in ToCharMsg
         /\ \A m \in MapServers : ChangeMapReq(a, ch, id, m) \in ToCharMsg
         /\ CharOffline(a, ch) \in ToCharMsg
         /\ RegistryReq(a, ch) \in ToCharMsg
  BY DEF ToCharMsg, AuthReq, SaveChar, CharSelectReq, ChangeMapReq, CharOffline, RegistryReq

LEMMA MapPackets ==
  ASSUME NEW a \in Accounts
  PROVE  /\ \A ch \in Chars, id \in Ids, st \in Status : AuthOk(a, ch, id, st) \in ToMapMsg
         /\ \A ch \in Chars, id \in Ids : AuthFail(a, ch, id) \in ToMapMsg
         /\ \A ch \in Chars, id \in Ids, m \in MapServers, ok \in BOOLEAN :
              ChangeMapAck(a, ch, id, m, ok) \in ToMapMsg
         /\ \A ch \in Chars : SaveAck(a, ch) \in ToMapMsg /\ Registers(a, ch) \in ToMapMsg
         /\ CharSelectAck(a) \in ToMapMsg /\ DisconnectPlayer(a) \in ToMapMsg
         /\ MapsReceived \in ToMapMsg
  BY DEF ToMapMsg, AuthOk, AuthFail, ChangeMapAck, SaveAck, Registers, CharSelectAck,
     DisconnectPlayer, MapsReceived

(* What a walk over the accounts sends is a sequence of what it may send.  *)
Link == INSTANCE FoldTheorems WITH op <- \o, base <- <<>>

LEMMA JoinedType ==
  ASSUME NEW T, NEW f \in [Accounts -> Seq(T)]
  PROVE  Joined(f) \in Seq(T)
  <1>1. Link!IsFiniteSet(Accounts)
    BY AccountsAssumption DEF Link!IsFiniteSet, IsFiniteSet
  <1>2. DOMAIN f = Accounts
    OBVIOUS
  <1>3. PICK g : Link!Unfolds(g, f, SUBSET Accounts) /\ Link!FoldFunction(\o, <<>>, f) = g[Accounts]
    BY <1>1, <1>2, Link!FoldUnfolds
  <1>4. Link!FoldFunction(\o, <<>>, f) = FoldFunction(\o, <<>>, f)
    BY DEF Link!FoldFunction, Link!FoldFunctionOnSet, Link!MapThenFoldSet, FoldFunction,
       FoldFunctionOnSet, MapThenFoldSet
  <1>5. FoldFunction(\o, <<>>, f) = Joined(f)
    BY DEF Joined
  <1> DEFINE Q == {s \in SUBSET Accounts : g[s] \in Seq(T)}
  <1>6. {} \in Q
    <2>1. g[{}] = <<>>
      BY <1>3 DEF Link!Unfolds
    <2>2. <<>> \in Seq(T)
      OBVIOUS
    <2> QED BY <2>1, <2>2, Zenon
  <1>7. ASSUME NEW s \in SUBSET Accounts, s # {}, Link!Others(s) \in Q PROVE s \in Q
    <2>1. Link!Picked(s) \in Accounts
      BY <1>1, <1>7, Link!PickedType
    <2>2. g[s] = f[Link!Picked(s)] \o g[Link!Others(s)]
      BY <1>3, <1>7 DEF Link!Unfolds
    <2>3. f[Link!Picked(s)] \in Seq(T) /\ g[Link!Others(s)] \in Seq(T)
      BY <1>7, <2>1
    <2>4. g[s] \in Seq(T)
      BY <2>2, <2>3, ConcatProperties, Zenon
    <2> QED BY <2>4, Zenon
  <1> HIDE DEF Q
  <1>8. Q = SUBSET Accounts
    <2>1. Q \in SUBSET SUBSET Accounts
      BY DEF Q
    <2> QED BY <1>1, <1>6, <1>7, <2>1, Link!SubsetInduction
  <1> QED BY <1>3, <1>4, <1>5, <1>8 DEF Q

-----------------------------------------------------------------------------
(* The tables of the map-servers. *)

NodeFine(n) == /\ n \in MapNode /\ Guest(n)
               /\ n.state = ST_MAPCHANGE => n.fd # None
PlayerFine(p) == p \in Player /\ Guest(p)

LEMMA Tickets ==
  ASSUME IInv
  PROVE  /\ next_id \in Nat /\ IsTable(map_auth_db) /\ IsTable(pc_db)
         /\ \A m \in MapServers, a \in Accounts :
              /\ map_auth_db[m][a] # None => NodeFine(map_auth_db[m][a])
              /\ pc_db[m][a] # None => PlayerFine(pc_db[m][a])
         /\ \A m \in MapServers, c \in Clients :
              map_session[m][c] # None => map_session[m][c] \in MapSession
  <1>1. next_id \in Nat
    BY MaxIdAssumption DEF IInv, LoginTypes, LoginTypeOK
  <1>2. IsTable(map_auth_db)
    BY DEF IInv, MapParts, NodesOK, IsTable
  <1>3. IsTable(pc_db)
    BY DEF IInv, MapParts, PlayersOK, IsTable
  <1> QED BY <1>1, <1>2, <1>3 DEF IInv, MapParts, NodesOK, PlayersOK, SessionsOK, Sessions,
             NodeFine, PlayerFine

LEMMA GuestsStay ==
  ASSUME IInv, Moves, next_id' \in Nat
  PROVE  /\ \A y \in MapNode : Guest(y) => Guest(y)'
         /\ \A y \in Player : Guest(y) => Guest(y)'
  BY Tickets, GuestStays DEF MapNode, Player

LEMMA NodesStay ==
  ASSUME IInv, Moves, next_id' \in Nat, UNCHANGED map_auth_db
  PROVE  NodesOK'
  BY GuestsStay DEF IInv, MapParts, NodesOK, Guest

LEMMA PlayersStay ==
  ASSUME IInv, Moves, next_id' \in Nat, UNCHANGED pc_db
  PROVE  PlayersOK'
  BY GuestsStay DEF IInv, MapParts, PlayersOK, Guest

(* One entry is written. *)
LEMMA NodeSet ==
  ASSUME IInv, Moves, next_id' \in Nat, NEW m \in MapServers, NEW a \in Accounts, NEW n,
         n = None \/ NodeFine(n), SetMapNode(m, a, n)
  PROVE  NodesOK'
  <1>1. map_auth_db' = Update(map_auth_db, m, a, n)
    BY DEF SetMapNode, Update
  <1>2. /\ IsTable(map_auth_db')
        /\ \A x \in MapServers, b \in Accounts :
             map_auth_db'[x][b] = IF x = m /\ b = a THEN n ELSE map_auth_db[x][b]
    BY <1>1, Tickets, TableUpdate
  <1>3. \A x \in MapServers, b \in Accounts :
          map_auth_db'[x][b] # None => NodeFine(map_auth_db'[x][b])
    BY <1>2, Tickets
  <1>4. map_auth_db' \in [MapServers -> [Accounts -> MapNode \cup {None}]]
    <2>1. \A x \in MapServers, b \in Accounts : map_auth_db'[x][b] \in MapNode \cup {None}
      BY <1>3 DEF NodeFine
    <2> QED BY <1>2, <2>1 DEF IsTable
  <1> QED BY <1>3, <1>4, GuestsStay DEF NodesOK, NodeFine, Guest

LEMMA PlayerSet ==
  ASSUME IInv, Moves, next_id' \in Nat, NEW m \in MapServers, NEW a \in Accounts, NEW p,
         p = None \/ PlayerFine(p), SetPlayer(m, a, p)
  PROVE  PlayersOK'
  <1>1. pc_db' = Update(pc_db, m, a, p)
    BY DEF SetPlayer, Update
  <1>2. /\ IsTable(pc_db')
        /\ \A x \in MapServers, b \in Accounts :
             pc_db'[x][b] = IF x = m /\ b = a THEN p ELSE pc_db[x][b]
    BY <1>1, Tickets, TableUpdate
  <1>3. \A x \in MapServers, b \in Accounts :
          pc_db'[x][b] # None => PlayerFine(pc_db'[x][b])
    BY <1>2, Tickets
  <1>4. pc_db' \in [MapServers -> [Accounts -> Player \cup {None}]]
    <2>1. \A x \in MapServers, b \in Accounts : pc_db'[x][b] \in Player \cup {None}
      BY <1>3 DEF PlayerFine
    <2> QED BY <1>2, <2>1 DEF IsTable
  <1> QED BY <1>3, <1>4, GuestsStay DEF PlayersOK, PlayerFine, Guest

LEMMA SessionsSet ==
  ASSUME SessionsOK, NEW m \in MapServers, NEW ss \in Sessions, SetSessions(m, ss)
  PROVE  SessionsOK'
  BY DEF SessionsOK, SetSessions

LEMMA SessionSet ==
  ASSUME SessionsOK, NEW m \in MapServers, NEW c \in Clients, NEW s \in MapSession \cup {None},
         SetMapSession(m, c, s)
  PROVE  SessionsOK'
  BY DEF SessionsOK, Sessions, SetMapSession

LEMMA ClosedType ==
  ASSUME NEW ss \in Sessions, NEW c \in Clients \cup {None}
  PROVE  Closed(ss, c) \in Sessions /\ Detached(ss, c) \in Sessions
  <1>1. CASE c = None \/ ss[c] = None
    BY <1>1 DEF Closed, Detached
  <1>2. CASE c # None /\ ss[c] # None
    <2>1. c \in Clients /\ ss[c] \in MapSession
      BY <1>2 DEF Sessions
    <2>2. /\ [ss[c] EXCEPT !.eof = TRUE] \in MapSession
          /\ [ss[c] EXCEPT !.sd = FALSE] \in MapSession
      BY <2>1 DEF MapSession
    <2>3. /\ Closed(ss, c) = [ss EXCEPT ![c] = [ss[c] EXCEPT !.eof = TRUE]]
          /\ Detached(ss, c) = [ss EXCEPT ![c] = [ss[c] EXCEPT !.sd = FALSE]]
      BY <1>2, <2>1 DEF Closed, Detached, Sessions
    <2> QED BY <2>1, <2>2, <2>3 DEF Sessions
  <1> QED BY <1>1, <1>2

-----------------------------------------------------------------------------
(* The steps of a map-server. *)
MapGood == MapParts' /\ ClientsOK' /\ ToCharOK' /\ ToMapOK'

LEMMA ClientGoes ==
  ASSUME IInv, UNCHANGED next_id, NEW c \in Clients, NEW d \in Destinations,
         client' = [client EXCEPT ![c].dest = d],
         d # Nowhere => client[c].id # NoId, d \in MapServers => client[c].char \in Chars
  PROVE  ClientsOK' /\ Moves
  <1>1. client \in [Clients -> [account : Accounts \cup {None}, char : Chars \cup {None},
                                id : Ids \cup {NoId}, dest : Destinations]]
    BY DEF IInv, ClientsOK
  <1>2. \A b \in Clients : /\ client'[b].account = client[b].account
                           /\ client'[b].char = client[b].char
                           /\ client'[b].id = client[b].id
                           /\ client'[b].dest = IF b = c THEN d ELSE client[b].dest
    BY <1>1
  <1>3. client' \in [Clients -> [account : Accounts \cup {None}, char : Chars \cup {None},
                                 id : Ids \cup {NoId}, dest : Destinations]]
    BY <1>1
  <1>4. next_id \in Nat
    BY Tickets
  <1> QED BY <1>2, <1>3, <1>4 DEF IInv, ClientsOK, Moves

LEMMA ClientsStay ==
  ASSUME IInv, UNCHANGED <<client, next_id>>
  PROVE  ClientsOK' /\ Moves /\ next_id' \in Nat
  BY StandingStill, Tickets DEF IInv, ClientsOK

LEMMA SavedType ==
  ASSUME NEW p \in Player, NEW m \in MapServers
  PROVE  Saved(p, m) \in Status
  BY DEF Saved, Player, Status

LEMMA OnePacket ==
  ASSUME IInv, NEW m \in MapServers, NEW p \in ToCharMsg, SendToChar(m, <<p>>)
  PROVE  ToCharOK'
  <1>1. <<p>> \in Seq(ToCharMsg)
    OBVIOUS
  <1> QED BY <1>1, SendsToChar DEF IInv

LEMMA QuitTypes ==
  ASSUME IInv, UNCHANGED <<client, next_id>>, NEW m \in MapServers, NEW a \in Accounts,
         pc_db[m][a] # None, map_quit(m, a)
  PROVE  NodesOK' /\ PlayersOK' /\ ToCharOK'
  <1> DEFINE p == pc_db[m][a]
             n == [state |-> ST_LOGOUT, char |-> p.char, id |-> p.id, fd |-> None,
                   status |-> Saved(p, m)]
             s == SaveChar(a, p.char, Saved(p, m), TRUE)
  <1>1. PlayerFine(p) /\ p \in Player
    BY Tickets DEF PlayerFine
  <1>2. NodeFine(n)
    BY <1>1, SavedType DEF NodeFine, MapNode, Player, PlayerFine, Guest, ST_MAPCHANGE, ST_LOGOUT
  <1>3. s \in ToCharMsg
    BY <1>1, SavedType, CharPackets DEF Player
  <1>4. SetMapNode(m, a, n) \/ UNCHANGED map_auth_db
    BY DEF map_quit
  <1>5. SetPlayer(m, a, None) /\ SendToChar(m, <<s>>)
    BY DEF map_quit
  <1> HIDE DEF n, s
  <1> QED BY <1>2, <1>3, <1>4, <1>5, ClientsStay, NodeSet, NodesStay, PlayerSet, OnePacket

LEMMA ArrivalTypes ==
  ASSUME IInv, UNCHANGED next_id, NEW m \in MapServers, NEW c \in Clients,
         clif_parse_WantToConnection(m, c)
  PROVE  MapGood
  <1> DEFINE a == client[c].account
             ch == client[c].char
             id == client[c].id
             session(sd, eof) == [account |-> a, char |-> ch, sd |-> sd, eof |-> eof]
             n == [state |-> ST_LOGIN, char |-> ch, id |-> id, fd |-> c,
                   status |-> [ver |-> BlankVersion, place |-> m]]
  <1>1. a \in Accounts /\ ch \in Chars /\ id \in Ids /\ id < next_id
    BY MapServersAssumption DEF clif_parse_WantToConnection, IInv, ClientsOK, Nowhere, Ids, NoId
  <1>2. ClientsOK' /\ Moves
    <2>1. Nowhere \in Destinations /\ Nowhere \notin MapServers
      BY MapServersAssumption DEF Nowhere, Destinations
    <2> QED BY <2>1, ClientGoes DEF clif_parse_WantToConnection
  <1>3. next_id' \in Nat
    BY Tickets
  <1>4. NodeFine(n)
    <2>1. [ver |-> BlankVersion, place |-> m] \in Status
      BY MaxVersionAssumption DEF Status, Versions, BlankVersion
    <2> QED BY <1>1, <2>1 DEF NodeFine, MapNode, Guest, ST_LOGIN, ST_MAPCHANGE
  <1>5. \A sd, eof \in BOOLEAN : session(sd, eof) \in MapSession
    BY <1>1 DEF MapSession
  <1>6. AuthReq(a, ch, id) \in ToCharMsg
    BY <1>1, CharPackets
  <1>7. \E sd, eof \in BOOLEAN : SetMapSession(m, c, session(sd, eof))
    BY DEF clif_parse_WantToConnection
  <1>8. \/ UNCHANGED <<map_auth_db, toChar>>
        \/ SetMapNode(m, a, n) /\ SendToChar(m, <<AuthReq(a, ch, id)>>)
    BY DEF clif_parse_WantToConnection
  <1>9. UNCHANGED <<pc_db, best, toMap>>
    BY DEF clif_parse_WantToConnection
  <1> HIDE DEF a, ch, id, session, n
  <1>10. SessionsOK'
    BY <1>5, <1>7, SessionSet DEF IInv, MapParts
  <1>11. NodesOK'
    BY <1>1, <1>2, <1>3, <1>4, <1>8, NodeSet, NodesStay
  <1>12. ToCharOK'
    BY <1>6, <1>8, OnePacket DEF IInv, ToCharOK
  <1>13. PlayersOK'
    BY <1>2, <1>3, <1>9, PlayersStay
  <1> QED BY <1>2, <1>9, <1>10, <1>11, <1>12, <1>13 DEF MapGood, MapParts, IInv, BestOK, ToMapOK

(* A player in the game. *)
LEMMA PlaysTypes ==
  ASSUME IInv, NEW m \in MapServers, NEW c \in Clients, Plays(m, c)
  PROVE  LET a == map_session[m][c].account IN
           a \in Accounts /\ pc_db[m][a] # None /\ PlayerFine(pc_db[m][a]) /\ pc_db[m][a].fd = c
  BY Tickets DEF Plays, MapSession

LEMMA MapClientTypes ==
  ASSUME IInv, UNCHANGED next_id, NEW m \in MapServers, NEW c \in Clients,
         \/ clif_parse_Restart(m, c)
         \/ MapHangUp(m, c)
         \/ MapSessionEnds(m, c)
         \/ \E dest \in MapServers : pc_setpos(m, c, dest)
  PROVE  MapGood
  <1>0. UNCHANGED <<client, toMap, best>>
    BY DEF clif_parse_Restart, MapHangUp, MapSessionEnds, pc_setpos, mapVars, linkMapVars
  <1>1. ClientsOK' /\ Moves /\ next_id' \in Nat /\ ToMapOK' /\ BestOK'
    BY <1>0, ClientsStay DEF IInv, ToMapOK, MapParts, BestOK
  <1> DEFINE s == map_session[m][c]
             a == s.account
             p == pc_db[m][a]
  <1>2. ASSUME clif_parse_Restart(m, c) PROVE MapGood
    <2>1. CharSelectReq(a, p.id) \in ToCharMsg
      <3>1. a \in Accounts /\ p \in Player
        BY <1>2, PlaysTypes DEF clif_parse_Restart, PlayerFine
      <3> QED BY <3>1 DEF Player, ToCharMsg, CharSelectReq
    <2>2. ToCharOK'
      BY <1>2, <2>1, OnePacket DEF clif_parse_Restart
    <2>3. UNCHANGED <<map_auth_db, pc_db, map_session>>
      BY <1>2 DEF clif_parse_Restart, mapVars
    <2> QED BY <1>1, <2>2, <2>3, NodesStay, PlayersStay DEF MapGood, MapParts, IInv, SessionsOK
  <1>3. ASSUME MapHangUp(m, c) PROVE MapGood
    <2>1. [s EXCEPT !.eof = TRUE] \in MapSession
      BY <1>3, Tickets DEF MapHangUp, MapSession
    <2>2. SetMapSession(m, c, [s EXCEPT !.eof = TRUE])
          /\ UNCHANGED <<map_auth_db, pc_db, toChar>>
      BY <1>3 DEF MapHangUp, linkMapVars
    <2>3. SessionsOK'
      BY <2>1, <2>2, SessionSet DEF IInv, MapParts
    <2> QED BY <1>1, <2>2, <2>3, NodesStay, PlayersStay DEF MapGood, MapParts, IInv, ToCharOK
  <1>4. ASSUME MapSessionEnds(m, c) PROVE MapGood
    <2>0. s \in MapSession /\ a \in Accounts
      BY <1>4, Tickets DEF MapSessionEnds, MapSession
    <2>1. ASSUME SetMapSession(m, c, None) PROVE SessionsOK'
      BY <2>1, SessionSet DEF IInv, MapParts
    <2>2. CASE ~s.sd /\ SetMapSession(m, c, None) /\ UNCHANGED <<map_auth_db, pc_db, toChar>>
      BY <1>1, <2>1, <2>2, NodesStay, PlayersStay DEF MapGood, MapParts, IInv, ToCharOK
    <2>3. CASE Plays(m, c) /\ SetMapSession(m, c, None) /\ map_quit(m, a)
      <3>1. p # None
        BY <2>3, PlaysTypes
      <3> QED BY <1>0, <1>1, <2>0, <2>1, <2>3, <3>1, QuitTypes DEF MapGood, MapParts
    <2>4. CASE /\ Plays(m, c) /\ SetMapSession(m, c, None)
               /\ SetPlayer(m, a, [p EXCEPT !.fd = None]) /\ UNCHANGED <<map_auth_db, toChar>>
      <3>1. PlayerFine([p EXCEPT !.fd = None])
        <4>1. PlayerFine(p)
          BY <2>4, PlaysTypes
        <4> HIDE DEF p
        <4> QED BY <4>1 DEF PlayerFine, Player, Guest
      <3>2. PlayersOK'
        BY <1>1, <2>0, <2>4, <3>1, PlayerSet
      <3> QED BY <1>1, <2>1, <2>4, <3>2, NodesStay DEF MapGood, MapParts, IInv, ToCharOK
    <2>5. CASE QuitInactive(m, c)
      <3> DEFINE n == map_auth_db[m][a]
                 ss == IF n # None /\ n.char = s.char /\ n.state # ST_LOGOUT
                         THEN Detached(map_session[m], n.fd) ELSE map_session[m]
      <3>1. map_session[m] \in Sessions
        BY DEF IInv, MapParts, SessionsOK
      <3>2. n # None => n.fd \in Clients \cup {None}
        BY <2>0, Tickets DEF NodeFine, MapNode
      <3>3. ss \in Sessions
        BY <3>1, <3>2, ClosedType
      <3>4. SetSessions(m, [ss EXCEPT ![c] = None])
        BY <2>5 DEF QuitInactive
      <3>5. SetMapNode(m, a, None) \/ UNCHANGED map_auth_db
        BY <2>5 DEF QuitInactive
      <3>6. UNCHANGED <<pc_db, toChar>>
        BY <2>5 DEF QuitInactive
      <3> HIDE DEF ss
      <3>7. [ss EXCEPT ![c] = None] \in Sessions
        BY <3>3 DEF Sessions
      <3>8. SessionsOK'
        BY <3>4, <3>7, SessionsSet DEF IInv, MapParts
      <3>9. NodesOK'
        BY <1>1, <2>0, <3>5, NodeSet, NodesStay
      <3> QED BY <1>1, <3>6, <3>8, <3>9, PlayersStay DEF MapGood, MapParts, IInv, ToCharOK
    <2> QED BY <1>4, <2>2, <2>3, <2>4, <2>5 DEF MapSessionEnds
  <1>5. ASSUME NEW dest \in MapServers, pc_setpos(m, c, dest) PROVE MapGood
    <2> DEFINE n == [state |-> ST_MAPCHANGE, char |-> p.char, id |-> p.id,
                     fd |-> c, status |-> Saved(p, dest)]
               x == SaveChar(a, p.char, Saved(p, dest), FALSE)
               y == ChangeMapReq(a, p.char, p.id, dest)
    <2>1. a \in Accounts /\ PlayerFine(p) /\ p.fd = c
      BY <1>5, PlaysTypes DEF pc_setpos
    <2>2. /\ SetPlayer(m, a, None)
          /\ SetMapNode(m, a, n) \/ UNCHANGED map_auth_db
          /\ SendToChar(m, <<x, y>>)
          /\ UNCHANGED map_session
      BY <1>5 DEF pc_setpos
    <2>3. c # None
      BY NoneAssumption
    <2> HIDE DEF a, p
    <2>4. Saved(p, dest) \in Status
      BY <2>1, SavedType DEF PlayerFine
    <2>5. NodeFine(n)
      BY <2>1, <2>3, <2>4 DEF NodeFine, MapNode, PlayerFine, Player, Guest
    <2>6. x \in ToCharMsg /\ y \in ToCharMsg
      BY <2>1, <2>4, CharPackets DEF PlayerFine, Player
    <2> HIDE DEF n, x, y
    <2>7. <<x, y>> \in Seq(ToCharMsg)
      BY <2>6
    <2>8. ToCharOK'
      BY <2>2, <2>7, SendsToChar DEF IInv
    <2>9. NodesOK' /\ PlayersOK'
      BY <1>1, <2>1, <2>2, <2>5, NodeSet, NodesStay, PlayerSet
    <2> QED BY <1>1, <2>2, <2>8, <2>9 DEF MapGood, MapParts, IInv, SessionsOK
  <1> QED BY <1>2, <1>3, <1>4, <1>5

LEMMA MapTimerTypes ==
  ASSUME IInv, UNCHANGED next_id, NEW m \in MapServers, NEW a \in Accounts,
         clif_delayquit(m, a) \/ Progress(m, a) \/ chrif_save(m, a) \/ auth_db_cleanup_sub(m, a)
  PROVE  MapGood
  <1> DEFINE p == pc_db[m][a]
             n == map_auth_db[m][a]
  <1>0. UNCHANGED <<client, toMap>>
    BY DEF clif_delayquit, Progress, chrif_save, auth_db_cleanup_sub, linkMapVars
  <1>1. ClientsOK' /\ Moves /\ next_id' \in Nat /\ ToMapOK'
    BY <1>0, ClientsStay DEF IInv, ToMapOK
  <1>2. /\ p # None => PlayerFine(p) /\ Saved(p, m) \in Status
        /\ n # None => NodeFine(n)
    BY Tickets, SavedType DEF PlayerFine
  <1>3. ASSUME clif_delayquit(m, a) PROVE MapGood
    BY <1>0, <1>1, <1>3, QuitTypes DEF clif_delayquit, MapGood, MapParts, IInv, SessionsOK, BestOK
  <1>4. ASSUME Progress(m, a) PROVE MapGood
    <2> DEFINE q == [p EXCEPT !.status.ver = @ + 1]
    <2>1. /\ p # None /\ p.status.ver < MaxVersion
          /\ SetPlayer(m, a, q)
          /\ best' = [best EXCEPT ![p.char] = IF @ <= p.status.ver THEN p.status.ver + 1 ELSE @]
          /\ UNCHANGED <<map_auth_db, map_session, toChar>>
      BY <1>4 DEF Progress, linkMapVars
    <2>2. PlayerFine(p) /\ p.status.ver + 1 \in Versions /\ p.char \in Chars
      BY <1>2, <2>1, MaxVersionAssumption
         DEF PlayerFine, Player, Status, Versions, BlankVersion
    <2>3. PlayerFine(q)
      <3> HIDE DEF p
      <3>1. q = [p EXCEPT !.status = [p.status EXCEPT !.ver = p.status.ver + 1]]
        BY <2>2 DEF PlayerFine, Player, Status
      <3>2. [p.status EXCEPT !.ver = p.status.ver + 1] \in Status
        BY <2>2 DEF PlayerFine, Player, Status
      <3> HIDE DEF q
      <3> QED BY <2>2, <3>1, <3>2 DEF PlayerFine, Player, Guest
    <2>4. BestOK'
      BY <2>1, <2>2 DEF IInv, MapParts, BestOK
    <2> HIDE DEF q
    <2>5. PlayersOK'
      BY <1>1, <2>1, <2>3, PlayerSet
    <2> QED BY <1>1, <2>1, <2>4, <2>5, NodesStay DEF MapGood, MapParts, IInv, SessionsOK, ToCharOK
  <1>5. ASSUME chrif_save(m, a) PROVE MapGood
    <2>1. SaveChar(a, p.char, Saved(p, m), FALSE) \in ToCharMsg
      BY <1>2, <1>5, CharPackets DEF chrif_save, PlayerFine, Player
    <2>2. ToCharOK'
      BY <1>5, <2>1, OnePacket DEF chrif_save
    <2>3. UNCHANGED <<map_auth_db, pc_db, map_session, best>>
      BY <1>5 DEF chrif_save, mapVars
    <2> QED BY <1>1, <2>2, <2>3, NodesStay, PlayersStay
            DEF MapGood, MapParts, IInv, SessionsOK, BestOK
  <1>6. ASSUME auth_db_cleanup_sub(m, a) PROVE MapGood
    <2>0. n # None /\ NodeFine(n) /\ UNCHANGED <<pc_db, best>>
      BY <1>2, <1>6 DEF auth_db_cleanup_sub
    <2>1. CASE n.state = ST_LOGOUT
      <3>1. SaveChar(a, n.char, n.status, TRUE) \in ToCharMsg
        BY <2>0, CharPackets DEF NodeFine, MapNode
      <3>2. ToCharOK' /\ UNCHANGED <<map_auth_db, map_session>>
        BY <1>6, <2>1, <3>1, OnePacket DEF auth_db_cleanup_sub
      <3> QED BY <1>1, <2>0, <3>2, NodesStay, PlayersStay
              DEF MapGood, MapParts, IInv, SessionsOK, BestOK
    <2>2. CASE n.state # ST_LOGOUT
      <3>1. CharOffline(a, n.char) \in ToCharMsg
        BY <2>0, CharPackets DEF NodeFine, MapNode
      <3>2. ToCharOK'
        BY <1>6, <2>2, <3>1, OnePacket DEF auth_db_cleanup_sub
      <3>3. SetMapNode(m, a, None) /\ SetSessions(m, Detached(map_session[m], n.fd))
        BY <1>6, <2>2 DEF auth_db_cleanup_sub
      <3>4. Detached(map_session[m], n.fd) \in Sessions
        BY <2>0, ClosedType DEF IInv, MapParts, SessionsOK, NodeFine, MapNode
      <3>5. SessionsOK'
        BY <3>3, <3>4, SessionsSet DEF IInv, MapParts
      <3>6. NodesOK'
        BY <1>1, <3>3, NodeSet
      <3> QED BY <1>1, <2>0, <3>2, <3>5, <3>6, PlayersStay DEF MapGood, MapParts, IInv, BestOK
    <2> QED BY <2>1, <2>2
  <1> QED BY <1>3, <1>4, <1>5, <1>6

(* What the packets of the char-server say. *)
LEMMA MapPacketFields ==
  ASSUME NEW p \in ToMapMsg
  PROVE  /\ p.type # "ready" => p.account \in Accounts
         /\ p.type \in {"authok", "authfail", "changemapack", "saveack", "registers"}
              => p.char \in Chars
         /\ p.type = "authok" => p.status \in Status
         /\ p.type = "changemapack" => p.dest \in MapServers
  BY DEF ToMapMsg

(* A node is freed, and its session closed. *)
LEMMA FreedTypes ==
  ASSUME IInv, UNCHANGED next_id, ClientsOK', Moves, NEW m \in MapServers, NEW a \in Accounts,
         UNCHANGED <<pc_db, best>>,
         SetMapNode(m, a, None) \/ UNCHANGED map_auth_db,
         \/ UNCHANGED map_session
         \/ \E c \in Clients \cup {None} :
              \/ SetSessions(m, Detached(map_session[m], c))
              \/ SetSessions(m, Closed(map_session[m], c))
              \/ SetSessions(m, Detached(Closed(map_session[m], c), c))
  PROVE  MapParts'
  <1>1. next_id' \in Nat
    BY Tickets
  <1>2. map_session[m] \in Sessions
    BY DEF IInv, MapParts, SessionsOK
  <1>3. \A c \in Clients \cup {None} :
          /\ Detached(map_session[m], c) \in Sessions
          /\ Closed(map_session[m], c) \in Sessions
          /\ Detached(Closed(map_session[m], c), c) \in Sessions
    BY <1>2, ClosedType
  <1>4. SessionsOK'
    <2>1. CASE UNCHANGED map_session
      BY <2>1 DEF IInv, MapParts, SessionsOK
    <2>2. CASE ~UNCHANGED map_session
      <3>1. PICK ss \in Sessions : SetSessions(m, ss)
        BY <1>3, <2>2
      <3> QED BY <3>1, SessionsSet DEF IInv, MapParts
    <2> QED BY <2>1, <2>2
  <1>5. NodesOK'
    BY <1>1, NodeSet, NodesStay
  <1>6. PlayersOK'
    BY <1>1, PlayersStay
  <1> QED BY <1>4, <1>5, <1>6 DEF IInv, MapParts, BestOK

LEMMA MapPacketTypes ==
  ASSUME IInv, UNCHANGED next_id, NEW m \in MapServers, chrif_parse(m), ~chrif_on_ready(m)
  PROVE  MapGood
  <1> DEFINE p == Head(toMap[m])
             a == p.account
             n == map_auth_db[m][a]
             pl == pc_db[m][a]
  <1>0. ToMapOK' /\ p \in ToMapMsg
    BY MapReceivesType DEF IInv, chrif_parse, chrif_authok, chrif_authfail, intif_parse_Registers,
       clif_charselectok, chrif_changemapserverack, chrif_disconnectplayer, chrif_save_ack
  <1>1. UNCHANGED client => ClientsOK' /\ Moves
    BY ClientsStay
  <1>2. next_id' \in Nat
    BY Tickets
  <1>3. ASSUME a \in Accounts
        PROVE  /\ n # None => NodeFine(n) /\ n.fd \in Clients \cup {None} /\ n.char \in Chars
               /\ pl # None => PlayerFine(pl) /\ pl.fd \in Clients \cup {None}
    BY <1>3, Tickets DEF NodeFine, PlayerFine, MapNode, Player
  <1>4. ASSUME chrif_authok(m) PROVE MapGood
    <2>1. p.type = "authok" /\ UNCHANGED <<pc_db, best, client>>
      BY <1>4 DEF chrif_authok, MapReceives
    <2>2. a \in Accounts /\ p.char \in Chars /\ p.status \in Status
      BY <1>0, <2>1, MapPacketFields
    <2>3. ToCharOK'
      <3>1. RegistryReq(a, p.char) \in ToCharMsg
        BY <2>2, CharPackets DEF RegistryReq, ToCharMsg
      <3>2. n # None => CharOffline(a, n.char) \in ToCharMsg
        BY <1>3, <2>2 DEF CharOffline, ToCharMsg
      <3>3. \/ UNCHANGED toChar
            \/ SendToChar(m, <<RegistryReq(a, p.char)>>)
            \/ n # None /\ SendToChar(m, <<CharOffline(a, n.char)>>)
        BY <1>4 DEF chrif_authok
      <3> QED BY <3>1, <3>2, <3>3, OnePacket DEF IInv, ToCharOK
    <2>4. CASE n # None /\ SetMapNode(m, a, [n EXCEPT !.status = p.status])
               /\ UNCHANGED map_session
      <3>1. NodeFine([n EXCEPT !.status = p.status])
        <4>1. NodeFine(n)
          BY <1>3, <2>2, <2>4
        <4> HIDE DEF n
        <4> QED BY <2>2, <4>1 DEF NodeFine, MapNode, Guest
      <3>2. NodesOK'
        BY <1>1, <1>2, <2>1, <2>2, <2>4, <3>1, NodeSet
      <3> QED BY <1>0, <1>1, <1>2, <2>1, <2>3, <2>4, <3>2, PlayersStay
              DEF MapGood, MapParts, IInv, SessionsOK, BestOK
    <2>5. CASE \/ UNCHANGED <<map_auth_db, map_session>>
               \/ /\ n # None
                  /\ \/ /\ SetMapNode(m, a, None)
                        /\ SetSessions(m, Detached(Closed(map_session[m], n.fd), n.fd))
                     \/ /\ SetSessions(m, Closed(map_session[m], n.fd))
                        /\ UNCHANGED map_auth_db
      <3> HIDE DEF p, a, n
      <3>1. MapParts'
        BY <1>1, <1>3, <2>1, <2>2, <2>5, FreedTypes
      <3> QED BY <1>0, <1>1, <2>1, <2>3, <3>1 DEF MapGood
    <2> QED BY <1>4, <2>4, <2>5 DEF chrif_authok
  <1>5. ASSUME chrif_authfail(m) PROVE MapGood
    <2>1. p.type = "authfail" /\ UNCHANGED <<pc_db, best, client, toChar>>
      BY <1>5 DEF chrif_authfail, MapReceives
    <2>2. a \in Accounts
      BY <1>0, <2>1, MapPacketFields
    <2>3. \/ UNCHANGED <<map_auth_db, map_session>>
          \/ /\ n # None /\ SetMapNode(m, a, None)
             /\ SetSessions(m, Detached(Closed(map_session[m], n.fd), n.fd))
      BY <1>5 DEF chrif_authfail, HasNode
    <2> HIDE DEF p, a, n
    <2>4. MapParts'
      BY <1>1, <1>3, <2>1, <2>2, <2>3, FreedTypes
    <2> QED BY <1>0, <1>1, <2>1, <2>4 DEF MapGood, IInv, ToCharOK
  <1>6. ASSUME intif_parse_Registers(m) PROVE MapGood
    <2>1. p.type = "registers" /\ UNCHANGED <<map_session, best, client, toChar>>
      BY <1>6 DEF intif_parse_Registers, MapReceives
    <2>2. a \in Accounts
      BY <1>0, <2>1, MapPacketFields
    <2> DEFINE new == [char |-> n.char, id |-> n.id, fd |-> n.fd, status |-> n.status]
    <2>3. \/ UNCHANGED <<pc_db, map_auth_db>>
          \/ n # None /\ SetPlayer(m, a, new) /\ SetMapNode(m, a, None)
      BY <1>6 DEF intif_parse_Registers, HasNode, chrif_auth_finished
    <2>4. n # None => PlayerFine(new)
      BY <1>3, <2>2 DEF NodeFine, MapNode, PlayerFine, Player, Guest
    <2> HIDE DEF new, p, a, n
    <2>5. NodesOK' /\ PlayersOK'
      BY <1>1, <1>2, <2>1, <2>2, <2>3, <2>4, NodeSet, NodesStay, PlayerSet, PlayersStay
    <2> QED BY <1>0, <1>1, <2>1, <2>5 DEF MapGood, IInv, ToCharOK, MapParts, SessionsOK, BestOK
  <1>7. ASSUME clif_charselectok(m) PROVE MapGood
    <2>1. p.type = "charselectack" /\ UNCHANGED <<map_auth_db, pc_db, map_session, best, toChar>>
      BY <1>7 DEF clif_charselectok, MapReceives, mapVars
    <2>2. a \in Accounts
      BY <1>0, <2>1, MapPacketFields
    <2>3. ClientsOK' /\ Moves
      <3>1. CASE /\ pl # None /\ pl.fd # None /\ Listens(pl.fd, pl.id)
                 /\ client' = [client EXCEPT ![pl.fd].dest = ToCharServer]
        <4>1. PlayerFine(pl)
          BY <1>3, <2>2, <3>1
        <4>2. ToCharServer \in Destinations /\ ToCharServer \notin MapServers
          BY MapServersAssumption DEF Destinations, ToCharServer
        <4> HIDE DEF pl
        <4>3. pl.fd \in Clients /\ client[pl.fd].id # NoId
          BY <3>1, <4>1 DEF Listens, PlayerFine, Player, Ids, NoId
        <4>4. ToCharServer # Nowhere => client[pl.fd].id # NoId
          BY <4>3
        <4>5. ToCharServer \in MapServers => client[pl.fd].char \in Chars
          BY <4>2
        <4> QED BY <3>1, <4>2, <4>3, <4>4, <4>5, ClientGoes
      <3>2. CASE UNCHANGED client
        BY <1>1, <3>2
      <3> QED BY <1>7, <3>1, <3>2 DEF clif_charselectok
    <2> QED BY <1>0, <1>2, <2>1, <2>3, NodesStay, PlayersStay
            DEF MapGood, MapParts, IInv, ToCharOK, SessionsOK, BestOK
  <1>8. ASSUME chrif_changemapserverack(m) PROVE MapGood
    <2>1. p.type = "changemapack" /\ UNCHANGED <<pc_db, best>>
      BY <1>8 DEF chrif_changemapserverack, MapReceives
    <2>2. a \in Accounts /\ p.char \in Chars /\ p.dest \in MapServers
      BY <1>0, <2>1, MapPacketFields
    <2>3. ClientsOK' /\ Moves
      <3>1. CASE /\ HasNode(m, a, p.char, ST_MAPCHANGE) /\ Listens(n.fd, n.id)
                 /\ client' = [client EXCEPT ![n.fd].dest = p.dest]
        <4>1. NodeFine(n) /\ n.state = ST_MAPCHANGE
          BY <1>3, <2>2, <3>1 DEF HasNode
        <4> HIDE DEF n
        <4>2. n.fd \in Clients /\ client[n.fd].id # NoId /\ client[n.fd].char \in Chars
          BY <3>1, <4>1 DEF Listens, NodeFine, MapNode, Guest, Ids, NoId
        <4>3. p.dest \in Destinations
          BY <2>2 DEF Destinations
        <4> QED BY <3>1, <4>2, <4>3, ClientGoes
      <3>2. CASE UNCHANGED client
        BY <1>1, <3>2
      <3> QED BY <1>8, <3>1, <3>2 DEF chrif_changemapserverack
    <2>4. ToCharOK'
      <3>1. CharOffline(a, p.char) \in ToCharMsg
        BY <2>2 DEF CharOffline, ToCharMsg
      <3>2. UNCHANGED toChar \/ SendToChar(m, <<CharOffline(a, p.char)>>)
        BY <1>8 DEF chrif_changemapserverack
      <3> QED BY <3>1, <3>2, OnePacket DEF IInv, ToCharOK
    <2>5. \/ UNCHANGED <<map_auth_db, map_session>>
          \/ /\ n # None /\ SetMapNode(m, a, None)
             /\ \/ SetSessions(m, Detached(Closed(map_session[m], n.fd), n.fd))
                \/ SetSessions(m, Detached(map_session[m], n.fd))
      BY <1>8 DEF chrif_changemapserverack, HasNode
    <2> HIDE DEF p, a, n
    <2>6. MapParts'
      BY <1>3, <2>1, <2>2, <2>3, <2>5, FreedTypes
    <2> QED BY <1>0, <2>3, <2>4, <2>6 DEF MapGood
  <1>9. ASSUME chrif_disconnectplayer(m) PROVE MapGood
    <2>1. p.type = "disconnect" /\ UNCHANGED <<pc_db, best, client, toChar>>
      BY <1>9 DEF chrif_disconnectplayer, MapReceives
    <2>2. a \in Accounts
      BY <1>0, <2>1, MapPacketFields
    <2>3. \/ /\ n # None /\ SetMapNode(m, a, None)
             /\ SetSessions(m, Detached(map_session[m], n.fd))
          \/ UNCHANGED <<map_auth_db, map_session>>
          \/ pl # None /\ SetSessions(m, Closed(map_session[m], pl.fd)) /\ UNCHANGED map_auth_db
      BY <1>9 DEF chrif_disconnectplayer
    <2> HIDE DEF p, a, n, pl
    <2>4. MapParts'
      BY <1>1, <1>3, <2>1, <2>2, <2>3, FreedTypes
    <2> QED BY <1>0, <1>1, <2>1, <2>4 DEF MapGood, IInv, ToCharOK
  <1>10. ASSUME chrif_save_ack(m) PROVE MapGood
    <2>1. p.type = "saveack" /\ UNCHANGED <<pc_db, map_session, best, client, toChar>>
      BY <1>10 DEF chrif_save_ack, MapReceives
    <2>2. a \in Accounts
      BY <1>0, <2>1, MapPacketFields
    <2>3. UNCHANGED map_auth_db \/ SetMapNode(m, a, None)
      BY <1>10 DEF chrif_save_ack
    <2> HIDE DEF p, a, n
    <2>4. MapParts'
      BY <1>1, <2>1, <2>2, <2>3, FreedTypes
    <2> QED BY <1>0, <1>1, <2>1, <2>4 DEF MapGood, IInv, ToCharOK
  <1> QED BY <1>4, <1>5, <1>6, <1>7, <1>8, <1>9, <1>10 DEF chrif_parse

LEMMA MapReadyTypes ==
  ASSUME IInv, UNCHANGED next_id, NEW m \in MapServers, chrif_on_ready(m)
  PROVE  MapGood
  <1> DEFINE node(a) == map_auth_db[m][a]
             fails(a) == node(a) # None /\ node(a).state = ST_LOGIN
             moves(a) == node(a) # None /\ node(a).state = ST_MAPCHANGE
             users == [a \in Accounts |-> IF pc_db[m][a] = None THEN None ELSE pc_db[m][a].char]
             sent == [a \in Accounts |-> ResentNode(a, node(a))]
             out == <<Users(users)>> \o Joined(sent)
             after(c) == LET s == map_session[m][c] IN
               IF s = None \/ ~\E a \in Accounts : (fails(a) \/ moves(a)) /\ node(a).fd = c THEN s
               ELSE [s EXCEPT !.eof = TRUE,
                              !.sd = @ /\ ~\E a \in Accounts : fails(a) /\ node(a).fd = c]
             ss == [c \in Clients |-> after(c)]
             row == [a \in Accounts |-> IF fails(a) THEN None ELSE node(a)]
  <1>1. ToMapOK' /\ UNCHANGED <<pc_db, best, client>>
    BY MapReceivesType DEF IInv, chrif_on_ready
  <1>2. ClientsOK' /\ Moves /\ next_id' \in Nat
    BY <1>1, ClientsStay
  <1>3. /\ toChar' = [toChar EXCEPT ![m] = out]
        /\ map_auth_db' = [map_auth_db EXCEPT ![m] = row]
        /\ SetSessions(m, ss)
    BY DEF chrif_on_ready, SetSessions
  <1>4. \A a \in Accounts : node(a) # None => NodeFine(node(a))
    BY Tickets
  <1>5. ss \in Sessions
    <2> SUFFICES ASSUME NEW c \in Clients PROVE after(c) \in MapSession \cup {None}
      BY DEF Sessions
    <2> DEFINE s == map_session[m][c]
    <2>1. s \in MapSession \cup {None}
      BY DEF IInv, MapParts, SessionsOK, Sessions
    <2>2. s # None => \A x, y \in BOOLEAN : [s EXCEPT !.eof = x, !.sd = y] \in MapSession
      BY <2>1 DEF MapSession
    <2>3. s # None => s.sd \in BOOLEAN
      BY <2>1 DEF MapSession
    <2> HIDE DEF fails, moves, node, s
    <2> QED BY <2>1, <2>2, <2>3 DEF s
  <1>6. users \in [Accounts -> Chars \cup {None}]
    BY Tickets DEF PlayerFine, Player
  <1>7. Users(users) \in ToCharMsg
    <2> HIDE DEF users
    <2> QED BY <1>6 DEF Users, ToCharMsg
  <1>8. sent \in [Accounts -> Seq(ToCharMsg)]
    <2> SUFFICES ASSUME NEW a \in Accounts PROVE ResentNode(a, node(a)) \in Seq(ToCharMsg)
      OBVIOUS
    <2>1. node(a) = None \/ NodeFine(node(a))
      BY <1>4
    <2> DEFINE n == node(a)
    <2> HIDE DEF node, n
    <2>2. n # None => /\ CharOffline(a, n.char) \in ToCharMsg
                      /\ SaveChar(a, n.char, n.status, TRUE) \in ToCharMsg
                      /\ n.state \in {ST_LOGIN, ST_LOGOUT, ST_MAPCHANGE}
      BY <2>1, CharPackets DEF n, NodeFine, MapNode
    <2>3. ST_LOGIN # ST_LOGOUT /\ ST_LOGIN # ST_MAPCHANGE /\ ST_LOGOUT # ST_MAPCHANGE
      BY DEF ST_LOGIN, ST_LOGOUT, ST_MAPCHANGE
    <2>4. CASE n = None
      BY <2>4 DEF ResentNode, n
    <2>5. CASE n # None /\ n.state = ST_LOGIN
      <3>1. ResentNode(a, n) = <<CharOffline(a, n.char)>>
        BY <2>3, <2>5 DEF ResentNode
      <3> QED BY <2>2, <2>5, <3>1 DEF n
    <2>6. CASE n # None /\ n.state = ST_LOGOUT
      <3> DEFINE x == SaveChar(a, n.char, n.status, TRUE)
      <3>1. ResentNode(a, n) = <<x>>
        BY <2>3, <2>6 DEF ResentNode
      <3>2. x \in ToCharMsg
        BY <2>2, <2>6
      <3> HIDE DEF x
      <3>3. <<x>> \in Seq(ToCharMsg)
        BY <3>2
      <3> QED BY <3>1, <3>3 DEF n
    <2>7. CASE n # None /\ n.state = ST_MAPCHANGE
      <3>1. ResentNode(a, n) = <<>>
        BY <2>3, <2>7 DEF ResentNode
      <3> QED BY <3>1 DEF n
    <2> QED BY <2>2, <2>4, <2>5, <2>6, <2>7
  <1>9. out \in Seq(ToCharMsg)
    <2>1. <<Users(users)>> \in Seq(ToCharMsg)
      BY <1>7
    <2> HIDE DEF sent
    <2>2. Joined(sent) \in Seq(ToCharMsg)
      BY <1>8, JoinedType
    <2> QED BY <2>1, <2>2, ConcatProperties, Zenon
  <1> HIDE DEF out, ss
  <1>10. ToCharOK'
    BY <1>3, <1>9 DEF IInv, ToCharOK
  <1>11. SessionsOK'
    BY <1>3, <1>5, SessionsSet DEF IInv, MapParts
  <1>12. NodesOK'
    <2>1. /\ map_auth_db \in [MapServers -> [Accounts -> MapNode \cup {None}]]
          /\ \A x \in MapServers, b \in Accounts :
               map_auth_db[x][b] # None => NodeFine(map_auth_db[x][b])
      BY Tickets DEF IInv, MapParts, NodesOK
    <2>2. row \in [Accounts -> MapNode \cup {None}]
      BY <1>4 DEF NodeFine
    <2>3. map_auth_db' \in [MapServers -> [Accounts -> MapNode \cup {None}]]
      BY <1>3, <2>1, <2>2
    <2>4. \A x \in MapServers, b \in Accounts :
            map_auth_db'[x][b] = None \/ map_auth_db'[x][b] = map_auth_db[x][b]
      BY <1>3, <2>1
    <2> QED BY <1>2, <2>1, <2>3, <2>4, GuestsStay DEF NodesOK, NodeFine, Guest
  <1>13. PlayersOK'
    BY <1>1, <1>2, PlayersStay
  <1> QED BY <1>1, <1>2, <1>10, <1>11, <1>12, <1>13 DEF MapGood, MapParts, IInv, BestOK

-----------------------------------------------------------------------------
(* The steps of the char-server.  What one does to the login-server's link *)
(* is what any char-server may do: it takes a packet, and sends one.       *)
LoginSend == \/ UNCHANGED toLogin
             \/ \E msg \in ToLoginMsg : toLogin' = [toLogin EXCEPT ![Me] = Append(@, msg)]
LoginTake == \/ UNCHANGED fromLogin
             \/ fromLogin[Me] # <<>> /\ fromLogin' = [fromLogin EXCEPT ![Me] = Tail(@)]

CharGood == /\ CharTypeOK' /\ ToCharOK' /\ ToMapOK' /\ ClientsOK' /\ Moves
            /\ LoginSend /\ LoginTake

EntriesOK == online_char_db \in [Accounts -> Entry \cup {None}]
CharNodesOK == char_auth_db \in [Accounts -> Node \cup {None}]
CharSessionsOK == char_session \in [Clients -> CharSession \cup {None}]
SavesOK == char_db \in [Chars -> Status]

LEMMA EntryTypes ==
  ASSUME NEW e \in Entry \cup {None}
  PROVE  /\ Ensured(e) \in Entry /\ char_set_charselect(e) \in Entry
         /\ \A ch \in Chars, m \in MapServers \cup {UnknownServer} :
              char_set_char_online(e, m, ch) \in Entry
         /\ \A ch : char_set_char_offline(e, ch) \in Entry \cup {None}
         /\ \A m : char_db_setoffline(e, m) \in Entry \cup {None}
  <1>1. Ensured(e) \in Entry
    BY DEF Ensured, Entry
  <1>2. char_set_charselect(e) \in Entry
    BY <1>1 DEF char_set_charselect, Entry
  <1>3. \A ch \in Chars, m \in MapServers \cup {UnknownServer} :
          char_set_char_online(e, m, ch) \in Entry
    BY <1>1 DEF char_set_char_online, Entry
  <1>4. \A ch : char_set_char_offline(e, ch) \in Entry \cup {None}
    BY DEF char_set_char_offline, Entry
  <1>5. \A m : char_db_setoffline(e, m) \in Entry \cup {None}
    BY DEF char_db_setoffline, Entry
  <1> QED BY <1>1, <1>2, <1>3, <1>4, <1>5

LEMMA EntrySet ==
  ASSUME EntriesOK, NEW a \in Accounts, NEW e \in Entry \cup {None}, SetEntry(a, e)
  PROVE  EntriesOK'
  BY DEF EntriesOK, SetEntry

LEMMA CharNodeSet ==
  ASSUME CharNodesOK, NEW a \in Accounts, NEW n \in Node \cup {None}, SetNode(a, n)
  PROVE  CharNodesOK'
  BY DEF CharNodesOK, SetNode

LEMMA CharSessionSet ==
  ASSUME CharSessionsOK, NEW c \in Clients, NEW s \in CharSession \cup {None}, SetSession(c, s)
  PROVE  CharSessionsOK'
  BY DEF CharSessionsOK, SetSession

Outgoing == [MapServers -> Seq(ToMapMsg)]

LEMMA KickType ==
  ASSUME NEW a \in Accounts, NEW cond, NEW e
  PROVE  Kick(cond, a, e) \in Outgoing
  <1> DEFINE p == DisconnectPlayer(a)
  <1>1. p \in ToMapMsg
    BY MapPackets
  <1>2. Kick(cond, a, e) = [m \in MapServers |-> IF cond /\ e.server = m THEN <<p>> ELSE <<>>]
    BY DEF Kick
  <1> HIDE DEF p
  <1>3. <<p>> \in Seq(ToMapMsg)
    BY <1>1
  <1> QED BY <1>2, <1>3 DEF Outgoing

LEMMA ToType ==
  ASSUME NEW m \in MapServers, NEW p \in ToMapMsg
  PROVE  To(m, p) \in Outgoing
  <1>1. <<p>> \in Seq(ToMapMsg)
    OBVIOUS
  <1> QED BY <1>1 DEF To, Outgoing

LEMMA OneToMap ==
  ASSUME ToMapOK, NEW m \in MapServers, NEW p \in ToMapMsg, SendToMaps(To(m, p))
  PROVE  ToMapOK'
  BY ToType, SendsToMaps DEF Outgoing

LEMMA Kicks ==
  ASSUME ToMapOK, NEW a \in Accounts, NEW cond, NEW e, SendToMaps(Kick(cond, a, e))
  PROVE  ToMapOK'
  BY KickType, SendsToMaps DEF Outgoing

LEMMA OneToLogin ==
  ASSUME IInv, NEW msg \in ToLoginMsg, SendToLogin(<<msg>>)
  PROVE  LoginSend
  <1>1. toLogin \in [CharServers -> Seq(ToLoginMsg)]
    BY DEF IInv, LoginTypes, LinkLoginTypeOK
  <1>2. toLogin[Me] \o <<msg>> = Append(toLogin[Me], msg)
    BY <1>1, MeAssumption
  <1> QED BY <1>2 DEF SendToLogin, LoginSend

LEMMA SaysOnline ==
  ASSUME IInv, NEW a \in Accounts, SendToLogin(<<SetAccOnline(a)>>)
  PROVE  LoginSend
  <1>1. SetAccOnline(a) \in ToLoginMsg
    BY DEF SetAccOnline, ToLoginMsg
  <1> QED BY <1>1, OneToLogin

LEMMA SaysNothing ==
  ASSUME IInv, SendToLogin(<<>>)
  PROVE  UNCHANGED toLogin
  <1>1. toLogin \in [CharServers -> Seq(ToLoginMsg)]
    BY DEF IInv, LoginTypes, LinkLoginTypeOK
  <1>2. toLogin[Me] \o <<>> = toLogin[Me]
    BY <1>1, MeAssumption
  <1> QED BY <1>1, <1>2, MeAssumption DEF SendToLogin

LEMMA SaysOffline ==
  ASSUME IInv, NEW a \in Accounts, NEW e, NEW ch, SendToLogin(OfflineNotice(a, e, ch))
  PROVE  LoginSend
  <1>1. SetAccOffline(a) \in ToLoginMsg
    BY DEF SetAccOffline, ToLoginMsg
  <1>2. CASE OfflineNotice(a, e, ch) = <<>>
    BY <1>2, SaysNothing DEF LoginSend
  <1>3. CASE OfflineNotice(a, e, ch) = <<SetAccOffline(a)>>
    BY <1>1, <1>3, OneToLogin
  <1> QED BY <1>2, <1>3 DEF OfflineNotice

(* The parts of the char-server's types. *)
LEMMA CharParts ==
  ASSUME IInv
  PROVE  /\ EntriesOK /\ CharNodesOK /\ CharSessionsOK /\ SavesOK /\ ToMapOK /\ ToCharOK
         /\ \A a \in Accounts : online_char_db[a] \in Entry \cup {None}
         /\ \A c \in Clients : char_session[c] # None => char_session[c] \in CharSession
  BY DEF IInv, CharTypeOK, EntriesOK, CharNodesOK, CharSessionsOK, SavesOK

LEMMA AuthOkTypes ==
  ASSUME IInv, NEW c \in Clients, NEW s \in CharSession, char_auth_ok(c, s)
  PROVE  EntriesOK' /\ CharSessionsOK' /\ ToMapOK' /\ LoginSend
  <1> DEFINE a == s.account
             e == online_char_db[a]
  <1>1. a \in Accounts /\ e \in Entry \cup {None}
    BY CharParts DEF CharSession
  <1>2. CASE /\ PlaysElsewhere(a)
             /\ SendToMaps(Kick(TRUE, a, e))
             /\ SetEntry(a, [e EXCEPT !.timer = TRUE])
             /\ SetSession(c, s)
             /\ UNCHANGED toLogin
    <2>1. [e EXCEPT !.timer = TRUE] \in Entry
      BY <1>1, <1>2 DEF PlaysElsewhere, OnMapServer, Entry
    <2> HIDE DEF e
    <2>2. ToMapOK'
      BY <1>1, <1>2, CharParts, Kicks
    <2>3. EntriesOK'
      BY <1>1, <1>2, <2>1, CharParts, EntrySet
    <2>4. CharSessionsOK'
      BY <1>2, CharParts, CharSessionSet
    <2> QED BY <1>2, <2>2, <2>3, <2>4 DEF LoginSend
  <1>3. CASE /\ SetSession(c, s)
             /\ UNCHANGED <<toMap, online_char_db, toLogin>>
    <2>1. CharSessionsOK'
      BY <1>3, CharParts, CharSessionSet
    <2> QED BY <1>3, <2>1, CharParts DEF LoginSend, EntriesOK, ToMapOK
  <1>4. CASE /\ SetEntry(a, IF e = None THEN char_set_charselect(e)
                                        ELSE [char_set_charselect(e) EXCEPT !.fd = c])
             /\ SetSession(c, [s EXCEPT !.auth = TRUE])
             /\ SendToLogin(<<SetAccOnline(a)>>)
             /\ UNCHANGED toMap
    <2>1. char_set_charselect(e) \in Entry
      BY <1>1, EntryTypes
    <2> DEFINE f == char_set_charselect(e)
               new == IF e = None THEN f ELSE [f EXCEPT !.fd = c]
               t == [s EXCEPT !.auth = TRUE]
    <2>2. new \in Entry
      <3> HIDE DEF f
      <3> QED BY <2>1 DEF Entry, f
    <2>3. t \in CharSession
      BY DEF CharSession
    <2>4. SetEntry(a, new) /\ SetSession(c, t)
      BY <1>4
    <2> HIDE DEF new, t
    <2>5. EntriesOK'
      BY <1>1, <2>2, <2>4, CharParts, EntrySet
    <2>6. CharSessionsOK'
      BY <2>3, <2>4, CharParts, CharSessionSet
    <2>7. LoginSend
      BY <1>1, <1>4, SaysOnline
    <2> QED BY <1>4, <2>5, <2>6, <2>7, CharParts DEF ToMapOK
  <1> QED BY <1>2, <1>3, <1>4 DEF char_auth_ok

(* The clients of the char-server. *)
LEMMA CharClientTypes ==
  ASSUME IInv, UNCHANGED next_id, NEW c \in Clients,
         \/ chclif_parse_reqtoconnect(c)
         \/ \E ch \in Chars : chclif_parse_charselect(c, ch)
         \/ CharHangUp(c)
         \/ CharSessionEnds(c)
  PROVE  CharGood
  <1> DEFINE s == char_session[c]
  <1>1. ASSUME chclif_parse_reqtoconnect(c) PROVE CharGood
    <2> DEFINE a == client[c].account
               id == client[c].id
               new == NewSession(a, id)
    <2>1. a \in Accounts /\ id \in Ids
      BY <1>1 DEF chclif_parse_reqtoconnect, IInv, ClientsOK, ToCharServer, Nowhere, Ids, NoId
    <2>2. ClientsOK' /\ Moves
      <3>1. Nowhere \in Destinations /\ Nowhere \notin MapServers
        BY MapServersAssumption DEF Nowhere, Destinations
      <3> QED BY <1>1, <3>1, ClientGoes DEF chclif_parse_reqtoconnect
    <2>3. new \in CharSession
      BY <2>1 DEF NewSession, CharSession
    <2>4. UNCHANGED <<char_db, fromLogin, toChar>>
      BY <1>1 DEF chclif_parse_reqtoconnect
    <2>5. CASE SetNode(a, None) /\ char_auth_ok(c, new)
      <3> HIDE DEF new, a
      <3>1. CharNodesOK'
        BY <2>1, <2>5, CharParts, CharNodeSet
      <3>2. EntriesOK' /\ CharSessionsOK' /\ ToMapOK' /\ LoginSend
        BY <2>3, <2>5, AuthOkTypes
      <3> QED BY <2>2, <2>4, <3>1, <3>2, CharParts DEF CharGood, CharTypeOK, EntriesOK,
                 CharNodesOK, CharSessionsOK, SavesOK, ToCharOK, LoginTake
    <2>6. CASE /\ SetSession(c, new) /\ SendToLogin(<<ReqAuth(a, id, c)>>)
               /\ UNCHANGED <<char_auth_db, online_char_db, toMap>>
      <3>1. ReqAuth(a, id, c) \in ToLoginMsg
        BY <2>1 DEF ReqAuth, ToLoginMsg
      <3>2. LoginSend
        BY <2>6, <3>1, OneToLogin
      <3> HIDE DEF new
      <3>3. CharSessionsOK'
        BY <2>3, <2>6, CharParts, CharSessionSet
      <3> QED BY <2>2, <2>4, <2>6, <3>2, <3>3, CharParts DEF CharGood, CharTypeOK, EntriesOK,
                 CharNodesOK, CharSessionsOK, SavesOK, ToCharOK, ToMapOK, LoginTake
    <2> QED BY <1>1, <2>5, <2>6 DEF chclif_parse_reqtoconnect
  <1>2. ASSUME NEW ch \in Chars, chclif_parse_charselect(c, ch) PROVE CharGood
    <2> DEFINE a == s.account
               e == online_char_db[a]
               new == char_set_char_online(e, UnknownServer, ch)
               n == [char |-> ch, id |-> s.id]
    <2>1. s \in CharSession /\ a \in Accounts /\ s.id \in Ids /\ client[c].id = s.id
      BY <1>2, CharParts DEF chclif_parse_charselect, CharSession
    <2>2. new \in Entry
      BY <2>1, CharParts, EntryTypes
    <2>3. n \in Node
      BY <2>1 DEF Node
    <2>4. /\ SetEntry(a, new) /\ SetNode(a, n)
          /\ SendToMaps(Kick(Conflict(e, UnknownServer), a, e))
          /\ SendToLogin(<<SetAccOnline(a)>>)
          /\ UNCHANGED <<char_session, fromLogin, toChar>>
      BY <1>2 DEF chclif_parse_charselect
    <2>5. PICK m \in connected : /\ char_db' = [char_db EXCEPT ![ch].place = m]
                                 /\ client' = [client EXCEPT ![c].char = ch, ![c].dest = m]
      BY <1>2 DEF chclif_parse_charselect
    <2>6. m \in MapServers
      BY MapServersAssumption DEF IInv, StateOK
    <2> HIDE DEF a, e, new, n, s
    <2>7. EntriesOK'
      BY <2>1, <2>2, <2>4, CharParts, EntrySet
    <2>8. CharNodesOK'
      BY <2>1, <2>3, <2>4, CharParts, CharNodeSet
    <2>9. ToMapOK'
      BY <2>1, <2>4, CharParts, Kicks
    <2>10. LoginSend
      BY <2>1, <2>4, SaysOnline
    <2>11. SavesOK'
      BY <2>5, <2>6, CharParts DEF SavesOK, Status
    <2>12. ClientsOK' /\ Moves
      <3>1. client \in [Clients -> [account : Accounts \cup {None}, char : Chars \cup {None},
                                    id : Ids \cup {NoId}, dest : Destinations]]
        BY DEF IInv, ClientsOK
      <3>2. /\ \A b \in Clients : b # c => client'[b] = client[b]
            /\ client'[c].account = client[c].account /\ client'[c].char = ch
            /\ client'[c].id = client[c].id /\ client'[c].dest = m
        BY <2>5, <3>1
      <3>3. client' \in [Clients -> [account : Accounts \cup {None}, char : Chars \cup {None},
                                     id : Ids \cup {NoId}, dest : Destinations]]
        BY <2>5, <2>6, <3>1 DEF Destinations
      <3>4. next_id \in Nat /\ client[c].id # NoId
        BY <2>1, Tickets DEF Ids, NoId
      <3> QED BY <3>2, <3>3, <3>4 DEF IInv, ClientsOK, Moves
    <2> QED BY <2>4, <2>7, <2>8, <2>9, <2>10, <2>11, <2>12, CharParts DEF CharGood, CharTypeOK,
               EntriesOK, CharNodesOK, CharSessionsOK, SavesOK, ToCharOK, LoginTake
  <1>3. ASSUME CharHangUp(c) PROVE CharGood
    <2>1. [s EXCEPT !.eof = TRUE] \in CharSession
      BY <1>3, CharParts DEF CharHangUp, CharSession
    <2>2. CharSessionsOK'
      BY <1>3, <2>1, CharParts, CharSessionSet DEF CharHangUp
    <2>3. ClientsOK' /\ Moves
      BY <1>3, ClientsStay DEF CharHangUp
    <2> QED BY <1>3, <2>2, <2>3, CharParts DEF CharHangUp, linkLoginVars, linkMapVars, CharGood,
               CharTypeOK, EntriesOK, CharNodesOK, CharSessionsOK, SavesOK, ToCharOK, ToMapOK,
               LoginTake, LoginSend
  <1>4. ASSUME CharSessionEnds(c) PROVE CharGood
    <2> DEFINE a == s.account
               e == online_char_db[a]
               d == IF e # None /\ e.fd = c THEN [e EXCEPT !.fd = None] ELSE e
    <2>1. s \in CharSession /\ a \in Accounts
      BY <1>4, CharParts DEF CharSessionEnds, CharSession
    <2>2. e \in Entry \cup {None}
      BY <2>1, CharParts
    <2>3. d \in Entry \cup {None}
      <3> HIDE DEF e
      <3> QED BY <2>2 DEF Entry
    <2>4. /\ SetSession(c, None)
          /\ \/ UNCHANGED <<online_char_db, toLogin>>
             \/ /\ SetEntry(a, char_set_char_offline(d, None))
                /\ SendToLogin(OfflineNotice(a, d, None))
             \/ SetEntry(a, d) /\ UNCHANGED toLogin
          /\ UNCHANGED <<char_auth_db, char_db, fromLogin, toChar, toMap, client>>
      BY <1>4 DEF CharSessionEnds, linkMapVars
    <2> HIDE DEF d, a
    <2>5. char_set_char_offline(d, None) \in Entry \cup {None}
      BY <2>3, EntryTypes
    <2>6. EntriesOK'
      BY <2>1, <2>3, <2>4, <2>5, CharParts, EntrySet DEF EntriesOK
    <2>7. CharSessionsOK'
      BY <2>4, CharParts, CharSessionSet
    <2>8. LoginSend
      BY <2>1, <2>4, SaysOffline DEF LoginSend
    <2>9. ClientsOK' /\ Moves
      BY <2>4, ClientsStay
    <2> QED BY <2>4, <2>6, <2>7, <2>8, <2>9, CharParts DEF CharGood, CharTypeOK, EntriesOK,
               CharNodesOK, CharSessionsOK, SavesOK, ToCharOK, ToMapOK, LoginTake
  <1> QED BY <1>1, <1>2, <1>3, <1>4

(* The packets of the login-server. *)
LEMMA CharLoginTypes ==
  ASSUME IInv, UNCHANGED next_id, chlogif_parse_ackaccreq \/ chlogif_parse_askkick
  PROVE  CharGood
  <1> DEFINE p == Head(fromLogin[Me])
  <1>1. fromLogin[Me] \in Seq(FromLoginMsg) /\ fromLogin[Me] # <<>>
    BY MeAssumption DEF chlogif_parse_ackaccreq, chlogif_parse_askkick, CharHearsLogin, IInv,
       LoginTypes, LinkLoginTypeOK
  <1>2. p \in FromLoginMsg /\ LoginTake
    <2>1. p \in FromLoginMsg
      BY <1>1
    <2>2. fromLogin' = [fromLogin EXCEPT ![Me] = Tail(@)]
      BY DEF chlogif_parse_ackaccreq, chlogif_parse_askkick, CharHearsLogin
    <2> QED BY <1>1, <2>1, <2>2 DEF LoginTake
  <1>3. ClientsOK' /\ Moves /\ SavesOK' /\ ToCharOK'
    BY ClientsStay, CharParts DEF chlogif_parse_ackaccreq, chlogif_parse_askkick, SavesOK, ToCharOK
  <1>4. ASSUME chlogif_parse_ackaccreq PROVE CharGood
    <2> DEFINE s == char_session[p.fd]
    <2>1. p.fd \in Clients
      BY <1>2, <1>4 DEF FromLoginMsg, chlogif_parse_ackaccreq, CharHearsLogin
    <2>2. UNCHANGED char_auth_db
      BY <1>4 DEF chlogif_parse_ackaccreq
    <2>3. CASE s # None /\ char_auth_ok(p.fd, s)
      <3>1. s \in CharSession
        BY <2>1, <2>3, CharParts
      <3> HIDE DEF p, s
      <3>2. EntriesOK' /\ CharSessionsOK' /\ ToMapOK' /\ LoginSend
        BY <2>1, <2>3, <3>1, AuthOkTypes
      <3> QED BY <1>2, <1>3, <2>2, <3>2, CharParts DEF CharGood, CharTypeOK, EntriesOK,
                 CharNodesOK, CharSessionsOK, SavesOK
    <2>4. CASE UNCHANGED <<online_char_db, char_session, toLogin, toMap>>
      BY <1>2, <1>3, <2>2, <2>4, CharParts DEF CharGood, CharTypeOK, EntriesOK, CharNodesOK,
         CharSessionsOK, SavesOK, ToMapOK, LoginSend
    <2> QED BY <1>4, <2>3, <2>4 DEF chlogif_parse_ackaccreq, Awaits
  <1>5. ASSUME chlogif_parse_askkick PROVE CharGood
    <2> DEFINE a == p.account
               e == online_char_db[a]
    <2>1. a \in Accounts
      BY <1>2 DEF FromLoginMsg
    <2>2. e \in Entry \cup {None}
      BY <2>1, CharParts
    <2>3. CharNodesOK'
      BY <1>5, <2>1, CharParts, CharNodeSet DEF chlogif_parse_askkick
    <2>4. CASE UNCHANGED <<online_char_db, char_session, toMap, toLogin>>
      BY <1>2, <1>3, <2>3, <2>4, CharParts DEF CharGood, CharTypeOK, EntriesOK, CharNodesOK,
         CharSessionsOK, SavesOK, ToMapOK, LoginSend
    <2>5. CASE /\ OnMapServer(e) /\ SendToMaps(Kick(TRUE, a, e))
               /\ SetEntry(a, [e EXCEPT !.timer = TRUE])
               /\ UNCHANGED <<char_session, toLogin>>
      <3>1. [e EXCEPT !.timer = TRUE] \in Entry
        BY <2>2, <2>5 DEF OnMapServer, Entry
      <3> HIDE DEF e, p
      <3>2. EntriesOK'
        BY <2>1, <2>5, <3>1, CharParts, EntrySet
      <3>3. ToMapOK'
        BY <2>1, <2>5, CharParts, Kicks
      <3> QED BY <1>2, <1>3, <2>3, <2>5, <3>2, <3>3, CharParts DEF CharGood, CharTypeOK, EntriesOK,
                 CharNodesOK, CharSessionsOK, SavesOK, LoginSend
    <2>6. ASSUME NEW c \in Clients, char_session[c] # None,
                 SetSession(c, [char_session[c] EXCEPT !.eof = TRUE]),
                 UNCHANGED <<online_char_db, toMap, toLogin>>
          PROVE  CharGood
      <3>1. [char_session[c] EXCEPT !.eof = TRUE] \in CharSession
        BY <2>6, CharParts DEF CharSession
      <3>2. CharSessionsOK'
        BY <2>6, <3>1, CharParts, CharSessionSet
      <3> QED BY <1>2, <1>3, <2>3, <2>6, <3>2, CharParts DEF CharGood, CharTypeOK, EntriesOK,
                 CharNodesOK, CharSessionsOK, SavesOK, ToMapOK, LoginSend
    <2>7. CASE /\ SetEntry(a, char_set_char_offline(e, None))
               /\ SendToLogin(OfflineNotice(a, e, None))
               /\ UNCHANGED <<char_session, toMap>>
      <3>1. char_set_char_offline(e, None) \in Entry \cup {None}
        BY <2>2, EntryTypes
      <3> HIDE DEF e, p
      <3>2. EntriesOK'
        BY <2>1, <2>7, <3>1, CharParts, EntrySet
      <3>3. LoginSend
        BY <2>1, <2>7, SaysOffline
      <3> QED BY <1>2, <1>3, <2>3, <2>7, <3>2, <3>3, CharParts DEF CharGood, CharTypeOK, EntriesOK,
                 CharNodesOK, CharSessionsOK, SavesOK, ToMapOK
    <2> QED BY <1>5, <2>4, <2>5, <2>6, <2>7 DEF chlogif_parse_askkick
  <1> QED BY <1>4, <1>5

(* The timers of the char-server. *)
LEMMA CharTimerTypes ==
  ASSUME IInv, UNCHANGED next_id, NEW a \in Accounts,
         char_chardb_waiting_disconnect(a) \/ char_online_data_cleanup_sub(a)
  PROVE  CharGood
  <1> DEFINE e == online_char_db[a]
  <1>1. e \in Entry \cup {None}
    BY CharParts
  <1>2. char_set_char_offline(e, e.char) \in Entry \cup {None}
    BY <1>1, EntryTypes
  <1>3. SetEntry(a, char_set_char_offline(e, e.char)) \/ SetEntry(a, None)
    BY DEF char_chardb_waiting_disconnect, char_online_data_cleanup_sub
  <1>4. UNCHANGED <<char_auth_db, char_session, char_db, fromLogin, toChar, toMap, client>>
    BY DEF char_chardb_waiting_disconnect, char_online_data_cleanup_sub, linkMapVars
  <1>5. SendToLogin(OfflineNotice(a, e, e.char)) \/ SendToLogin(<<>>)
    BY DEF char_chardb_waiting_disconnect, char_online_data_cleanup_sub
  <1> HIDE DEF e
  <1>6. LoginSend
    BY <1>5, SaysOffline, SaysNothing DEF LoginSend
  <1>7. EntriesOK'
    BY <1>2, <1>3, CharParts, EntrySet
  <1>8. ClientsOK' /\ Moves
    BY <1>4, ClientsStay
  <1> QED BY <1>4, <1>6, <1>7, <1>8, CharParts DEF CharGood, CharTypeOK, EntriesOK, CharNodesOK,
             CharSessionsOK, SavesOK, ToCharOK, ToMapOK, LoginTake

(* The packets of a map-server. *)
LEMMA CharPacketFields ==
  ASSUME NEW p \in ToCharMsg
  PROVE  /\ p.type # "users" => p.account \in Accounts
         /\ p.type \in {"authreq", "save", "changemap", "offline", "registry"} => p.char \in Chars
         /\ p.type \in {"authreq", "charselect", "changemap"} => p.id \in Ids
         /\ p.type = "save" => p.status \in Status
         /\ p.type = "changemap" => p.dest \in MapServers
         /\ p.type = "users" => p.users \in [Accounts -> Chars \cup {None}]
  BY DEF ToCharMsg

LEMMA CharPacketTypes ==
  ASSUME IInv, UNCHANGED next_id, NEW m \in MapServers, chmapif_parse(m)
  PROVE  CharGood
  <1> DEFINE p == Head(toChar[m])
             a == p.account
             e == online_char_db[a]
  <1>1. ToCharOK' /\ p \in ToCharMsg
    BY CharReceivesType DEF IInv, chmapif_parse, chmapif_parse_reqauth, chmapif_parse_reqsavechar,
       chmapif_parse_authok, chmapif_parse_reqchangemapserv, chmapif_parse_setcharoffline,
       mapif_parse_RegistryRequest, chmapif_parse_regmapuser
  <1>2. UNCHANGED <<char_session, fromLogin, client>>
    BY DEF chmapif_parse, chmapif_parse_reqauth, chmapif_parse_reqsavechar,
       chmapif_parse_authok, chmapif_parse_reqchangemapserv, chmapif_parse_setcharoffline,
       mapif_parse_RegistryRequest, chmapif_parse_regmapuser, charVars, linkLoginVars
  <1>3. ClientsOK' /\ Moves /\ CharSessionsOK' /\ LoginTake
    BY <1>2, ClientsStay, CharParts DEF CharSessionsOK, LoginTake
  <1>4. ASSUME EntriesOK', CharNodesOK', SavesOK', ToMapOK', LoginSend PROVE CharGood
    BY <1>1, <1>3, <1>4 DEF CharGood, CharTypeOK, EntriesOK, CharNodesOK, CharSessionsOK, SavesOK
  <1>5. ASSUME a \in Accounts
        PROVE  e \in Entry \cup {None}
    BY <1>5, CharParts
  <1>6. ASSUME chmapif_parse_reqauth(m) PROVE CharGood
    <2>1. p.type = "authreq" /\ UNCHANGED char_db
      BY <1>6 DEF chmapif_parse_reqauth, CharReceives
    <2>2. a \in Accounts /\ p.char \in Chars /\ p.id \in Ids
      BY <1>1, <2>1, CharPacketFields
    <2>3. SavesOK' /\ char_db[p.char] \in Status
      BY <2>1, <2>2, CharParts DEF SavesOK
    <2> DEFINE ok == AuthOk(a, p.char, p.id, char_db[p.char])
               no == AuthFail(a, p.char, p.id)
               new == char_set_char_online(e, m, p.char)
               kick == Kick(Conflict(e, m), a, e)
               out == [x \in MapServers |-> To(m, ok)[x] \o kick[x]]
    <2>4. ok \in ToMapMsg /\ no \in ToMapMsg
      BY <2>2, <2>3, MapPackets
    <2>5. new \in Entry
      BY <1>5, <2>2, EntryTypes
    <2>6. CASE /\ SendToMaps(out) /\ SetNode(a, None) /\ SetEntry(a, new)
               /\ SendToLogin(<<SetAccOnline(a)>>)
      <3>1. kick \in Outgoing
        BY <2>2, KickType
      <3> HIDE DEF kick, ok, new, e, a
      <3>2. To(m, ok) \in Outgoing
        BY <2>4, ToType
      <3>3. out \in [MapServers -> Seq(ToMapMsg)]
        BY <3>1, <3>2 DEF Outgoing
      <3> HIDE DEF out
      <3>4. ToMapOK'
        BY <2>6, <3>3, CharParts, SendsToMaps
      <3>5. EntriesOK'
        BY <2>2, <2>5, <2>6, CharParts, EntrySet
      <3>6. CharNodesOK'
        BY <2>2, <2>6, CharParts, CharNodeSet
      <3>7. LoginSend
        BY <2>2, <2>6, SaysOnline
      <3> QED BY <1>4, <2>3, <3>4, <3>5, <3>6, <3>7
    <2>7. CASE /\ SendToMaps(To(m, no)) /\ UNCHANGED <<char_auth_db, online_char_db, toLogin>>
      <3>1. ToMapOK'
        BY <2>4, <2>7, CharParts, OneToMap
      <3> QED BY <1>4, <2>3, <2>7, <3>1, CharParts DEF EntriesOK, CharNodesOK, LoginSend
    <2> QED BY <1>6, <2>6, <2>7 DEF chmapif_parse_reqauth
  <1>7. ASSUME chmapif_parse_reqsavechar(m) PROVE CharGood
    <2>1. p.type = "save" /\ UNCHANGED char_auth_db
      BY <1>7 DEF chmapif_parse_reqsavechar, CharReceives
    <2>2. a \in Accounts /\ p.char \in Chars /\ p.status \in Status
      BY <1>1, <2>1, CharPacketFields
    <2>3. SavesOK' /\ CharNodesOK'
      <3>1. char_db' = [char_db EXCEPT ![p.char] = p.status] \/ char_db' = char_db
        BY <1>7 DEF chmapif_parse_reqsavechar
      <3> HIDE DEF p
      <3> QED BY <2>1, <2>2, <3>1, CharParts DEF SavesOK, CharNodesOK
    <2> DEFINE off == char_set_char_offline(e, p.char)
               on == char_set_char_online(e, m, p.char)
    <2>4. off \in Entry \cup {None} /\ on \in Entry
      BY <1>5, <2>2, EntryTypes
    <2>5. CASE /\ SetEntry(a, off)
               /\ SendToLogin(OfflineNotice(a, e, p.char))
               /\ SendToMaps(FinalSaveAck(m, p))
      <3>1. SaveAck(a, p.char) \in ToMapMsg
        BY <2>2, MapPackets
      <3>2. ToMapOK'
        BY <2>5, <3>1, CharParts, OneToMap DEF FinalSaveAck
      <3> HIDE DEF off, a, e
      <3>3. EntriesOK'
        BY <2>2, <2>4, <2>5, CharParts, EntrySet
      <3>4. LoginSend
        BY <2>2, <2>5, SaysOffline
      <3> QED BY <1>4, <2>3, <3>2, <3>3, <3>4
    <2>6. CASE UNCHANGED <<online_char_db, toLogin, toMap>>
      BY <1>4, <2>3, <2>6, CharParts DEF EntriesOK, LoginSend, ToMapOK
    <2>7. CASE /\ SetEntry(a, on)
               /\ SendToMaps(Kick(Conflict(e, m), a, e))
               /\ SendToLogin(<<SetAccOnline(a)>>)
      <3> HIDE DEF on, a, e
      <3>1. ToMapOK'
        BY <2>2, <2>7, CharParts, Kicks
      <3>2. EntriesOK'
        BY <2>2, <2>4, <2>7, CharParts, EntrySet
      <3>3. LoginSend
        BY <2>2, <2>7, SaysOnline
      <3> QED BY <1>4, <2>3, <3>1, <3>2, <3>3
    <2> QED BY <1>7, <2>5, <2>6, <2>7 DEF chmapif_parse_reqsavechar
  <1>8. ASSUME chmapif_parse_authok(m) PROVE CharGood
    <2> DEFINE n == [char |-> None, id |-> p.id]
               new == char_set_charselect(e)
    <2>1. /\ p.type = "charselect" /\ UNCHANGED char_db
          /\ SetNode(a, n) /\ SetEntry(a, new) /\ SendToLogin(<<SetAccOnline(a)>>)
          /\ SendToMaps(To(m, CharSelectAck(a)))
      BY <1>8 DEF chmapif_parse_authok, CharReceives
    <2>2. a \in Accounts /\ p.id \in Ids
      BY <1>1, <2>1, CharPacketFields
    <2>3. n \in Node /\ new \in Entry
      BY <1>5, <2>2, EntryTypes DEF Node
    <2>4. CharSelectAck(a) \in ToMapMsg
      BY <2>2, MapPackets
    <2> HIDE DEF n, new, e, a
    <2>5. ToMapOK'
      BY <2>1, <2>4, CharParts, OneToMap
    <2>6. EntriesOK'
      BY <2>1, <2>2, <2>3, CharParts, EntrySet
    <2>7. CharNodesOK'
      BY <2>1, <2>2, <2>3, CharParts, CharNodeSet
    <2>8. LoginSend
      BY <2>1, <2>2, SaysOnline
    <2> QED BY <1>4, <2>1, <2>5, <2>6, <2>7, <2>8, CharParts DEF SavesOK
  <1>9. ASSUME chmapif_parse_reqchangemapserv(m) PROVE CharGood
    <2> DEFINE n == [char |-> p.char, id |-> p.id]
               f == Ensured(e)
               new == [f EXCEPT !.char = p.char, !.server = p.dest]
               ok == p.dest \in connected
    <2>1. p.type = "changemap" /\ UNCHANGED toLogin
      BY <1>9 DEF chmapif_parse_reqchangemapserv, CharReceives, linkLoginVars
    <2>2. a \in Accounts /\ p.char \in Chars /\ p.id \in Ids /\ p.dest \in MapServers
      BY <1>1, <2>1, CharPacketFields
    <2>3. f \in Entry /\ n \in Node
      BY <1>5, <2>2, EntryTypes DEF Node
    <2>4. new \in Entry
      <3> HIDE DEF f
      <3> QED BY <2>2, <2>3 DEF Entry
    <2>5. ChangeMapAck(a, p.char, p.id, p.dest, ok) \in ToMapMsg
      <3>1. ok \in BOOLEAN
        OBVIOUS
      <3> HIDE DEF a, ok, p
      <3> QED BY <2>2, <3>1, MapPackets
    <2>6. ToMapOK'
      BY <1>9, <2>5, CharParts, OneToMap DEF chmapif_parse_reqchangemapserv
    <2>7. CASE /\ char_db' = [char_db EXCEPT ![p.char].place = p.dest]
               /\ SetNode(a, n) /\ SetEntry(a, new)
      <3> HIDE DEF p, n, new
      <3>1. SavesOK'
        BY <2>2, <2>7, CharParts DEF SavesOK, Status
      <3>2. CharNodesOK'
        BY <2>2, <2>3, <2>7, CharParts, CharNodeSet
      <3>3. EntriesOK'
        BY <2>2, <2>4, <2>7, CharParts, EntrySet
      <3> QED BY <1>4, <2>1, <2>6, <3>1, <3>2, <3>3 DEF LoginSend
    <2>8. CASE UNCHANGED <<char_db, char_auth_db, online_char_db>>
      BY <1>4, <2>1, <2>6, <2>8, CharParts DEF LoginSend, EntriesOK, CharNodesOK, SavesOK
    <2> QED BY <1>9, <2>7, <2>8 DEF chmapif_parse_reqchangemapserv
  <1>10. ASSUME chmapif_parse_setcharoffline(m) PROVE CharGood
    <2> DEFINE new == char_set_char_offline(e, p.char)
    <2>1. /\ p.type = "offline" /\ UNCHANGED <<char_auth_db, char_db, toMap>>
          /\ SetEntry(a, new) /\ SendToLogin(OfflineNotice(a, e, p.char))
      BY <1>10 DEF chmapif_parse_setcharoffline, CharReceives
    <2>2. a \in Accounts
      BY <1>1, <2>1, CharPacketFields
    <2>3. new \in Entry \cup {None}
      BY <1>5, <2>2, EntryTypes
    <2> HIDE DEF new, a, e
    <2>4. EntriesOK'
      BY <2>1, <2>2, <2>3, CharParts, EntrySet
    <2>5. LoginSend
      BY <2>1, <2>2, SaysOffline
    <2> QED BY <1>4, <2>1, <2>4, <2>5, CharParts DEF CharNodesOK, SavesOK, ToMapOK
  <1>11. ASSUME mapif_parse_RegistryRequest(m) PROVE CharGood
    <2>1. /\ p.type = "registry"
          /\ UNCHANGED <<online_char_db, char_auth_db, char_db, toLogin>>
          /\ SendToMaps(To(m, Registers(a, p.char)))
      BY <1>11 DEF mapif_parse_RegistryRequest, CharReceives, charVars, linkLoginVars
    <2>2. a \in Accounts /\ p.char \in Chars
      BY <1>1, <2>1, CharPacketFields
    <2>3. Registers(a, p.char) \in ToMapMsg
      BY <2>2, MapPackets
    <2>4. ToMapOK'
      BY <2>1, <2>3, CharParts, OneToMap
    <2> QED BY <1>4, <2>1, <2>4, CharParts DEF EntriesOK, CharNodesOK, SavesOK, LoginSend
  <1>12. ASSUME chmapif_parse_regmapuser(m) PROVE CharGood
    <2> DEFINE entry(b) == char_db_setoffline(online_char_db[b], m)
               kicks(b) == Kick(p.users[b] # None /\ OnMapServer(entry(b)), b, entry(b))
               sent(o) == [b \in Accounts |-> kicks(b)[o]]
               out == [o \in MapServers |-> Joined(sent(o))]
    <2>1. /\ p.type = "users" /\ UNCHANGED <<char_auth_db, char_db, toLogin>>
          /\ SendToMaps(out)
      BY <1>12 DEF chmapif_parse_regmapuser, CharReceives, linkLoginVars
    <2>2. p.users \in [Accounts -> Chars \cup {None}]
      BY <1>1, <2>1, CharPacketFields
    <2>3. \A b \in Accounts : entry(b) \in Entry \cup {None}
      BY CharParts, EntryTypes
    <2>4. EntriesOK'
      <3> DEFINE f(b) == Ensured(entry(b))
      <3>1. \A b \in Accounts : f(b) \in Entry
        BY <2>3, EntryTypes
      <3>2. online_char_db' = [b \in Accounts |->
              IF p.users[b] = None THEN entry(b)
              ELSE [f(b) EXCEPT !.server = m, !.char = p.users[b]]]
        BY <1>12 DEF chmapif_parse_regmapuser
      <3> HIDE DEF f, entry, p
      <3>3. \A b \in Accounts : p.users[b] # None =>
              [f(b) EXCEPT !.server = m, !.char = p.users[b]] \in Entry
        BY <2>2, <3>1 DEF Entry
      <3> QED BY <2>3, <3>2, <3>3 DEF EntriesOK
    <2>5. \A o \in MapServers : sent(o) \in [Accounts -> Seq(ToMapMsg)]
      <3>1. \A b \in Accounts : kicks(b) \in Outgoing
        BY KickType
      <3> HIDE DEF kicks
      <3> QED BY <3>1 DEF Outgoing
    <2>6. \A o \in MapServers : Joined(sent(o)) \in Seq(ToMapMsg)
      <3> HIDE DEF sent
      <3> QED BY <2>5, JoinedType
    <2>7. out \in [MapServers -> Seq(ToMapMsg)]
      <3> HIDE DEF sent
      <3> QED BY <2>6
    <2> HIDE DEF out
    <2>8. ToMapOK'
      BY <2>1, <2>7, CharParts, SendsToMaps
    <2> QED BY <1>4, <2>1, <2>4, <2>8, CharParts DEF CharNodesOK, SavesOK, LoginSend
  <1> QED BY <1>6, <1>7, <1>8, <1>9, <1>10, <1>11, <1>12 DEF chmapif_parse

(* A link breaks, or is made. *)
LEMMA LinkTypes ==
  ASSUME IInv, UNCHANGED next_id, NEW m \in UpServers,
         LinkBreaks(m) \/ check_connect_char_server(m)
  PROVE  CharGood /\ MapParts' /\ StateOK'
  <1>0. m \in MapServers
    BY MapServersAssumption
  <1>1. ClientsOK' /\ Moves /\ next_id' \in Nat
    BY ClientsStay DEF LinkBreaks, chmapif_on_disconnect, check_connect_char_server,
       chclif_parse_maplogin
  <1>2. UNCHANGED <<map_auth_db, pc_db, map_session>>
    BY DEF LinkBreaks, check_connect_char_server, mapVars
  <1>3. NodesOK' /\ PlayersOK' /\ SessionsOK'
    BY <1>1, <1>2, NodesStay, PlayersStay DEF IInv, MapParts, SessionsOK
  <1>4. UNCHANGED <<char_auth_db, char_session, char_db, toLogin, fromLogin>>
    BY DEF LinkBreaks, chmapif_on_disconnect, check_connect_char_server, chclif_parse_maplogin,
       charVars, linkLoginVars
  <1>5. CharNodesOK' /\ CharSessionsOK' /\ SavesOK' /\ LoginSend /\ LoginTake
    BY <1>4, CharParts DEF CharNodesOK, CharSessionsOK, SavesOK, LoginSend, LoginTake
  <1>6. ASSUME EntriesOK', ToCharOK', ToMapOK', BestOK', StateOK'
        PROVE  CharGood /\ MapParts' /\ StateOK'
    BY <1>1, <1>3, <1>5, <1>6 DEF CharGood, CharTypeOK, EntriesOK, CharNodesOK, CharSessionsOK,
       SavesOK, MapParts
  <1>7. ASSUME LinkBreaks(m) PROVE CharGood /\ MapParts' /\ StateOK'
    <2>1. EntriesOK'
      <3>1. online_char_db' = [a \in Accounts |-> char_db_setoffline(online_char_db[a], m)]
        BY <1>7 DEF LinkBreaks, chmapif_on_disconnect
      <3> QED BY <3>1, CharParts, EntryTypes DEF EntriesOK
    <2>2. ToCharOK' /\ ToMapOK'
      <3>1. toChar' = [toChar EXCEPT ![m] = <<>>] /\ toMap' = [toMap EXCEPT ![m] = <<>>]
        BY <1>7 DEF LinkBreaks, chmapif_on_disconnect
      <3>2. <<>> \in Seq(ToCharMsg) /\ <<>> \in Seq(ToMapMsg)
        OBVIOUS
      <3> QED BY <3>1, <3>2 DEF IInv, ToCharOK, ToMapOK
    <2>3. BestOK'
      <3>1. \A ch \in Chars : char_db[ch].ver \in Versions
        BY CharParts DEF SavesOK, Status
      <3>2. best' = [ch \in Chars |-> IF ch \in CutOff(m) THEN char_db[ch].ver ELSE best[ch]]
        BY <1>7 DEF LinkBreaks
      <3> QED BY <3>1, <3>2 DEF IInv, MapParts, BestOK
    <2>4. StateOK'
      <3>1. connected' = connected \ {m} /\ breaks' = breaks + 1 /\ breaks < MaxBreaks
        BY <1>7 DEF LinkBreaks, chmapif_on_disconnect
      <3> QED BY <3>1, MaxBreaksAssumption DEF IInv, StateOK
    <2> QED BY <1>6, <2>1, <2>2, <2>3, <2>4
  <1>8. ASSUME check_connect_char_server(m) PROVE CharGood /\ MapParts' /\ StateOK'
    <2>1. UNCHANGED <<online_char_db, toChar, best, breaks>>
      BY <1>8 DEF check_connect_char_server, chclif_parse_maplogin, charVars, mapVars
    <2>2. ToMapOK'
      <3>1. MapsReceived \in ToMapMsg
        BY DEF MapsReceived, ToMapMsg
      <3> DEFINE p == MapsReceived
      <3>2. toMap' = [toMap EXCEPT ![m] = <<p>>]
        BY <1>8 DEF check_connect_char_server, chclif_parse_maplogin
      <3> HIDE DEF p
      <3>3. <<p>> \in Seq(ToMapMsg)
        BY <3>1 DEF p
      <3> QED BY <3>2, <3>3 DEF IInv, ToMapOK
    <2>3. connected' = connected \cup {m}
      BY <1>8 DEF check_connect_char_server, chclif_parse_maplogin
    <2>4. StateOK'
      BY <2>1, <2>3 DEF IInv, StateOK
    <2> QED BY <1>6, <2>1, <2>2, <2>4, CharParts DEF EntriesOK, ToCharOK, BestOK, IInv, MapParts
  <1> QED BY <1>7, <1>8

-----------------------------------------------------------------------------
(* The steps of the whole system, sorted by what they are to the           *)
(* login-server: a step of its own, or one of the char-server it serves.   *)
OfLogin == \/ \E c \in Clients, a \in Accounts : ClientLogsIn(c, a)
           \/ \E s \in CharServers : LoginServes(s)
           \/ \E a \in Accounts : LoginTimer(a)

OfChar == /\ UNCHANGED loginVars /\ LoginSend /\ LoginTake

LEMMA LoginServerStep ==
  ASSUME IInv, OfLogin
  PROVE  IInv'
  <1>0. UNCHANGED <<char_auth_db, online_char_db, char_session, char_db, map_auth_db, pc_db,
                    map_session, best, toChar, toMap, connected, breaks>>
    BY DEF OfLogin, ClientLogsIn, LoginServes, LoginTimer, OutsideLogin, charVars, mapVars,
       linkMapVars, linkState
  <1>1. CharTypeOK' /\ ToCharOK' /\ ToMapOK' /\ StateOK' /\ SessionsOK' /\ BestOK'
    BY <1>0 DEF IInv, CharTypeOK, ToCharOK, ToMapOK, StateOK, MapParts, SessionsOK, BestOK
  <1>2. ASSUME LoginTypes', ClientsOK', Moves, UNCHANGED ch_server PROVE IInv'
    <2>1. next_id' \in Nat
      BY <1>2, MaxIdAssumption DEF LoginTypes, LoginTypeOK
    <2> QED BY <1>0, <1>1, <1>2, <2>1, NodesStay, PlayersStay DEF IInv, LinksUp, MapParts
  <1>3. UNCHANGED <<client, next_id>> => ClientsOK' /\ Moves
    BY ClientsStay
  <1>4. ASSUME NEW c \in Clients, NEW a \in Accounts, ClientLogsIn(c, a) PROVE IInv'
    <2>1. LoginTypes'
      BY <1>4, ClientTypes DEF ClientLogsIn, logclif_auth_ok, IInv
    <2>2. CASE AuthRefused(a) /\ UNCHANGED client
      BY <1>2, <1>3, <2>1, <2>2 DEF AuthRefused
    <2>3. CASE /\ AuthAccepted(a)
               /\ client' = [client EXCEPT ![c] = [account |-> a, char |-> None, id |-> next_id,
                                                   dest |-> ToCharServer]]
      <3>1. next_id \in Ids /\ next_id' = next_id + 1 /\ UNCHANGED ch_server
        BY <2>3 DEF AuthAccepted
      <3>2. ToCharServer \in Destinations /\ ToCharServer \notin MapServers
        BY MapServersAssumption DEF Destinations, ToCharServer
      <3>3. client \in [Clients -> [account : Accounts \cup {None}, char : Chars \cup {None},
                                    id : Ids \cup {NoId}, dest : Destinations]]
        BY DEF IInv, ClientsOK
      <3> DEFINE new == [account |-> a, char |-> None, id |-> next_id, dest |-> ToCharServer]
      <3>4. new \in [account : Accounts \cup {None}, char : Chars \cup {None},
                     id : Ids \cup {NoId}, dest : Destinations]
        BY <3>1, <3>2
      <3>5. /\ client'[c].account = a /\ client'[c].id = next_id /\ client'[c].dest = ToCharServer
            /\ \A b \in Clients : b # c => client'[b] = client[b]
        BY <2>3, <3>3
      <3>6. client' = [client EXCEPT ![c] = new]
        BY <2>3
      <3> HIDE DEF new
      <3>7. client' \in [Clients -> [account : Accounts \cup {None}, char : Chars \cup {None},
                                     id : Ids \cup {NoId}, dest : Destinations]]
        BY <3>3, <3>4, <3>6
      <3>8. ClientsOK' /\ Moves
        BY <3>1, <3>2, <3>5, <3>7 DEF IInv, ClientsOK, Moves, Ids, NoId
      <3> QED BY <1>2, <2>1, <3>1, <3>8
    <2> QED BY <1>4, <2>2, <2>3 DEF ClientLogsIn
  <1>5. ASSUME NEW s \in CharServers, LoginServes(s) PROVE IInv'
    <2>1. LoginTypes'
      BY <1>5, PacketTypes DEF LoginServes, IInv
    <2>2. UNCHANGED <<client, next_id, ch_server>>
      BY <1>5 DEF LoginServes, logchrif_parse, logchrif_parse_reqauth,
         logchrif_parse_setacconline, logchrif_parse_setaccoffline
    <2> QED BY <1>2, <1>3, <2>1, <2>2
  <1>6. ASSUME NEW a \in Accounts, LoginTimer(a) PROVE IInv'
    <2>1. LoginTypes'
      BY <1>6, TimerTypes DEF LoginTimer, IInv
    <2>2. UNCHANGED <<client, next_id, ch_server>>
      BY <1>6 DEF LoginTimer, login_waiting_disconnect_timer
    <2> QED BY <1>2, <1>3, <2>1, <2>2
  <1> QED BY <1>4, <1>5, <1>6 DEF OfLogin

(* What the login-server sees of the others keeps its types. *)
LEMMA OutsideTypes ==
  ASSUME IInv, OfChar
  PROVE  LoginTypes' /\ LinksUp' /\ UNCHANGED next_id
  <1>1. LoginTypeOK' /\ LinksUp' /\ UNCHANGED next_id
    BY DEF IInv, LoginTypes, LoginTypeOK, LinksUp, OfChar, loginVars
  <1>2. /\ toLogin \in [CharServers -> Seq(ToLoginMsg)]
        /\ fromLogin \in [CharServers -> Seq(FromLoginMsg)]
    BY DEF IInv, LoginTypes, LinkLoginTypeOK
  <1>3. toLogin' \in [CharServers -> Seq(ToLoginMsg)]
    <2>1. ASSUME NEW msg \in ToLoginMsg, toLogin' = [toLogin EXCEPT ![Me] = Append(@, msg)]
          PROVE  toLogin' \in [CharServers -> Seq(ToLoginMsg)]
      <3>1. Append(toLogin[Me], msg) \in Seq(ToLoginMsg)
        BY <1>2, MeAssumption
      <3> QED BY <1>2, <2>1, <3>1
    <2> QED BY <1>2, <2>1 DEF OfChar, LoginSend
  <1>4. fromLogin' \in [CharServers -> Seq(FromLoginMsg)]
    <2>1. ASSUME fromLogin[Me] # <<>>, fromLogin' = [fromLogin EXCEPT ![Me] = Tail(@)]
          PROVE  fromLogin' \in [CharServers -> Seq(FromLoginMsg)]
      <3>1. Tail(fromLogin[Me]) \in Seq(FromLoginMsg)
        BY <1>2, <2>1, MeAssumption
      <3> QED BY <1>2, <2>1, <3>1
    <2> QED BY <1>2, <2>1 DEF OfChar, LoginTake
  <1> QED BY <1>1, <1>3, <1>4 DEF LoginTypes, LinkLoginTypeOK

LEMMA CharServerStep ==
  ASSUME IInv,
         \/ \E c \in Clients : CharServerClient(c) \/ CharClientGone(c)
         \/ CharServesLogin
         \/ \E a \in Accounts : CharTimers(a)
         \/ \E m \in UpServers : \/ CharServesMap(m) \/ LinkBreaks(m)
                                 \/ check_connect_char_server(m)
  PROVE  OfChar /\ IInv'
  <1>0. UNCHANGED loginVars /\ UNCHANGED next_id
    BY DEF CharServerClient, CharClientGone, CharServesLogin, CharTimers, CharServesMap,
       LinkBreaks, check_connect_char_server, OutsideChar, loginVars
  <1>1. ASSUME CharGood PROVE OfChar /\ LoginTypes' /\ LinksUp'
    BY <1>0, <1>1, OutsideTypes DEF CharGood, OfChar
  <1>2. ASSUME NEW m \in UpServers, LinkBreaks(m) \/ check_connect_char_server(m)
        PROVE  OfChar /\ IInv'
    BY <1>0, <1>1, <1>2, LinkTypes DEF CharGood, IInv
  <1>3. ASSUME CharGood, UNCHANGED <<mapVars, linkState>> PROVE OfChar /\ IInv'
    <2>1. next_id' \in Nat
      BY <1>0, Tickets
    <2>2. MapParts'
      BY <1>3, <2>1, NodesStay, PlayersStay
         DEF CharGood, mapVars, IInv, MapParts, SessionsOK, BestOK
    <2>3. StateOK'
      BY <1>3 DEF IInv, StateOK, linkState
    <2> QED BY <1>1, <1>3, <2>2, <2>3 DEF CharGood, IInv
  <1>4. ASSUME NEW c \in Clients, CharServerClient(c) \/ CharClientGone(c) PROVE OfChar /\ IInv'
    BY <1>0, <1>3, <1>4, CharClientTypes DEF CharServerClient, CharClientGone, OutsideChar
  <1>5. ASSUME CharServesLogin PROVE OfChar /\ IInv'
    BY <1>0, <1>3, <1>5, CharLoginTypes DEF CharServesLogin, OutsideChar
  <1>6. ASSUME NEW a \in Accounts, CharTimers(a) PROVE OfChar /\ IInv'
    BY <1>0, <1>3, <1>6, CharTimerTypes DEF CharTimers, OutsideChar
  <1>7. ASSUME NEW m \in UpServers, CharServesMap(m) PROVE OfChar /\ IInv'
    <2>1. m \in MapServers
      BY MapServersAssumption
    <2> QED BY <1>0, <1>3, <1>7, <2>1, CharPacketTypes DEF CharServesMap, OutsideChar
  <1> QED BY <1>2, <1>4, <1>5, <1>6, <1>7

LEMMA MapServerStep ==
  ASSUME IInv, NEW m \in UpServers,
         \/ \E c \in Clients : MapServerClient(m, c) \/ MapClientGone(m, c)
         \/ \E a \in Accounts : MapServerPlays(m, a) \/ MapPlayerGone(m, a) \/ MapTimer(m, a)
         \/ MapServes(m)
  PROVE  OfChar /\ IInv'
  <1>0. m \in MapServers
    BY MapServersAssumption
  <1>1. UNCHANGED OutsideMap
    BY DEF MapServerClient, MapClientGone, MapServerPlays, MapPlayerGone, MapTimer, MapServes
  <1>2. UNCHANGED next_id /\ OfChar
    BY <1>1 DEF OutsideMap, loginVars, linkLoginVars, OfChar, LoginSend, LoginTake
  <1>3. LoginTypes' /\ LinksUp' /\ CharTypeOK' /\ StateOK'
    BY <1>1, <1>2, OutsideTypes DEF OutsideMap, charVars, linkState, IInv, CharTypeOK, StateOK
  <1>4. MapGood => IInv'
    BY <1>3 DEF MapGood, IInv
  <1>5. ASSUME NEW c \in Clients, MapServerClient(m, c) \/ MapClientGone(m, c) PROVE MapGood
    BY <1>0, <1>2, <1>5, ArrivalTypes, MapClientTypes DEF MapServerClient, MapClientGone
  <1>6. ASSUME NEW a \in Accounts, MapServerPlays(m, a) \/ MapPlayerGone(m, a) \/ MapTimer(m, a)
        PROVE  MapGood
    BY <1>0, <1>2, <1>6, MapTimerTypes DEF MapServerPlays, MapPlayerGone, MapTimer
  <1>7. ASSUME MapServes(m) PROVE MapGood
    BY <1>0, <1>2, <1>7, MapPacketTypes, MapReadyTypes DEF MapServes
  <1> QED BY <1>2, <1>4, <1>5, <1>6, <1>7

LEMMA Sorted ==
  ASSUME IInv, Next
  PROVE  IInv' /\ (OfLogin \/ OfChar)
  BY LoginServerStep, CharServerStep, MapServerStep DEF Next, OfLogin

LEMMA StutterTypes ==
  ASSUME IInv, UNCHANGED vars
  PROVE  IInv'
  <1>1. UNCHANGED <<client, next_id, map_auth_db, pc_db>>
    BY DEF vars, loginVars, mapVars
  <1>2. ClientsOK' /\ NodesOK' /\ PlayersOK'
    BY <1>1, ClientsStay, NodesStay, PlayersStay
  <1>3. OfChar
    BY DEF vars, linkLoginVars, OfChar, LoginSend, LoginTake
  <1>4. LoginTypes' /\ LinksUp'
    BY <1>3, OutsideTypes
  <1> QED BY <1>2, <1>4 DEF vars, charVars, mapVars, linkMapVars, linkState, IInv, CharTypeOK,
             MapParts, SessionsOK, BestOK, ToCharOK, ToMapOK, StateOK

LEMMA StartTypes ==
  ASSUME Init
  PROVE  IInv
  <1>1. LoginTypes
    BY MaxIdAssumption DEF Init, LinkLoginInit, LoginInit, LoginTypes, LoginTypeOK,
       LinkLoginTypeOK, Ids, NoId, Places, Absent
  <1>2. LinksUp
    BY DEF Init, LoginInit, LinksUp
  <1>3. \A ch \in Chars : Home[ch] \in MapServers
    BY HomeAssumption, MapServersAssumption
  <1>4. CharTypeOK
    BY <1>3, MaxVersionAssumption DEF Init, CharInit, CharTypeOK, Status, Versions, BlankVersion
  <1>5. ClientsOK /\ ToCharOK /\ ToMapOK /\ StateOK
    <2>1. Nowhere \in Destinations /\ Nowhere \notin MapServers
      BY MapServersAssumption DEF Nowhere, Destinations
    <2>2. ClientsOK
      BY <2>1 DEF Init, LinkMapInit, LoginInit, ClientsOK, NoId
    <2>3. ToCharOK /\ ToMapOK
      BY DEF Init, LinkMapInit, ToCharOK, ToMapOK
    <2>4. StateOK
      BY MaxBreaksAssumption DEF Init, LinkMapInit, StateOK
    <2> QED BY <2>2, <2>3, <2>4
  <1>6. MapParts
    BY MaxVersionAssumption DEF Init, MapInit, MapParts, NodesOK, PlayersOK, SessionsOK, Sessions,
       BestOK, Versions, BlankVersion
  <1> QED BY <1>1, <1>2, <1>4, <1>5, <1>6 DEF IInv

(* Every packet on every link, every table entry and every connection of   *)
(* the three servers is of its type at every moment, for any number of     *)
(* accounts, clients, characters and map-servers, whatever the timers do   *)
(* and however often links break.                                          *)
THEOREM SessionTypes == Spec => []TypeOK
  <1>1. Init => IInv
    BY StartTypes
  <1>2. IInv /\ [Next]_vars => IInv'
    BY Sorted, StutterTypes
  <1>3. IInv => TypeOK
    BY PartsTyped
  <1> QED BY <1>1, <1>2, <1>3, PTL DEF Spec

-----------------------------------------------------------------------------
(* The steps as LoginSystem has them. *)
LEMMA LoginStepMaps ==
  ASSUME IInv, OfLogin
  PROVE  [Login!Next]_Login!vars
  <1>0. \A s \in CharServers : Login!RoomOn(s)
    BY DEF Login!RoomOn
  <1>1. ASSUME NEW c \in Clients, NEW a \in Accounts, ClientLogsIn(c, a) PROVE Login!Next
    <2>1. Login!logclif_auth_ok(a)
      <3>1. CASE AuthRefused(a)
        BY <3>1 DEF AuthRefused, SomeCharServer, AskKick, Login!logclif_auth_ok,
           Login!AuthRefused, Login!SomeCharServer, Login!AskKick
      <3>2. CASE AuthAccepted(a)
        BY <3>2 DEF AuthAccepted, SomeCharServer, login_add_auth_node, AtLogin, Ids, linkLoginVars,
           Login!logclif_auth_ok, Login!AuthAccepted, Login!SomeCharServer,
           Login!login_add_auth_node, Login!AtLogin, Login!Ids, Login!linkLoginVars
      <3> QED BY <1>1, <3>1, <3>2 DEF ClientLogsIn
    <2> QED BY <1>0, <2>1 DEF Login!Next
  <1>2. ASSUME NEW s \in CharServers, LoginServes(s) PROVE Login!Next
    <2>1. Login!logchrif_parse(s)
      <3>1. CASE logchrif_parse_reqauth(s)
        BY <3>1 DEF logchrif_parse_reqauth, LoginReceives, TicketMatches, AckAccReq,
           login_remove_auth_node, NoId, Login!logchrif_parse, Login!logchrif_parse_reqauth,
           Login!LoginReceives, Login!TicketMatches, Login!AckAccReq,
           Login!login_remove_auth_node, Login!NoId
      <3>2. CASE logchrif_parse_setacconline(s)
        BY <3>2 DEF logchrif_parse_setacconline, LoginReceives, login_add_online_user,
           Login!logchrif_parse, Login!logchrif_parse_setacconline, Login!LoginReceives,
           Login!login_add_online_user
      <3>3. CASE logchrif_parse_setaccoffline(s)
        BY <3>3 DEF logchrif_parse_setaccoffline, LoginReceives, login_remove_online_user, Absent,
           Login!logchrif_parse, Login!logchrif_parse_setaccoffline, Login!LoginReceives,
           Login!login_remove_online_user, Login!Absent
      <3> QED BY <1>2, <3>1, <3>2, <3>3 DEF LoginServes, logchrif_parse
    <2> QED BY <2>1 DEF Login!Next
  <1>3. ASSUME NEW a \in Accounts, LoginTimer(a) PROVE Login!Next
    <2>1. Login!login_waiting_disconnect_timer(a)
      BY <1>3 DEF LoginTimer, login_waiting_disconnect_timer, login_remove_online_user,
         login_remove_auth_node, Absent, NoId, linkLoginVars,
         Login!login_waiting_disconnect_timer, Login!login_remove_online_user,
         Login!login_remove_auth_node, Login!Absent, Login!NoId, Login!linkLoginVars
    <2> QED BY <2>1 DEF Login!Next
  <1> QED BY <1>1, <1>2, <1>3 DEF OfLogin

LEMMA OtherStepMaps ==
  ASSUME IInv, OfChar
  PROVE  [Login!Next]_Login!vars
  <1>1. ch_server[Me]
    BY MeAssumption DEF IInv, LinksUp
  <1>2. UNCHANGED Login!loginVars
    BY DEF OfChar, loginVars, Login!loginVars
  <1>3. \/ UNCHANGED fromLogin
        \/ fromLogin[Me] # <<>> /\ fromLogin' = [fromLogin EXCEPT ![Me] = Tail(@)]
    BY DEF OfChar, LoginTake
  <1>4. \/ UNCHANGED toLogin
        \/ /\ Login!RoomOn(Me)
           /\ \E msg \in Login!ToLoginMsg : toLogin' = [toLogin EXCEPT ![Me] = Append(@, msg)]
    <2>1. Login!RoomOn(Me)
      BY DEF Login!RoomOn
    <2>2. Login!ToLoginMsg = ToLoginMsg
      BY DEF ToLoginMsg, Ids, Login!ToLoginMsg, Login!Ids
    <2> QED BY <2>1, <2>2 DEF OfChar, LoginSend
  <1>5. Login!CharServerSteps(Me)
    BY <1>1, <1>2, <1>3, <1>4 DEF Login!CharServerSteps
  <1> QED BY <1>5, MeAssumption DEF Login!Next

(* What the login-server sees of the char-server, its map-servers and      *)
(* their clients is a behaviour of LoginSystem: the whole of the other two *)
(* servers is one of the char-servers its theorems are about.              *)
THEOREM LoginRefinement == Spec => ImplementsLogin
  <1>1. Init => IInv
    BY StartTypes
  <1>2. IInv /\ [Next]_vars => IInv'
    BY Sorted, StutterTypes
  <1>3. Init => Login!Init
    BY DEF Init, LoginInit, LinkLoginInit, Ids, NoId, Absent,
       Login!Init, Login!LoginInit, Login!LinkLoginInit, Login!Ids, Login!NoId, Login!Absent
  <1>4. IInv /\ [Next]_vars => [Login!Next]_Login!vars
    <2>1. ASSUME UNCHANGED vars PROVE UNCHANGED Login!vars
      BY <2>1 DEF vars, loginVars, linkLoginVars, Login!vars, Login!loginVars,
         Login!linkLoginVars
    <2> QED BY <2>1, Sorted, LoginStepMaps, OtherStepMaps
  <1> QED BY <1>1, <1>2, <1>3, <1>4, PTL DEF Spec, ImplementsLogin, Login!Spec

-----------------------------------------------------------------------------
(* What is proved of the login-server under any char-servers holds here.   *)
AnyCharServer == INSTANCE LoginSystem_proofs WITH MaxQueue <- 0

LEMMA SameSteps == [Login!Next]_Login!vars => [AnyCharServer!Next]_AnyCharServer!vars
  BY Zenon
     DEF Login!Next, Login!vars, Login!loginVars, Login!linkLoginVars, Login!RoomOn,
         Login!logclif_auth_ok, Login!AuthRefused, Login!AuthAccepted, Login!SomeCharServer,
         Login!AskKick, Login!login_add_auth_node, Login!AtLogin, Login!Ids,
         Login!login_waiting_disconnect_timer, Login!login_remove_online_user,
         Login!login_remove_auth_node, Login!Absent, Login!NoId,
         Login!logclif_parse_reqcharconnec, Login!logchrif_parse, Login!logchrif_parse_reqauth,
         Login!logchrif_parse_setacconline, Login!logchrif_parse_setaccoffline,
         Login!LoginReceives, Login!TicketMatches, Login!AckAccReq, Login!login_add_online_user,
         Login!logchrif_on_disconnect, Login!login_online_db_setoffline, Login!CharServerSteps,
         Login!ToLoginMsg,
         AnyCharServer!Next, AnyCharServer!vars, AnyCharServer!loginVars,
         AnyCharServer!linkLoginVars, AnyCharServer!RoomOn, AnyCharServer!logclif_auth_ok,
         AnyCharServer!AuthRefused, AnyCharServer!AuthAccepted, AnyCharServer!SomeCharServer,
         AnyCharServer!AskKick, AnyCharServer!login_add_auth_node, AnyCharServer!AtLogin,
         AnyCharServer!Ids, AnyCharServer!login_waiting_disconnect_timer,
         AnyCharServer!login_remove_online_user, AnyCharServer!login_remove_auth_node,
         AnyCharServer!Absent, AnyCharServer!NoId, AnyCharServer!logclif_parse_reqcharconnec,
         AnyCharServer!logchrif_parse, AnyCharServer!logchrif_parse_reqauth,
         AnyCharServer!logchrif_parse_setacconline, AnyCharServer!logchrif_parse_setaccoffline,
         AnyCharServer!LoginReceives, AnyCharServer!TicketMatches, AnyCharServer!AckAccReq,
         AnyCharServer!login_add_online_user, AnyCharServer!logchrif_on_disconnect,
         AnyCharServer!login_online_db_setoffline, AnyCharServer!CharServerSteps,
         AnyCharServer!ToLoginMsg

LEMMA SameStart == Login!Init => AnyCharServer!Init
  BY DEF Login!Init, Login!LoginInit, Login!LinkLoginInit, Login!Ids, Login!NoId, Login!Absent,
         AnyCharServer!Init, AnyCharServer!LoginInit, AnyCharServer!LinkLoginInit,
         AnyCharServer!Ids, AnyCharServer!NoId, AnyCharServer!Absent

(* With the whole of the three servers, too, no login ticket is accepted   *)
(* twice, an open ticket belongs to one account, and nobody stays half     *)
(* logged in without a deadline.                                           *)
THEOREM SessionTickets ==
  Spec => [](Login!TicketUsedOnce /\ Login!OpenTicketFresh /\ Login!HalfLoggedInExpires)
  <1>1. 0 \in Nat
    OBVIOUS
  <1>2. AnyCharServer!Spec => [](AnyCharServer!TicketUsedOnce /\ AnyCharServer!OpenTicketFresh)
    BY <1>1, AnyCharServer!TicketSafety, ServersAssumption, MaxIdAssumption, PTL
       DEF AnyCharServer!Ids
  <1>3. AnyCharServer!Spec => []AnyCharServer!HalfLoggedInExpires
    BY <1>1, AnyCharServer!DeadlineSafety, ServersAssumption, MaxIdAssumption, PTL
       DEF AnyCharServer!Ids
  <1>4. /\ AnyCharServer!TicketUsedOnce => Login!TicketUsedOnce
        /\ AnyCharServer!OpenTicketFresh => Login!OpenTicketFresh
        /\ AnyCharServer!HalfLoggedInExpires => Login!HalfLoggedInExpires
    BY DEF AnyCharServer!TicketUsedOnce, AnyCharServer!OpenTicketFresh,
           AnyCharServer!HalfLoggedInExpires, AnyCharServer!Ids, AnyCharServer!NoId,
           AnyCharServer!AtLogin, AnyCharServer!Absent, Login!TicketUsedOnce,
           Login!OpenTicketFresh, Login!HalfLoggedInExpires, Login!Ids, Login!NoId,
           Login!AtLogin, Login!Absent
  <1> QED BY <1>2, <1>3, <1>4, SameSteps, SameStart, LoginRefinement, PTL
          DEF ImplementsLogin, Login!Spec, AnyCharServer!Spec
=============================================================================
