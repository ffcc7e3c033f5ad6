----------------------------- MODULE CharServer -----------------------------
(***************************************************************************)
(* The char-server between the login-server and the map-servers.  It       *)
(* admits clients whose ticket the login-server accepts, hands a character *)
(* over to a map-server with an auth node of its own, remembers in         *)
(* online_char_db where every account plays, and owns the characters'      *)
(* saved data.                                                             *)
(***************************************************************************)
EXTENDS MapLink

CONSTANT ZeroByteChars   \* characters whose id has a zero low byte

VARIABLES char_auth_db,    \* char_auth_db[a]: the node a map-server or a client may use
          online_char_db,  \* online_char_db[a]: where the account is
          char_session,    \* char_session[c]: the client connections
          char_db          \* char_db[ch]: the saved status of a character

charVars == <<char_auth_db, online_char_db, char_session, char_db>>

(* online_char_data.server when it is no map-server. *)
NoServer == -1
UnknownServer == -2   \* between the servers

Node == [char : Chars \cup {None}, id : Ids]
Entry == [char : Chars \cup {None}, server : MapServers \cup {NoServer, UnknownServer},
          fd : Clients \cup {None}, timer : BOOLEAN]
CharSession == [account : Accounts, id : Ids, auth : BOOLEAN, eof : BOOLEAN]

CharTypeOK ==
  /\ char_auth_db \in [Accounts -> Node \cup {None}]
  /\ online_char_db \in [Accounts -> Entry \cup {None}]
  /\ char_session \in [Clients -> CharSession \cup {None}]
  /\ char_db \in [Chars -> Status]

CharInit ==
  /\ char_auth_db = [a \in Accounts |-> None]
  /\ online_char_db = [a \in Accounts |-> None]
  /\ char_session = [c \in Clients |-> None]
  /\ char_db = [ch \in Chars |-> [ver |-> 0, place |-> Home[ch]]]

-----------------------------------------------------------------------------
(* The online table, char.cpp: what an entry becomes. *)

(* idb_ensure with char_create_online_data. *)
Ensured(e) ==
  IF e = None THEN [char |-> None, server |-> NoServer, fd |-> None, timer |-> FALSE]
              ELSE e

char_set_charselect(e) ==
  [Ensured(e) EXCEPT !.char = None, !.server = NoServer, !.timer = FALSE]

(* Mutant: stores the index behind the right one. *)
off_by_one_server(e, m, ch) ==
  [Ensured(e) EXCEPT !.char = ch, !.server = m + 1, !.timer = FALSE]

char_set_char_online(e, m, ch) ==
  [Ensured(e) EXCEPT !.char = ch, !.server = m, !.timer = FALSE]

(* The entry is only reset when it is about the character that leaves. *)
char_set_char_offline(e, ch) ==
  IF e = None THEN None
  ELSE IF e.char = ch THEN [e EXCEPT !.char = None, !.server = NoServer, !.timer = FALSE]
  ELSE [e EXCEPT !.timer = FALSE]

(* The login-server hears of it when all characters of the account leave,  *)
(* or the client has no connection to the char-server.                     *)
OfflineNotice(a, e, ch) ==
  IF ch = None \/ e = None \/ e.fd = None THEN <<SetAccOffline(a)>> ELSE <<>>

OnMapServer(e) == e # None /\ e.server \in MapServers

(* char_set_char_online: another map-server claims the account. *)
Conflict(e, m) == OnMapServer(e) /\ e.char # None /\ e.server # m

(* mapif_disconnectplayer to the map-server of the entry, if the condition *)
(* holds: what is sent to each map-server.                                 *)
Kick(cond, a, e) ==
  [m \in MapServers |-> IF cond /\ e.server = m THEN <<DisconnectPlayer(a)>> ELSE <<>>]

To(m, packet) == [x \in MapServers |-> IF x = m THEN <<packet>> ELSE <<>>]
SendToMaps(out) == toMap' = [m \in MapServers |-> toMap[m] \o out[m]]

SetEntry(a, e) == online_char_db' = [online_char_db EXCEPT ![a] = e]
SetNode(a, n) == char_auth_db' = [char_auth_db EXCEPT ![a] = n]
SetSession(c, s) == char_session' = [char_session EXCEPT ![c] = s]

-----------------------------------------------------------------------------
(* Clients, char_clif.cpp. *)

NewSession(a, id) == [account |-> a, id |-> id, auth |-> FALSE, eof |-> FALSE]

(* char_auth_ok: the ticket of session s of client c is good. *)
PlaysElsewhere(a) == OnMapServer(online_char_db[a])
SelectsElsewhere(a, c) == /\ online_char_db[a] # None
                          /\ online_char_db[a].fd \notin {None, c}
                          /\ char_session[online_char_db[a].fd] # None

char_auth_ok(c, s) ==
  LET a == s.account
      e == online_char_db[a] IN
  \/ /\ PlaysElsewhere(a)
     /\ SendToMaps(Kick(TRUE, a, e))
     /\ SetEntry(a, [e EXCEPT !.timer = TRUE])
     /\ SetSession(c, s)
     /\ UNCHANGED toLogin
  \/ /\ ~PlaysElsewhere(a) /\ SelectsElsewhere(a, c)
     /\ SetSession(c, s)
     /\ UNCHANGED <<toMap, online_char_db, toLogin>>
  \/ /\ ~PlaysElsewhere(a) /\ ~SelectsElsewhere(a, c)
     /\ SetEntry(a, IF e = None THEN char_set_charselect(e)
                                ELSE [char_set_charselect(e) EXCEPT !.fd = c])
     /\ SetSession(c, [s EXCEPT !.auth = TRUE])
     /\ SendToLogin(<<SetAccOnline(a)>>)
     /\ UNCHANGED toMap

(* A client presents its ticket.  A node left by a map-server is used up;  *)
(* otherwise the login-server is asked.                                    *)
chclif_parse_reqtoconnect(c) ==
  LET a == client[c].account
      s == NewSession(a, client[c].id) IN
  /\ client[c].dest = ToCharServer
  /\ char_session[c] = None
  /\ client' = [client EXCEPT ![c].dest = Nowhere]
  /\ IF char_auth_db[a] # None /\ char_auth_db[a].id = client[c].id
       THEN /\ SetNode(a, None)
            /\ char_auth_ok(c, s)
       ELSE /\ SetSession(c, s)
            /\ SendToLogin(<<ReqAuth(a, client[c].id, c)>>)
            /\ UNCHANGED <<char_auth_db, online_char_db, toMap>>
  /\ UNCHANGED <<char_db, fromLogin, toChar>>

(* An admitted client picks a character: it is online between the servers, *)
(* gets an auth node, and the client is sent to the map-server of the      *)
(* character's last_point, or to another one if that is down; without any  *)
(* map-server it waits.                                                    *)
chclif_parse_charselect(c, ch) ==
  LET s == char_session[c]
      a == s.account
      e == online_char_db[a] IN
  /\ s # None /\ s.auth /\ ~s.eof
  /\ client[c].dest = Nowhere /\ client[c].id = s.id
  /\ Owner[ch] = a
  /\ SetEntry(a, char_set_char_online(e, UnknownServer, ch))
  /\ SendToMaps(Kick(Conflict(e, UnknownServer), a, e))
  /\ SendToLogin(<<SetAccOnline(a)>>)
  /\ SetNode(a, [char |-> ch, id |-> s.id])
  /\ \E m \in connected :
       /\ char_db[ch].place \in connected => m = char_db[ch].place
       /\ char_db' = [char_db EXCEPT ![ch].place = m]
       /\ client' = [client EXCEPT ![c].char = ch, ![c].dest = m]
  /\ UNCHANGED <<char_session, fromLogin, toChar>>

(* The client closes its connection; flag.eof. *)
CharHangUp(c) ==
  /\ char_session[c] # None /\ ~char_session[c].eof
  /\ SetSession(c, [char_session[c] EXCEPT !.eof = TRUE])
  /\ UNCHANGED <<char_auth_db, online_char_db, char_db, linkLoginVars, linkMapVars, client>>

(* Mutant: does not look where the account is. *)
always_offline(e) == TRUE

OffMapServers(e) == e = None \/ e.server = NoServer

(* chclif_parse on a connection with flag.eof. *)
CharSessionEnds(c) ==
  LET s == char_session[c]
      a == s.account
      e == online_char_db[a]
      detached == IF e # None /\ e.fd = c THEN [e EXCEPT !.fd = None] ELSE e IN
  /\ s # None /\ s.eof
  /\ SetSession(c, None)
  /\ CASE ~s.auth -> UNCHANGED <<online_char_db, toLogin>>
       [] s.auth /\ OffMapServers(detached) ->
            /\ SetEntry(a, char_set_char_offline(detached, None))
            /\ SendToLogin(OfflineNotice(a, detached, None))
       [] s.auth /\ ~OffMapServers(detached) -> SetEntry(a, detached) /\ UNCHANGED toLogin
  /\ UNCHANGED <<char_auth_db, char_db, fromLogin, linkMapVars, client>>

-----------------------------------------------------------------------------
(* Packets of the login-server, char_logif.cpp. *)

CharHearsLogin(type) == /\ fromLogin[Me] # <<>>
                        /\ Head(fromLogin[Me]).type = type
                        /\ fromLogin' = [fromLogin EXCEPT ![Me] = Tail(@)]

(* The answer to reqauth, for the session that asked, if it still waits. *)
Awaits(s, p) == s # None /\ ~s.eof /\ ~s.auth /\ s.account = p.account /\ s.id = p.id

chlogif_parse_ackaccreq ==
  LET p == Head(fromLogin[Me])
      s == char_session[p.fd] IN
  /\ CharHearsLogin("ackaccreq")
  /\ IF Awaits(s, p) /\ p.ok
       THEN char_auth_ok(p.fd, s)
       ELSE UNCHANGED <<online_char_db, char_session, toLogin, toMap>>
  /\ UNCHANGED <<char_auth_db, char_db, toChar, client>>

(* A second login wants the account: it is kicked off its map-server, or   *)
(* off the char-server, or forgotten if it is between the servers.         *)
chlogif_parse_askkick ==
  LET a == Head(fromLogin[Me]).account
      e == online_char_db[a]
      sessions == {c \in Clients : char_session[c] # None /\ char_session[c].account = a} IN
  /\ CharHearsLogin("askkick")
  /\ SetNode(a, None)
  /\ \/ /\ e = None
        /\ UNCHANGED <<online_char_db, char_session, toMap, toLogin>>
     \/ /\ OnMapServer(e)
        /\ SendToMaps(Kick(TRUE, a, e))
        /\ SetEntry(a, [e EXCEPT !.timer = TRUE])
        /\ UNCHANGED <<char_session, toLogin>>
     \/ /\ e # None /\ ~OnMapServer(e)
        /\ \E c \in sessions : SetSession(c, [char_session[c] EXCEPT !.eof = TRUE])
        /\ UNCHANGED <<online_char_db, toMap, toLogin>>
     \/ /\ e # None /\ ~OnMapServer(e)
        /\ sessions = {}
        /\ SetEntry(a, char_set_char_offline(e, None))
        /\ SendToLogin(OfflineNotice(a, e, None))
        /\ UNCHANGED <<char_session, toMap>>
  /\ UNCHANGED <<char_db, toChar, client>>

-----------------------------------------------------------------------------
(* Packets of map-server m, char_mapif.cpp and inter.cpp. *)

(* Mutant: does not compare the node. *)
any_client(n, p) == TRUE

(* The node of the account was left for this client. *)
NodeMatches(n, p) == n # None /\ n.char = p.char /\ n.id = p.id

(* A map-server asks about a client that came with a node. *)
chmapif_parse_reqauth(m) ==
  LET p == Head(toChar[m])
      a == p.account
      e == online_char_db[a]
      n == char_auth_db[a] IN
  /\ CharReceives(m, "authreq")
  /\ IF NodeMatches(n, p)
       THEN LET reply == To(m, AuthOk(a, p.char, p.id, char_db[p.char]))
                kick == Kick(Conflict(e, m), a, e) IN
            /\ SendToMaps([x \in MapServers |-> reply[x] \o kick[x]])
            /\ SetNode(a, None)
            /\ SetEntry(a, char_set_char_online(e, m, p.char))
            /\ SendToLogin(<<SetAccOnline(a)>>)
       ELSE /\ SendToMaps(To(m, AuthFail(a, p.char, p.id)))
            /\ UNCHANGED <<char_auth_db, online_char_db, toLogin>>
  /\ UNCHANGED <<char_session, char_db, fromLogin, client>>

(* Mutant: refuses final saves of characters set offline before. *)
only_online_accepted(p, e) == e # None /\ e.char = p.char

(* A character's data arrives.  It is stored if this is its final save, if *)
(* byte 13 of the packet is not zero, or if the character is online; the   *)
(* data itself starts at byte 13, so that byte is the low byte of its id.  *)
SaveAccepted(p, e) == \/ p.quit
                      \/ p.char \notin ZeroByteChars
                      \/ e # None /\ e.char = p.char

(* Mutant: does not acknowledge. *)
no_ack(m, p) == [x \in MapServers |-> <<>>]

FinalSaveAck(m, p) == To(m, SaveAck(p.account, p.char))

chmapif_parse_reqsavechar(m) ==
  LET p == Head(toChar[m])
      a == p.account
      e == online_char_db[a] IN
  /\ CharReceives(m, "save")
  /\ char_db' = IF SaveAccepted(p, e) THEN [char_db EXCEPT ![p.char] = p.status]
                                     ELSE char_db
  /\ CASE p.quit ->
            /\ SetEntry(a, char_set_char_offline(e, p.char))
            /\ SendToLogin(OfflineNotice(a, e, p.char))
            /\ SendToMaps(FinalSaveAck(m, p))
       [] ~p.quit /\ SaveAccepted(p, e) -> UNCHANGED <<online_char_db, toLogin, toMap>>
       [] ~p.quit /\ ~SaveAccepted(p, e) ->
            /\ SetEntry(a, char_set_char_online(e, m, p.char))
            /\ SendToMaps(Kick(Conflict(e, m), a, e))
            /\ SendToLogin(<<SetAccOnline(a)>>)
  /\ UNCHANGED <<char_auth_db, char_session, fromLogin, client>>

(* A player goes back to the character selection. *)
chmapif_parse_authok(m) ==
  LET p == Head(toChar[m])
      a == p.account IN
  /\ CharReceives(m, "charselect")
  /\ SetNode(a, [char |-> None, id |-> p.id])
  /\ SetEntry(a, char_set_charselect(online_char_db[a]))
  /\ SendToLogin(<<SetAccOnline(a)>>)
  /\ SendToMaps(To(m, CharSelectAck(a)))
  /\ UNCHANGED <<char_session, char_db, fromLogin, client>>

(* A player walks to a map of another map-server. *)
chmapif_parse_reqchangemapserv(m) ==
  LET p == Head(toChar[m])
      a == p.account
      ok == p.dest \in connected IN
  /\ CharReceives(m, "changemap")
  /\ IF ok
       THEN /\ char_db' = [char_db EXCEPT ![p.char].place = p.dest]
            /\ SetNode(a, [char |-> p.char, id |-> p.id])
            /\ SetEntry(a, [Ensured(online_char_db[a]) EXCEPT !.char = p.char,
                                                              !.server = p.dest])
       ELSE UNCHANGED <<char_db, char_auth_db, online_char_db>>
  /\ SendToMaps(To(m, ChangeMapAck(a, p.char, p.id, p.dest, ok)))
  /\ UNCHANGED <<char_session, linkLoginVars, client>>

chmapif_parse_setcharoffline(m) ==
  LET p == Head(toChar[m])
      e == online_char_db[p.account] IN
  /\ CharReceives(m, "offline")
  /\ SetEntry(p.account, char_set_char_offline(e, p.char))
  /\ SendToLogin(OfflineNotice(p.account, e, p.char))
  /\ UNCHANGED <<char_auth_db, char_session, char_db, fromLogin, toMap, client>>

mapif_parse_RegistryRequest(m) ==
  LET p == Head(toChar[m]) IN
  /\ CharReceives(m, "registry")
  /\ SendToMaps(To(m, Registers(p.account, p.char)))
  /\ UNCHANGED <<charVars, linkLoginVars, client>>

(* The entries of a map-server whose link is gone: "in some map server that *)
(* we aren't connected to".                                                *)
char_db_setoffline(e, m) ==
  IF e # None /\ e.server = m THEN [e EXCEPT !.server = UnknownServer] ELSE e

(* A map-server sends all who play on it: its other entries are no longer  *)
(* known to be anywhere, and a player whom another map-server had is       *)
(* kicked off that one.                                                    *)
chmapif_parse_regmapuser(m) ==
  LET p == Head(toChar[m])
      entry(a) == char_db_setoffline(online_char_db[a], m) IN
  /\ CharReceives(m, "users")
  /\ online_char_db' = [a \in Accounts |->
       IF p.users[a] = None THEN entry(a)
       ELSE [Ensured(entry(a)) EXCEPT !.server = m, !.char = p.users[a]]]
  /\ SendToMaps([o \in MapServers |->
       Joined([a \in Accounts |->
                 Kick(p.users[a] # None /\ OnMapServer(entry(a)), a, entry(a))[o]])])
  /\ UNCHANGED <<char_auth_db, char_session, char_db, linkLoginVars, client>>

(* The link to a map-server is lost. *)
chmapif_on_disconnect(m) ==
  /\ m \in connected
  /\ connected' = connected \ {m}
  /\ toChar' = [toChar EXCEPT ![m] = <<>>]
  /\ toMap' = [toMap EXCEPT ![m] = <<>>]
  /\ online_char_db' = [a \in Accounts |-> char_db_setoffline(online_char_db[a], m)]
  /\ UNCHANGED <<char_auth_db, char_session, char_db, linkLoginVars, client>>

(* It connects, and sends its maps: the two steps of the new link, taken   *)
(* as one, up to the char-server's answer.                                 *)
chclif_parse_maplogin(m) ==
  /\ m \notin connected
  /\ connected' = connected \cup {m}
  /\ toMap' = [toMap EXCEPT ![m] = <<MapsReceived>>]
  /\ UNCHANGED <<charVars, linkLoginVars, toChar, client>>

chmapif_parse(m) == \/ chmapif_parse_reqauth(m)
                    \/ chmapif_parse_reqsavechar(m)
                    \/ chmapif_parse_authok(m)
                    \/ chmapif_parse_reqchangemapserv(m)
                    \/ chmapif_parse_setcharoffline(m)
                    \/ mapif_parse_RegistryRequest(m)
                    \/ chmapif_parse_regmapuser(m)

-----------------------------------------------------------------------------
(* Timers, char.cpp. *)

(* A map-server did not answer a kick in time: the account is set offline. *)
char_chardb_waiting_disconnect(a) ==
  LET e == online_char_db[a] IN
  /\ e # None /\ e.timer
  /\ SetEntry(a, char_set_char_offline(e, e.char))
  /\ SendToLogin(OfflineNotice(a, e, e.char))
  /\ UNCHANGED <<char_auth_db, char_session, char_db, fromLogin, linkMapVars, client>>

Idle(e) == e # None /\ e.fd = None /\ e.server \in {NoServer, UnknownServer}

(* char_online_data_cleanup walks the table; this is what it does to one   *)
(* entry (other events may come between two entries, which the code does   *)
(* not allow: the model has more behaviours).  An entry without a          *)
(* connection and on no map-server is dropped; one that is between the     *)
(* servers is reported offline first.                                      *)
char_online_data_cleanup_sub(a) ==
  LET e == online_char_db[a] IN
  /\ Idle(e)
  /\ SetEntry(a, None)
  /\ SendToLogin(IF e.server = UnknownServer THEN OfflineNotice(a, e, e.char) ELSE <<>>)
  /\ UNCHANGED <<char_auth_db, char_session, char_db, fromLogin, linkMapVars, client>>
=============================================================================
