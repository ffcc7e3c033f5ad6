----------------------------- MODULE MapServer -----------------------------
(***************************************************************************)
(* The login, logout and map-change life of players on the map-servers.    *)
(* A player that is not yet, or no longer, in the game sits in the         *)
(* map-server's auth_db, as an inactive map_session_data: ST_LOGIN until   *)
(* the char-server has sent its status and registries, ST_LOGOUT until its *)
(* final save is acknowledged, ST_MAPCHANGE until it is told to move on.   *)
(***************************************************************************)
EXTENDS MapLink

VARIABLES map_auth_db,   \* map_auth_db[m][a]: the auth node of the account
          pc_db,         \* pc_db[m][a]: the active player in id_db
          map_session,   \* map_session[m][c]: the client connections
          best           \* history: how far each character ever got, but for
                         \* what a breaking link cost (LinkBreaks)

mapVars == <<map_auth_db, pc_db, map_session, best>>

ST_LOGIN == "login"
ST_LOGOUT == "logout"
ST_MAPCHANGE == "mapchange"

MapNode == [state : {ST_LOGIN, ST_LOGOUT, ST_MAPCHANGE}, char : Chars, id : Ids,
            fd : Clients \cup {None}, status : Status]
Player == [char : Chars, id : Ids, fd : Clients \cup {None}, status : Status]
(* sd: session_data holds a map_session_data, active or not. *)
MapSession == [account : Accounts, char : Chars, sd : BOOLEAN, eof : BOOLEAN]

MapTypeOK ==
  /\ map_auth_db \in [MapServers -> [Accounts -> MapNode \cup {None}]]
  /\ pc_db \in [MapServers -> [Accounts -> Player \cup {None}]]
  /\ map_session \in [MapServers -> [Clients -> MapSession \cup {None}]]
  /\ best \in [Chars -> Versions]

MapInit ==
  /\ map_auth_db = [m \in MapServers |-> [a \in Accounts |-> None]]
  /\ pc_db = [m \in MapServers |-> [a \in Accounts |-> None]]
  /\ map_session = [m \in MapServers |-> [c \in Clients |-> None]]
  /\ best = [ch \in Chars |-> 0]

-----------------------------------------------------------------------------
(* Auth nodes and the registry of players. *)

SetMapNode(m, a, n) == map_auth_db' = [map_auth_db EXCEPT ![m][a] = n]
SetPlayer(m, a, p) == pc_db' = [pc_db EXCEPT ![m][a] = p]
SetMapSession(m, c, s) == map_session' = [map_session EXCEPT ![m][c] = s]

HasNode(m, a, ch, state) == /\ map_auth_db[m][a] # None
                            /\ map_auth_db[m][a].char = ch
                            /\ map_auth_db[m][a].state = state

(* The sessions after chrif_auth_delete freed the player data of session c *)
(* and after set_eof(c), if there is a session c.                          *)
Detached(ss, c) == IF c # None /\ ss[c] # None THEN [ss EXCEPT ![c].sd = FALSE] ELSE ss
(* Mutant: does not close the connection. *)
left_open(ss, c) == ss

Closed(ss, c) == IF c # None /\ ss[c] # None THEN [ss EXCEPT ![c].eof = TRUE] ELSE ss
SetSessions(m, ss) == map_session' = [map_session EXCEPT ![m] = ss]

Saved(p, place) == [p.status EXCEPT !.place = place]

(* The active player of session c. *)
Plays(m, c) == LET s == map_session[m][c] IN
  /\ s # None /\ s.sd
  /\ pc_db[m][s.account] # None /\ pc_db[m][s.account].fd = c

-----------------------------------------------------------------------------
(* Clients, clif.cpp. *)

(* A client arrives with the character it was sent here for.  It is turned *)
(* away if the account is still in the game or a node of another login     *)
(* waits; a node of the same login, or no link to the char-server, makes   *)
(* chrif_authreq close the new connection, which keeps its player data     *)
(* until then.                                                             *)
clif_parse_WantToConnection(m, c) ==
  LET a == client[c].account
      ch == client[c].char
      n == map_auth_db[m][a]
      recognized == \/ pc_db[m][a] # None
                    \/ n # None /\ ~(n.char = ch /\ n.state = ST_LOGIN)
      session(sd, eof) == [account |-> a, char |-> ch, sd |-> sd, eof |-> eof] IN
  /\ client[c].dest = m
  /\ map_session[m][c] = None
  /\ client' = [client EXCEPT ![c].dest = Nowhere]
  /\ \/ /\ recognized
        /\ SetMapSession(m, c, session(FALSE, TRUE))
        /\ UNCHANGED <<map_auth_db, toChar>>
     \/ /\ ~recognized /\ (n # None \/ ~chrif_isconnected(m))
        /\ SetMapSession(m, c, session(TRUE, TRUE))
        /\ UNCHANGED <<map_auth_db, toChar>>
     \/ /\ ~recognized /\ n = None /\ chrif_isconnected(m)
        /\ SetMapSession(m, c, session(TRUE, FALSE))
        /\ SetMapNode(m, a, [state |-> ST_LOGIN, char |-> ch, id |-> client[c].id, fd |-> c,
                             status |-> [ver |-> BlankVersion, place |-> m]])
        /\ SendToChar(m, <<AuthReq(a, ch, client[c].id)>>)
  /\ UNCHANGED <<pc_db, best, toMap>>

MapHangUp(m, c) ==
  /\ map_session[m][c] # None /\ ~map_session[m][c].eof
  /\ SetMapSession(m, c, [map_session[m][c] EXCEPT !.eof = TRUE])
  /\ UNCHANGED <<map_auth_db, pc_db, best, linkMapVars, client>>

(* map_quit of an active player: it leaves the game, becomes an ST_LOGOUT  *)
(* node unless the account already has a node, and its final save is sent. *)
map_quit(m, a) ==
  LET p == pc_db[m][a] IN
  /\ SetPlayer(m, a, None)
  /\ IF map_auth_db[m][a] = None
       THEN SetMapNode(m, a, [state |-> ST_LOGOUT, char |-> p.char, id |-> p.id,
                              fd |-> None, status |-> Saved(p, m)])
       ELSE UNCHANGED map_auth_db
  /\ SendToChar(m, <<SaveChar(a, p.char, Saved(p, m), TRUE)>>)

(* map_quit of player data that is not active takes the account's node     *)
(* with it, whoever's node that is.                                        *)
QuitInactive(m, c) ==
  LET s == map_session[m][c]
      n == map_auth_db[m][s.account]
      drops == n # None /\ n.char = s.char /\ n.state # ST_LOGOUT IN
  /\ SetSessions(m, [(IF drops THEN Detached(map_session[m], n.fd) ELSE map_session[m])
                       EXCEPT ![c] = None])
  /\ IF drops THEN SetMapNode(m, s.account, None) ELSE UNCHANGED map_auth_db
  /\ UNCHANGED <<pc_db, toChar>>

(* clif_parse on a connection with flag.eof; clif_quitsave lets a player   *)
(* who fought lately stay in the game without a connection for a while.    *)
MapSessionEnds(m, c) ==
  LET s == map_session[m][c]
      a == s.account IN
  /\ s # None /\ s.eof
  /\ \/ /\ ~s.sd
        /\ SetMapSession(m, c, None)
        /\ UNCHANGED <<map_auth_db, pc_db, toChar>>
     \/ /\ Plays(m, c)
        /\ SetMapSession(m, c, None)
        /\ map_quit(m, a)
     \/ /\ Plays(m, c)
        /\ SetMapSession(m, c, None)
        /\ SetPlayer(m, a, [pc_db[m][a] EXCEPT !.fd = None])
        /\ UNCHANGED <<map_auth_db, toChar>>
     \/ /\ s.sd /\ ~Plays(m, c)
        /\ QuitInactive(m, c)
  /\ UNCHANGED <<best, toMap, client>>

(* The timer of a player left in the game without a connection. *)
clif_delayquit(m, a) ==
  /\ pc_db[m][a] # None /\ pc_db[m][a].fd = None
  /\ map_quit(m, a)
  /\ UNCHANGED <<map_session, best, toMap, client>>

(* The player chooses "character select". *)
clif_parse_Restart(m, c) ==
  LET a == map_session[m][c].account IN
  /\ Plays(m, c) /\ ~map_session[m][c].eof
  /\ SendToChar(m, <<CharSelectReq(a, pc_db[m][a].id)>>)
  /\ UNCHANGED <<mapVars, toMap, client>>

(* pc_setpos to a map of another map-server: the player leaves the game    *)
(* and is saved at its new place; the char-server is asked to move it.     *)
(* Without a link the maps of other map-servers are not known.             *)
pc_setpos(m, c, dest) ==
  LET a == map_session[m][c].account
      p == pc_db[m][a] IN
  /\ Plays(m, c) /\ ~map_session[m][c].eof
  /\ dest # m /\ chrif_isconnected(m)
  /\ SetPlayer(m, a, None)
  /\ IF map_auth_db[m][a] = None
       THEN SetMapNode(m, a, [state |-> ST_MAPCHANGE, char |-> p.char, id |-> p.id,
                              fd |-> c, status |-> Saved(p, dest)])
       ELSE UNCHANGED map_auth_db
  /\ SendToChar(m, <<SaveChar(a, p.char, Saved(p, dest), FALSE),
                     ChangeMapReq(a, p.char, p.id, dest)>>)
  /\ UNCHANGED <<map_session, best, toMap, client>>

(* Anything that changes a character for good: loot, experience, a trade.  *)
Progress(m, a) ==
  LET p == pc_db[m][a] IN
  /\ p # None /\ p.status.ver < MaxVersion
  /\ SetPlayer(m, a, [p EXCEPT !.status.ver = @ + 1])
  /\ best' = [best EXCEPT ![p.char] = IF @ <= p.status.ver THEN p.status.ver + 1 ELSE @]
  /\ UNCHANGED <<map_auth_db, map_session, linkMapVars, client>>

(* chrif_save of a player who stays: the autosave timer, or a trade.       *)
chrif_save(m, a) ==
  LET p == pc_db[m][a] IN
  /\ p # None
  /\ SendToChar(m, <<SaveChar(a, p.char, Saved(p, m), FALSE)>>)
  /\ UNCHANGED <<mapVars, toMap, client>>

-----------------------------------------------------------------------------
(* Packets of the char-server, chrif.cpp and intif.cpp. *)

(* The status arrives.  It is ignored if the account is in the game or has *)
(* no node that waits for it; otherwise it is loaded and the registries    *)
(* are asked for, or, if it is for another login, that login fails.        *)
chrif_authok(m) ==
  LET p == Head(toMap[m])
      a == p.account
      n == map_auth_db[m][a]
      waits == pc_db[m][a] = None /\ n # None /\ n.state = ST_LOGIN
      agrees == n.char = p.char /\ n.id = p.id IN
  /\ MapReceives(m, "authok")
  /\ \/ /\ ~waits
        /\ UNCHANGED <<map_auth_db, map_session, toChar>>
     \/ /\ waits /\ agrees
        /\ SetMapNode(m, a, [n EXCEPT !.status = p.status])
        /\ SendToChar(m, <<RegistryReq(a, p.char)>>)
        /\ UNCHANGED map_session
     \/ /\ waits /\ ~agrees
        /\ SendToChar(m, <<CharOffline(a, n.char)>>)
        /\ IF n.char = p.char
             THEN /\ SetMapNode(m, a, None)
                  /\ SetSessions(m, Detached(Closed(map_session[m], n.fd), n.fd))
             ELSE /\ SetSessions(m, Closed(map_session[m], n.fd))
                  /\ UNCHANGED map_auth_db
  /\ UNCHANGED <<pc_db, best, client>>

chrif_authfail(m) ==
  LET p == Head(toMap[m])
      a == p.account
      n == map_auth_db[m][a] IN
  /\ MapReceives(m, "authfail")
  /\ IF HasNode(m, a, p.char, ST_LOGIN) /\ n.id = p.id
       THEN /\ SetSessions(m, Detached(Closed(map_session[m], n.fd), n.fd))
            /\ SetMapNode(m, a, None)
       ELSE UNCHANGED <<map_session, map_auth_db>>
  /\ UNCHANGED <<pc_db, best, toChar, client>>

(* Mutant: does not free the node. *)
node_forgotten(m, a) == UNCHANGED map_auth_db

chrif_auth_finished(m, a) == SetMapNode(m, a, None)

(* The three registry packets, taken as one.  They complete the login of   *)
(* the account's node, found by account and character: pc_reg_received.    *)
intif_parse_Registers(m) ==
  LET p == Head(toMap[m])
      a == p.account
      n == map_auth_db[m][a] IN
  /\ MapReceives(m, "registers")
  /\ IF HasNode(m, a, p.char, ST_LOGIN)
       THEN /\ SetPlayer(m, a, [char |-> n.char, id |-> n.id, fd |-> n.fd,
                                status |-> n.status])
            /\ chrif_auth_finished(m, a)
       ELSE UNCHANGED <<pc_db, map_auth_db>>
  /\ UNCHANGED <<map_session, best, toChar, client>>

(* A client listens to the server it was last sent to. *)
Listens(c, id) == client[c].id = id

(* The client may go back to the char-server. *)
clif_charselectok(m) ==
  LET p == Head(toMap[m])
      pl == pc_db[m][p.account] IN
  /\ MapReceives(m, "charselectack")
  /\ client' = IF pl # None /\ pl.fd # None /\ Listens(pl.fd, pl.id)
                 THEN [client EXCEPT ![pl.fd].dest = ToCharServer]
                 ELSE client
  /\ UNCHANGED <<mapVars, toChar>>

(* The move to another map-server is granted or not; the player has been   *)
(* saved already and is removed from memory.                               *)
chrif_changemapserverack(m) ==
  LET p == Head(toMap[m])
      a == p.account
      n == map_auth_db[m][a] IN
  /\ MapReceives(m, "changemapack")
  /\ \/ /\ ~HasNode(m, a, p.char, ST_MAPCHANGE)
        /\ UNCHANGED <<map_auth_db, map_session, toChar, client>>
     \/ /\ HasNode(m, a, p.char, ST_MAPCHANGE) /\ p.ok
        /\ SetMapNode(m, a, None)
        /\ SetSessions(m, Detached(map_session[m], n.fd))
        /\ client' = IF Listens(n.fd, n.id) THEN [client EXCEPT ![n.fd].dest = p.dest]
                                            ELSE client
        /\ UNCHANGED toChar
     \/ /\ HasNode(m, a, p.char, ST_MAPCHANGE) /\ ~p.ok
        /\ SetMapNode(m, a, None)
        /\ SetSessions(m, Detached(Closed(map_session[m], n.fd), n.fd))
        /\ SendToChar(m, <<CharOffline(a, p.char)>>)
        /\ UNCHANGED client
  /\ UNCHANGED <<pc_db, best>>

(* The char-server wants the account gone.  A login in progress is         *)
(* dropped; a player in the game loses its connection; one without a       *)
(* connection is left to clif_delayquit.                                   *)
chrif_disconnectplayer(m) ==
  LET a == Head(toMap[m]).account
      n == map_auth_db[m][a]
      p == pc_db[m][a] IN
  /\ MapReceives(m, "disconnect")
  /\ \/ /\ p = None /\ n # None /\ n.state = ST_LOGIN
        /\ SetMapNode(m, a, None)
        /\ SetSessions(m, Detached(map_session[m], n.fd))
     \/ /\ p = None /\ ~(n # None /\ n.state = ST_LOGIN)
        /\ UNCHANGED <<map_auth_db, map_session>>
     \/ /\ p # None
        /\ SetSessions(m, Closed(map_session[m], p.fd))
        /\ UNCHANGED map_auth_db
  /\ UNCHANGED <<pc_db, best, toChar, client>>

chrif_save_ack(m) ==
  LET p == Head(toMap[m]) IN
  /\ MapReceives(m, "saveack")
  /\ IF HasNode(m, p.account, p.char, ST_LOGOUT)
       THEN SetMapNode(m, p.account, None)
       ELSE UNCHANGED map_auth_db
  /\ UNCHANGED <<pc_db, map_session, best, toChar, client>>

(* Mutant: leaves the final save to the timer. *)
not_resent(a, n) == <<>>

(* What chrif_reconnect sends about the node of an account. *)
ResentNode(a, n) ==
  CASE n = None -> <<>>
    [] n # None /\ n.state = ST_LOGIN -> <<CharOffline(a, n.char)>>
    [] n # None /\ n.state = ST_LOGOUT -> <<SaveChar(a, n.char, n.status, TRUE)>>
    [] n # None /\ n.state = ST_MAPCHANGE -> <<>>

(* The link is ready again: chrif_on_ready.  All who play are sent, and    *)
(* every auth node is resolved: a login fails, as its status cannot be     *)
(* asked for again; the final save of a logout is sent again; the client   *)
(* of a map change is turned away, because the maps of the other           *)
(* map-servers come after this packet.                                     *)
chrif_on_ready(m) ==
  LET node(a) == map_auth_db[m][a]
      fails(a) == node(a) # None /\ node(a).state = ST_LOGIN
      moves(a) == node(a) # None /\ node(a).state = ST_MAPCHANGE
      users == [a \in Accounts |-> IF pc_db[m][a] = None THEN None ELSE pc_db[m][a].char]
      resent == Joined([a \in Accounts |-> ResentNode(a, node(a))])
      after(c) == LET s == map_session[m][c] IN
        IF s = None \/ ~\E a \in Accounts : (fails(a) \/ moves(a)) /\ node(a).fd = c THEN s
        ELSE [s EXCEPT !.eof = TRUE,
                       !.sd = @ /\ ~\E a \in Accounts : fails(a) /\ node(a).fd = c] IN
  /\ MapReceives(m, "ready")
  /\ toChar' = [toChar EXCEPT ![m] = <<Users(users)>> \o resent]
  /\ map_auth_db' = [map_auth_db EXCEPT ![m] =
                       [a \in Accounts |-> IF fails(a) THEN None ELSE node(a)]]
  /\ map_session' = [map_session EXCEPT ![m] = [c \in Clients |-> after(c)]]
  /\ UNCHANGED <<pc_db, best, client>>

chrif_parse(m) == \/ chrif_authok(m)
                  \/ chrif_authfail(m)
                  \/ intif_parse_Registers(m)
                  \/ clif_charselectok(m)
                  \/ chrif_changemapserverack(m)
                  \/ chrif_disconnectplayer(m)
                  \/ chrif_save_ack(m)
                  \/ chrif_on_ready(m)

(* auth_db_cleanup, for one node older than a minute: a logout is saved    *)
(* again, any other node is thrown away and the account reported offline.  *)
auth_db_cleanup_sub(m, a) ==
  LET n == map_auth_db[m][a] IN
  /\ n # None /\ chrif_isconnected(m)
  /\ IF n.state = ST_LOGOUT
       THEN /\ SendToChar(m, <<SaveChar(a, n.char, n.status, TRUE)>>)
            /\ UNCHANGED <<map_auth_db, map_session>>
       ELSE /\ SendToChar(m, <<CharOffline(a, n.char)>>)
            /\ SetMapNode(m, a, None)
            /\ SetSessions(m, Detached(map_session[m], n.fd))
  /\ UNCHANGED <<pc_db, best, toMap, client>>
=============================================================================
