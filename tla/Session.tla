------------------------------ MODULE Session ------------------------------
(***************************************************************************)
(* One account's way through the three servers: login-server, char-server  *)
(* and map-servers with their links and clients.  The links between the    *)
(* char-server and the map-servers may break; the one to the login-server  *)
(* stays up.                                                               *)
(***************************************************************************)
EXTENDS LoginServer, CharServer, MapServer, Folds, Functions

CONSTANTS MaxPackets, \* bound: packets in flight before clients cause more
          Timely,   \* timers are slower than packets and event loops
          Prompt    \* no client comes back while registries are on the way

ASSUME MaxPacketsAssumption == MaxPackets \in Nat \ {0}
ASSUME ModeAssumption == Timely \in BOOLEAN /\ Prompt \in BOOLEAN

vars == <<loginVars, charVars, mapVars, linkLoginVars, linkMapVars, client, linkState>>

Init == /\ LinkLoginInit /\ LinkMapInit
        /\ LoginInit /\ CharInit /\ MapInit

-----------------------------------------------------------------------------
(* Time: the timers modelled take 10 s (clif_delayquit), 30 s              *)
(* (AUTH_TIMEOUT, at both servers), 60 s (auth_db) and more.               *)

Quiet == /\ toLogin[Me] = <<>> /\ fromLogin[Me] = <<>>
         /\ \A m \in MapServers : toChar[m] = <<>> /\ toMap[m] = <<>>

Served == /\ \A c \in Clients : char_session[c] # None => ~char_session[c].eof
          /\ \A m \in MapServers, c \in Clients :
               map_session[m][c] # None => ~map_session[m][c].eof
          /\ \A m \in MapServers, a \in Accounts :
               pc_db[m][a] # None => pc_db[m][a].fd # None

RegistryOnTheWay(m, a) ==
  \/ \E i \in DOMAIN toMap[m] : toMap[m][i].type = "registers" /\ toMap[m][i].account = a
  \/ \E i \in DOMAIN toChar[m] : toChar[m][i].type = "registry" /\ toChar[m][i].account = a

(* Packets in flight; the bound holds back what starts something new,      *)
(* never a handler.                                                        *)
Packets(links) == FoldFunction(LAMBDA q, n : Len(q) + n, 0, links)
Room ==
  \/ Quiet
  \/ /\ MaxPackets > 1
     /\ Packets(toLogin) + Packets(fromLogin) + Packets(toChar) + Packets(toMap)
          < MaxPackets

TimeOut == IF Timely THEN Quiet /\ Served ELSE Room

(* A client uses one connection at a time: it closes the old one first, and *)
(* that is noticed before the new one is made.  A second client stands for  *)
(* the player whose first connection is dead without anyone knowing.        *)
Unconnected(c) == /\ char_session[c] = None
                  /\ \A m \in MapServers : map_session[m][c] = None

-----------------------------------------------------------------------------
(* The login-server.  A client that is accepted holds a new ticket. *)
OutsideLogin == <<charVars, mapVars, linkMapVars, linkState>>

ClientLogsIn(c, a) ==
  /\ Room /\ Unconnected(c)
  /\ \/ AuthRefused(a) /\ UNCHANGED client
     \/ /\ AuthAccepted(a)
        /\ client' = [client EXCEPT ![c] = [account |-> a, char |-> None, id |-> next_id,
                                            dest |-> ToCharServer]]
  /\ UNCHANGED OutsideLogin

LoginServes(s) == logchrif_parse(s) /\ UNCHANGED <<client, OutsideLogin>>
LoginTimer(a) == /\ TimeOut /\ login_waiting_disconnect_timer(a)
                 /\ UNCHANGED <<client, OutsideLogin>>

(* The char-server. *)
OutsideChar == <<loginVars, mapVars, linkState>>

CharServerClient(c) ==
  /\ \/ Room /\ Unconnected(c) /\ chclif_parse_reqtoconnect(c)
     \/ Room /\ \E ch \in Chars : chclif_parse_charselect(c, ch)
     \/ CharHangUp(c)
  /\ UNCHANGED OutsideChar

CharServesLogin == /\ chlogif_parse_ackaccreq \/ chlogif_parse_askkick
                   /\ UNCHANGED OutsideChar
CharServesMap(m) == chmapif_parse(m) /\ UNCHANGED OutsideChar
CharClientGone(c) == CharSessionEnds(c) /\ UNCHANGED OutsideChar
CharTimers(a) == /\ TimeOut
                 /\ char_chardb_waiting_disconnect(a) \/ char_online_data_cleanup_sub(a)
                 /\ UNCHANGED OutsideChar

(* The map-servers. *)
OutsideMap == <<loginVars, charVars, linkLoginVars, linkState>>

MapServerClient(m, c) ==
  /\ \/ /\ Room /\ Unconnected(c)
        /\ Prompt => ~RegistryOnTheWay(m, client[c].account)
        /\ clif_parse_WantToConnection(m, c)
     \/ Room /\ clif_parse_Restart(m, c)
     \/ Room /\ \E dest \in MapServers : pc_setpos(m, c, dest)
     \/ MapHangUp(m, c)
  /\ UNCHANGED OutsideMap

MapServerPlays(m, a) == /\ Progress(m, a) \/ (Room /\ chrif_save(m, a))
                        /\ UNCHANGED OutsideMap

MapServes(m) == chrif_parse(m) /\ UNCHANGED OutsideMap
MapClientGone(m, c) == MapSessionEnds(m, c) /\ UNCHANGED OutsideMap
MapPlayerGone(m, a) == clif_delayquit(m, a) /\ UNCHANGED OutsideMap
MapTimer(m, a) == TimeOut /\ auth_db_cleanup_sub(m, a) /\ UNCHANGED OutsideMap

(* A link breaks.  The save of a player who moves to another map-server is *)
(* lost with it and not repeated, which SavedOnReconnect is about; it is   *)
(* written off here, so that the properties show that nothing else is.     *)
CutOff(m) == {toChar[m][i].char :
                i \in {k \in DOMAIN toChar[m] : toChar[m][k].type = "changemap"}}
LinkBreaks(m) ==
  /\ breaks < MaxBreaks /\ breaks' = breaks + 1
  /\ chmapif_on_disconnect(m)
  /\ best' = [ch \in Chars |-> IF ch \in CutOff(m) THEN char_db[ch].ver ELSE best[ch]]
  /\ UNCHANGED <<loginVars, map_auth_db, pc_db, map_session>>

(* The map-server tries to connect every ten seconds. *)
check_connect_char_server(m) == /\ chclif_parse_maplogin(m)
                                /\ UNCHANGED <<loginVars, mapVars, breaks>>

Next == \/ \E c \in Clients : \/ \E a \in Accounts : ClientLogsIn(c, a)
                               \/ CharServerClient(c)
                               \/ CharClientGone(c)
        \/ \E s \in CharServers : LoginServes(s)
        \/ CharServesLogin
        \/ \E a \in Accounts : LoginTimer(a) \/ CharTimers(a)
        \/ \E m \in UpServers :
             \/ CharServesMap(m)
             \/ MapServes(m)
             \/ LinkBreaks(m)
             \/ check_connect_char_server(m)
             \/ \E c \in Clients : MapServerClient(m, c) \/ MapClientGone(m, c)
             \/ \E a \in Accounts : \/ MapServerPlays(m, a)
                                     \/ MapPlayerGone(m, a)
                                     \/ MapTimer(m, a)

Spec == Init /\ [][Next]_vars

(* The event loops serve every packet and every closed connection, and run *)
(* every timer that is due.  What a client or a player does is up to them. *)
(* A timer needs strong fairness only because TimeOut may hold it back.    *)
FairSpec ==
  /\ Spec
  /\ \A s \in CharServers : WF_vars(LoginServes(s))
  /\ WF_vars(CharServesLogin)
  /\ \A c \in Clients : WF_vars(CharClientGone(c))
  /\ \A a \in Accounts : SF_vars(LoginTimer(a)) /\ SF_vars(CharTimers(a))
  /\ \A m \in UpServers :
       /\ WF_vars(CharServesMap(m)) /\ WF_vars(MapServes(m))
       /\ WF_vars(check_connect_char_server(m))
       /\ \A c \in Clients : WF_vars(MapClientGone(m, c))
       /\ \A a \in Accounts : WF_vars(MapPlayerGone(m, a)) /\ SF_vars(MapTimer(m, a))

-----------------------------------------------------------------------------
TypeOK == /\ LoginTypeOK /\ LinkLoginTypeOK /\ LinkMapTypeOK
          /\ CharTypeOK /\ MapTypeOK

(* No character is in the game twice.  An account can be for a while, with *)
(* two characters: one that lost its connection in a fight, after it was   *)
(* granted the character selection, stays on its map-server while the      *)
(* other plays on another one.                                             *)
OnePresence ==
  \A a \in Accounts, m, o \in MapServers :
    pc_db[m][a] # None /\ pc_db[o][a] # None /\ pc_db[m][a].char = pc_db[o][a].char
      => m = o

(* On a map-server an account is in the game or has an auth node, never    *)
(* both: map_quit and pc_setpos count on it to keep the player's data.     *)
NodeXorPlayer ==
  \A m \in MapServers, a \in Accounts : pc_db[m][a] = None \/ map_auth_db[m][a] = None

(* Whoever is in the game plays on the newest data of its character.       *)
FreshData ==
  \A m \in MapServers, a \in Accounts :
    pc_db[m][a] # None => pc_db[m][a].status.ver = best[pc_db[m][a].char]

(* Nothing a character gained is ever gone: the newest data is saved, on   *)
(* its way to be saved, or still held by a map-server: by the player, or,  *)
(* as long as it has no link, by the auth node the player left behind.     *)
SomewhereSafe(ch) ==
  LET a == Owner[ch] IN
  \/ char_db[ch].ver = best[ch]
  \/ \E m \in MapServers :
       \/ pc_db[m][a] # None /\ pc_db[m][a].char = ch
            /\ pc_db[m][a].status.ver = best[ch]
       \/ /\ map_auth_db[m][a] # None /\ map_auth_db[m][a].char = ch
          /\ map_auth_db[m][a].state # ST_LOGIN /\ ~chrif_isconnected(m)
          /\ map_auth_db[m][a].status.ver = best[ch]
       \/ \E i \in DOMAIN toChar[m] :
            /\ toChar[m][i].type = "save" /\ toChar[m][i].char = ch
            /\ toChar[m][i].status.ver = best[ch]
NothingLost == \A ch \in Chars : SomewhereSafe(ch)

(* The saved data of a character never goes back. *)
NoRollback == [][\A ch \in Chars : char_db'[ch].ver >= char_db[ch].ver]_vars

(* "Player has been saved already, remove him from memory."                *)
(* (chrif.cpp:488): when the char-server's answer meets the player who is  *)
(* to move to another map-server, the char-server has stored its data.     *)
SavedBeforeRemoved ==
  \A m \in MapServers : \A i \in DOMAIN toMap[m] :
    LET p == toMap[m][i] IN
    p.type = "changemapack" /\ HasNode(m, p.account, p.char, ST_MAPCHANGE)
      => char_db[p.char].ver >= map_auth_db[m][p.account].status.ver

(* When no packet is on its way, the char-server knows where every     *)
(* player is whose client was not sent elsewhere: a kick finds its player. *)
Settled(m, a) == LET p == pc_db[m][a] IN
  /\ p # None /\ p.fd # None
  /\ ~map_session[m][p.fd].eof
  /\ client[p.fd].dest = Nowhere
PlayersAreKnown ==
  Quiet => \A m \in connected, a \in Accounts : Settled(m, a) =>
    /\ online_char_db[a] # None
    /\ online_char_db[a].server = m
    /\ online_char_db[a].char = pc_db[m][a].char

(* As long as no link broke, the login-server knows it, too, so that a     *)
(* second login has the player kicked.                                     *)
PlayersAreOnline ==
  /\ PlayersAreKnown
  /\ breaks = 0 /\ Quiet => \A m \in connected, a \in Accounts : Settled(m, a) =>
                               login_online_db[a] = Me

(* "Character is saved on reconnect." (chrif.cpp:309): once the link is    *)
(* ready, the data of a player who has left the game is stored or on its   *)
(* way to be.                                                              *)
SavedOnReconnect ==
  \A m \in UpServers, a \in Accounts :
    LET n == map_auth_db[m][a] IN
    chrif_isconnected(m) /\ n # None /\ n.state # ST_LOGIN =>
      \/ char_db[n.char].ver >= n.status.ver
      \/ \E i \in DOMAIN toChar[m] :
           toChar[m][i].type = "save" /\ toChar[m][i].char = n.char

(* What the login-server sees of the char-server is a behaviour of         *)
(* LoginSystem, so everything shown and proved there holds here.           *)
Login == INSTANCE LoginSystem WITH MaxQueue <- 0
ImplementsLogin == Login!Spec

(* A player who is told to leave does: the connection is closed, then the  *)
(* player quits, at once or when it stops fighting.                        *)
KickedPlayerLeaves ==
  \A m \in UpServers, a \in Accounts, i \in Ids :
    LET Here == pc_db[m][a] # None /\ pc_db[m][a].id = i
        Told == \E k \in DOMAIN toMap[m] : toMap[m][k] = DisconnectPlayer(a)
    IN Told /\ Here ~> ~Here

(* Nobody stays between the servers: every auth node of a map-server is    *)
(* resolved, whatever became of the client, so that the account can enter. *)
NodesExpire ==
  \A m \in UpServers, a \in Accounts :
    map_auth_db[m][a] # None ~> map_auth_db[m][a] = None

(* "auth is considered completed whence they arrive" (pc.cpp:1714), they   *)
(* being the registries asked for when the status was loaded: a player in  *)
(* the game has had its status loaded.                                     *)
NoBlankPlayer ==
  \A m \in MapServers, a \in Accounts :
    pc_db[m][a] # None => pc_db[m][a].status.ver # BlankVersion
=============================================================================
