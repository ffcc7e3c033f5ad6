------------------------------ MODULE MapLink ------------------------------
(***************************************************************************)
(* The links between a char-server and its map-servers, and what a client  *)
(* was last told: which ticket it holds and which server it goes to next.  *)
(* A link may break: what was on its way is gone; both ends notice it in    *)
(* one step, and the map-server connects again, to the slot it had.        *)
(***************************************************************************)
EXTENDS LoginLink, FiniteSets, Functions

CONSTANTS Chars,        \* character ids
          Owner,          \* Owner[ch]: the account of a character
          MapServers,     \* indices in map_server[]
          UpServers,      \* those that run
          Home,           \* Home[ch]: the map-server of a new character
          Me,             \* the char-server's slot at the login-server
          MaxVersion,     \* bound: versions of a character's data
          MaxBreaks,      \* bound: how often a link breaks
          None            \* an absent entry, session, fd or char id

ASSUME AccountsAssumption == IsFiniteSet(Accounts)
ASSUME OwnerAssumption == Owner \in [Chars -> Accounts]
ASSUME MapServersAssumption == UpServers \subseteq MapServers /\ MapServers \subseteq Nat
ASSUME HomeAssumption == Home \in [Chars -> UpServers]
ASSUME MeAssumption == Me \in CharServers
ASSUME MaxVersionAssumption == MaxVersion \in Nat
ASSUME MaxBreaksAssumption == MaxBreaks \in Nat
ASSUME NoneAssumption == None \notin Accounts \cup Chars \cup Clients

(* mmo_charstatus: how far the character got, and the map-server that      *)
(* holds its last_point.  BlankVersion is a status nothing was loaded into.*)
BlankVersion == -1
Versions == BlankVersion .. MaxVersion
Status == [ver : Versions, place : MapServers]

(* Where a client was told to go and has not gone yet. *)
ToCharServer == -1
Nowhere == -2
Destinations == MapServers \cup {ToCharServer, Nowhere}

VARIABLES toChar,   \* toChar[m]: from map-server m to the char-server
          toMap,    \* toMap[m]: from the char-server to map-server m
          client,   \* client[c]: what the client knows
          connected,  \* the map-servers the char-server has a link to
          breaks      \* history: how often a link broke

linkMapVars == <<toChar, toMap>>
linkState == <<connected, breaks>>

-----------------------------------------------------------------------------
(* Packets to the char-server. *)
AuthReq(a, ch, id)       == [type |-> "authreq", account |-> a, char |-> ch, id |-> id]
SaveChar(a, ch, st, q)   == [type |-> "save", account |-> a, char |-> ch, status |-> st,
                             quit |-> q]
CharSelectReq(a, id)     == [type |-> "charselect", account |-> a, id |-> id]
ChangeMapReq(a, ch, id, m) == [type |-> "changemap", account |-> a, char |-> ch,
                             id |-> id, dest |-> m]
CharOffline(a, ch)       == [type |-> "offline", account |-> a, char |-> ch]
RegistryReq(a, ch)       == [type |-> "registry", account |-> a, char |-> ch]
(* All who play on a map-server: users[a] is the character, or None. *)
Users(users)             == [type |-> "users", users |-> users]

(* Packets to a map-server. *)
AuthOk(a, ch, id, st)    == [type |-> "authok", account |-> a, char |-> ch, id |-> id,
                             status |-> st]
AuthFail(a, ch, id)      == [type |-> "authfail", account |-> a, char |-> ch, id |-> id]
CharSelectAck(a)         == [type |-> "charselectack", account |-> a]
ChangeMapAck(a, ch, id, m, ok) == [type |-> "changemapack", account |-> a, char |-> ch,
                             id |-> id, dest |-> m, ok |-> ok]
DisconnectPlayer(a)      == [type |-> "disconnect", account |-> a]
SaveAck(a, ch)           == [type |-> "saveack", account |-> a, char |-> ch]
Registers(a, ch)         == [type |-> "registers", account |-> a, char |-> ch]
MapsReceived             == [type |-> "ready"]

ToCharMsg ==
  [type : {"authreq"}, account : Accounts, char : Chars, id : Ids]
  \cup [type : {"save"}, account : Accounts, char : Chars, status : Status, quit : BOOLEAN]
  \cup [type : {"charselect"}, account : Accounts, id : Ids]
  \cup [type : {"changemap"}, account : Accounts, char : Chars, id : Ids, dest : MapServers]
  \cup [type : {"offline", "registry"}, account : Accounts, char : Chars]
  \cup [type : {"users"}, users : [Accounts -> Chars \cup {None}]]

ToMapMsg ==
  [type : {"authok"}, account : Accounts, char : Chars, id : Ids, status : Status]
  \cup [type : {"authfail"}, account : Accounts, char : Chars, id : Ids]
  \cup [type : {"charselectack", "disconnect"}, account : Accounts]
  \cup [type : {"changemapack"}, account : Accounts, char : Chars, id : Ids,
        dest : MapServers, ok : BOOLEAN]
  \cup [type : {"saveack", "registers"}, account : Accounts, char : Chars]
  \cup [type : {"ready"}]

LinkMapTypeOK ==
  /\ toChar \in [MapServers -> Seq(ToCharMsg)]
  /\ toMap \in [MapServers -> Seq(ToMapMsg)]
  /\ client \in [Clients -> [account : Accounts \cup {None}, char : Chars \cup {None},
                             id : Ids \cup {NoId}, dest : Destinations]]
  /\ connected \subseteq UpServers
  /\ breaks \in 0 .. MaxBreaks

LinkMapInit ==
  /\ toChar = [m \in MapServers |-> <<>>]
  /\ toMap = [m \in MapServers |-> <<>>]
  /\ client = [c \in Clients |-> [account |-> None, char |-> None, id |-> NoId,
                                  dest |-> Nowhere]]
  /\ connected = UpServers
  /\ breaks = 0

(* The char-server consumes the head of the link from map-server m, and    *)
(* the other way round.                                                    *)
CharReceives(m, type) == /\ toChar[m] # <<>>
                         /\ Head(toChar[m]).type = type
                         /\ toChar' = [toChar EXCEPT ![m] = Tail(@)]

MapReceives(m, type) == /\ toMap[m] # <<>>
                        /\ Head(toMap[m]).type = type
                        /\ toMap' = [toMap EXCEPT ![m] = Tail(@)]

(* A map-server that connects is ready when it hears that its maps were    *)
(* received, the first packet of the new link; until then, and without a   *)
(* link, it sends nothing: chrif_check.                                    *)
chrif_isconnected(m) ==
  m \in connected /\ (toMap[m] # <<>> => Head(toMap[m]).type # "ready")

SendToChar(m, packets) ==
  toChar' = IF chrif_isconnected(m) THEN [toChar EXCEPT ![m] = @ \o packets] ELSE toChar

(* Mutant: queues the packet again. *)
sent_twice(packets) == toLogin' = [toLogin EXCEPT ![Me] = @ \o packets \o packets]

SendToLogin(packets) == toLogin' = [toLogin EXCEPT ![Me] = @ \o packets]

(* What a walk over the accounts sends: f[a] for each of them, in some order. *)
Joined(f) == FoldFunction(LAMBDA q, s : q \o s, <<>>, f)
=============================================================================
