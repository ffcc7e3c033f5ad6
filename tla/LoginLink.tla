----------------------------- MODULE LoginLink -----------------------------
(***************************************************************************)
(* The TCP links between the login-server and its char-servers, one per    *)
(* slot of ch_server[].  Both programs are single-threaded event loops     *)
(* that parse the packets of a link in the order they were sent, so a      *)
(* direction of a link is a sequence: senders append, handlers consume the *)
(* head.                                                                   *)
(***************************************************************************)
EXTENDS Integers, Sequences

CONSTANTS Accounts,     \* account ids
          CharServers,  \* the slots of ch_server[] in use
          Clients,      \* client sockets of a char-server, its request_id
          MaxId         \* bound: how many login tickets are ever issued

ASSUME ServersAssumption == CharServers \subseteq Nat
ASSUME MaxIdAssumption == MaxId \in Nat \ {0}

(* A ticket is the pair (login_id1, login_id2) drawn at random for one     *)
(* login; tickets are numbered in the order they are issued, 0 is none.    *)
Ids == 1 .. MaxId
NoId == 0

VARIABLES toLogin,    \* toLogin[s]: from char-server s to the login-server
          fromLogin   \* fromLogin[s]: from the login-server to char-server s

linkLoginVars == <<toLogin, fromLogin>>

-----------------------------------------------------------------------------
(* Packets to the login-server. *)
ReqAuth(a, id, c) == [type |-> "reqauth", account |-> a, id |-> id, fd |-> c]
SetAccOnline(a)   == [type |-> "setacconline", account |-> a]
SetAccOffline(a)  == [type |-> "setaccoffline", account |-> a]

ToLoginMsg == [type : {"reqauth"}, account : Accounts, id : Ids, fd : Clients]
              \cup [type : {"setacconline", "setaccoffline"}, account : Accounts]

(* Packets to a char-server. *)
AckAccReq(a, id, c, ok) ==
  [type |-> "ackaccreq", account |-> a, id |-> id, fd |-> c, ok |-> ok]
AskKick(a) == [type |-> "askkick", account |-> a]

FromLoginMsg ==
  [type : {"ackaccreq"}, account : Accounts, id : Ids, fd : Clients, ok : BOOLEAN]
  \cup [type : {"askkick"}, account : Accounts]

LinkLoginTypeOK == /\ toLogin \in [CharServers -> Seq(ToLoginMsg)]
                   /\ fromLogin \in [CharServers -> Seq(FromLoginMsg)]

LinkLoginInit == /\ toLogin = [s \in CharServers |-> <<>>]
                 /\ fromLogin = [s \in CharServers |-> <<>>]

(* The head of the link from s is a packet of this type, and is consumed. *)
LoginReceives(s, type) == /\ toLogin[s] # <<>>
                          /\ Head(toLogin[s]).type = type
                          /\ toLogin' = [toLogin EXCEPT ![s] = Tail(@)]
=============================================================================
