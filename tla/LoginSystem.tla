---------------------------- MODULE LoginSystem ----------------------------
(***************************************************************************)
(* The login-server with the most general char-servers and clients: they   *)
(* send any packet at any time, present any ticket, and their links break  *)
(* and come back.  What holds here holds whatever the char-server does.    *)
(***************************************************************************)
EXTENDS LoginServer

CONSTANT MaxQueue   \* bound: packets in flight on a link, both ways; 0 is no bound

ASSUME MaxQueueAssumption == MaxQueue \in Nat

vars == <<loginVars, linkLoginVars>>

Init == LoginInit /\ LinkLoginInit

RoomOn(s) == MaxQueue = 0 \/ Len(toLogin[s]) + Len(fromLogin[s]) < MaxQueue

(* Any char-server: an event makes it take at most one packet of the       *)
(* login-server and send it at most one.                                   *)
CharServerSteps(s) ==
  /\ ch_server[s]
  /\ \/ UNCHANGED fromLogin
     \/ /\ fromLogin[s] # <<>>
        /\ fromLogin' = [fromLogin EXCEPT ![s] = Tail(@)]
  /\ \/ UNCHANGED toLogin
     \/ /\ RoomOn(s)
        /\ \E m \in ToLoginMsg : toLogin' = [toLogin EXCEPT ![s] = Append(@, m)]
  /\ UNCHANGED loginVars

Next == \/ \E a \in Accounts : \/ /\ \A s \in CharServers : RoomOn(s)
                                  /\ logclif_auth_ok(a)
                               \/ login_waiting_disconnect_timer(a)
        \/ \E s \in CharServers : \/ logclif_parse_reqcharconnec(s)
                                  \/ logchrif_parse(s)
                                  \/ logchrif_on_disconnect(s)
                                  \/ CharServerSteps(s)

Spec == Init /\ [][Next]_vars

(* A timer that runs fires in the end: do_timer in the event loop. *)
FairSpec == Spec /\ \A a \in Accounts : WF_vars(login_waiting_disconnect_timer(a))

-----------------------------------------------------------------------------
(* Types of the whole system. *)
TypeOK == LoginTypeOK /\ LinkLoginTypeOK

(* "each auth entry can only be used once" (loginchrif.cpp): whatever      *)
(* char-servers ask, and however logins, timers and losses interleave with *)
(* their questions, no ticket is accepted twice.                           *)
TicketUsedOnce == \A i \in Ids : acks[i] <= 1

(* Why: an open ticket was issued, is open for one account only, and was   *)
(* not accepted yet; no ticket to come was.                                *)
OpenTicketFresh ==
  /\ \A a \in Accounts : login_auth_db[a] # NoId =>
       /\ login_auth_db[a] < next_id
       /\ acks[login_auth_db[a]] = 0
  /\ \A a, b \in Accounts : login_auth_db[a] = login_auth_db[b] /\ a # b
                              => login_auth_db[a] = NoId
  /\ \A i \in Ids : i >= next_id => acks[i] = 0

(* Deadlines and entries of online_db belong together: an account between  *)
(* login and char-server is always on a deadline, so that it cannot stay    *)
(* half logged in for ever, and no deadline outlives its entry.             *)
HalfLoggedInExpires ==
  \A a \in Accounts : /\ login_online_db[a] = AtLogin => login_timer[a]
                      /\ login_timer[a] => login_online_db[a] # Absent

(* A refused login is not refused for ever: the entry that stands in its   *)
(* way is dropped at its deadline, unless a char-server answers for the    *)
(* account or it is dropped before.                                        *)
RefusalExpires ==
  \A a \in Accounts : (login_online_db[a] \in CharServers /\ login_timer[a])
                        ~> ~login_timer[a]

(* The login-server implements the abstract ticket office. *)
Office == INSTANCE TicketOffice WITH
            issued <- next_id - 1,
            open <- {<<a, login_auth_db[a]>> :
                       a \in {b \in Accounts : login_auth_db[b] # NoId}},
            used <- acks

ImplementsOffice == Office!Spec

(* "Set all chars from this char server to offline." (loginchrif.cpp:848): *)
(* nobody is online at a char-server that is disconnected.                 *)
OfflineServerHasNobody ==
  \A s \in CharServers : ~ch_server[s] =>
    \A a \in Accounts : login_online_db[a] # s
=============================================================================
