---------------------------- MODULE LoginServer ----------------------------
(***************************************************************************)
(* The login-server's table of who is logged in.  A client that presents a *)
(* good password gets a ticket (auth_db) that a char-server redeems once;  *)
(* online_db remembers where the account is, so that a second login is     *)
(* refused while the first still plays; a timer per entry throws away      *)
(* tickets nobody redeems and entries whose char-server does not answer.   *)
(***************************************************************************)
EXTENDS LoginLink

VARIABLES login_auth_db,    \* the open ticket of an account, or NoId
          login_online_db,  \* where the account is online
          login_timer,      \* waiting_disconnect is a running timer
          next_id,          \* the next ticket to issue
          acks,             \* history: how often a ticket was accepted
          ch_server         \* the link to char-server s is up

loginVars == <<login_auth_db, login_online_db, login_timer, next_id, acks,
               ch_server>>

(* Values of online_login_data.char_server besides a char-server's slot.   *)
AtLogin == -1   \* authenticated, has not reached a char-server yet
Unknown == -2   \* its char-server is gone
Absent  == -3   \* no entry in online_db

Places == CharServers \cup {AtLogin, Unknown, Absent}

LoginTypeOK ==
  /\ login_auth_db \in [Accounts -> Ids \cup {NoId}]
  /\ login_online_db \in [Accounts -> Places]
  /\ login_timer \in [Accounts -> BOOLEAN]
  /\ next_id \in 1 .. MaxId + 1
  /\ acks \in [Ids -> Nat]
  /\ ch_server \in [CharServers -> BOOLEAN]

LoginInit ==
  /\ login_auth_db = [a \in Accounts |-> NoId]
  /\ login_online_db = [a \in Accounts |-> Absent]
  /\ login_timer = [a \in Accounts |-> FALSE]
  /\ next_id = 1
  /\ acks = [i \in Ids |-> 0]
  /\ ch_server = [s \in CharServers |-> TRUE]

-----------------------------------------------------------------------------
(* Online table, login.cpp. *)

(* Mutant: stores the slot behind the right one. *)
off_by_one_slot(a, s) ==
  /\ login_online_db' = [login_online_db EXCEPT ![a] = s + 1]
  /\ login_timer' = [login_timer EXCEPT ![a] = FALSE]

login_add_online_user(a, s) ==
  /\ login_online_db' = [login_online_db EXCEPT ![a] = s]
  /\ login_timer' = [login_timer EXCEPT ![a] = FALSE]

(* Mutant: forgets to delete the timer. *)
timer_left_running(a) ==
  /\ login_online_db' = [login_online_db EXCEPT ![a] = Absent]
  /\ UNCHANGED login_timer

(* Mutant: finds no entry to erase. *)
entry_kept(a) == UNCHANGED <<login_online_db, login_timer>>

login_remove_online_user(a) ==
  /\ login_online_db' = [login_online_db EXCEPT ![a] = Absent]
  /\ login_timer' = [login_timer EXCEPT ![a] = FALSE]

(* Mutant: does not overwrite an open ticket. *)
first_ticket_kept(a, i) ==
  login_auth_db' = [login_auth_db EXCEPT ![a] = IF @ = NoId THEN i ELSE @]

(* The open ticket of an account: a new one replaces the old one. *)
login_add_auth_node(a, i) == login_auth_db' = [login_auth_db EXCEPT ![a] = i]

(* Mutant: does not erase the ticket. *)
ticket_kept(a) == UNCHANGED login_auth_db

login_remove_auth_node(a) == login_auth_db' = [login_auth_db EXCEPT ![a] = NoId]

(* The timer of an entry runs out: the account is forgotten with its       *)
(* ticket.  A timer that was deleted does not fire.                        *)
login_waiting_disconnect_timer(a) ==
  /\ login_timer[a]
  /\ login_remove_online_user(a)
  /\ login_remove_auth_node(a)
  /\ UNCHANGED <<next_id, acks, ch_server, linkLoginVars>>

(* login_online_db_setoffline walks online_db by value: what it assigns is *)
(* a copy of each entry, the table keeps its entries.                      *)
login_online_db_setoffline(s) == UNCHANGED <<login_online_db, login_timer>>

-----------------------------------------------------------------------------
(* Clients, loginclif.cpp: the end of a login with a good password. *)

SomeCharServer == \E s \in CharServers : ch_server[s]

(* The account is at a char-server: every char-server is told to kick it,  *)
(* the entry gets a deadline, the client is refused.                       *)
AuthRefused(a) ==
  /\ SomeCharServer
  /\ login_online_db[a] \in CharServers
  /\ fromLogin' = [s \in CharServers |-> IF ch_server[s]
                                           THEN Append(fromLogin[s], AskKick(a))
                                           ELSE fromLogin[s]]
  /\ login_timer' = [login_timer EXCEPT ![a] = TRUE]
  /\ UNCHANGED <<login_auth_db, login_online_db, next_id, acks, ch_server, toLogin>>

(* Otherwise a fresh ticket replaces the account's old one, and the entry  *)
(* is scheduled for deletion.                                              *)
AuthAccepted(a) ==
  /\ SomeCharServer
  /\ login_online_db[a] \notin CharServers
  /\ next_id \in Ids
  /\ next_id' = next_id + 1
  /\ login_add_auth_node(a, next_id)
  /\ login_online_db' = [login_online_db EXCEPT ![a] = AtLogin]
  /\ login_timer' = [login_timer EXCEPT ![a] = TRUE]
  /\ UNCHANGED <<acks, ch_server, linkLoginVars>>

logclif_auth_ok(a) == AuthRefused(a) \/ AuthAccepted(a)

(* A char-server logs in on a free slot. *)
logclif_parse_reqcharconnec(s) ==
  /\ ~ch_server[s]
  /\ ch_server' = [ch_server EXCEPT ![s] = TRUE]
  /\ UNCHANGED <<login_auth_db, login_online_db, login_timer, next_id, acks,
                 linkLoginVars>>

-----------------------------------------------------------------------------
(* Packets of char-server s, loginchrif.cpp. *)

TicketMatches(m) == login_auth_db[m.account] = m.id

logchrif_parse_reqauth(s) ==
  LET m == Head(toLogin[s]) IN
  /\ LoginReceives(s, "reqauth")
  /\ fromLogin' = [fromLogin EXCEPT ![s] =
                     Append(@, AckAccReq(m.account, m.id, m.fd, TicketMatches(m)))]
  /\ IF TicketMatches(m)
       THEN /\ login_remove_auth_node(m.account)
            /\ acks' = [acks EXCEPT ![m.id] = @ + 1]
       ELSE UNCHANGED <<login_auth_db, acks>>
  /\ UNCHANGED <<login_online_db, login_timer, next_id, ch_server>>

logchrif_parse_setacconline(s) ==
  /\ LoginReceives(s, "setacconline")
  /\ login_add_online_user(Head(toLogin[s]).account, s)
  /\ UNCHANGED <<login_auth_db, next_id, acks, ch_server, fromLogin>>

logchrif_parse_setaccoffline(s) ==
  /\ LoginReceives(s, "setaccoffline")
  /\ login_remove_online_user(Head(toLogin[s]).account)
  /\ UNCHANGED <<login_auth_db, next_id, acks, ch_server, fromLogin>>

(* The link to s breaks; what was in flight is lost. *)
logchrif_on_disconnect(s) ==
  /\ ch_server[s]
  /\ ch_server' = [ch_server EXCEPT ![s] = FALSE]
  /\ toLogin' = [toLogin EXCEPT ![s] = <<>>]
  /\ fromLogin' = [fromLogin EXCEPT ![s] = <<>>]
  /\ login_online_db_setoffline(s)
  /\ UNCHANGED <<login_auth_db, next_id, acks>>

logchrif_parse(s) == \/ logchrif_parse_reqauth(s)
                     \/ logchrif_parse_setacconline(s)
                     \/ logchrif_parse_setaccoffline(s)
=============================================================================
