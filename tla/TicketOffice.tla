---------------------------- MODULE TicketOffice ----------------------------
(***************************************************************************)
(* What the login-server promises about login tickets, and nothing else:   *)
(* an account has at most one open ticket, a new login voids the old one,  *)
(* and a ticket lets its own account in at most once.                      *)
(***************************************************************************)
EXTENDS Integers

CONSTANTS Accounts, MaxId

VARIABLES issued,   \* how many tickets were ever issued
          open,     \* the open tickets, as <<account, ticket>>
          used      \* how often a ticket let somebody in

officeVars == <<issued, open, used>>

OfficeTypeOK == /\ issued \in 0 .. MaxId
                /\ open \subseteq Accounts \X (1 .. MaxId)
                /\ used \in [1 .. MaxId -> Nat]

Init == /\ issued = 0
        /\ open = {}
        /\ used = [i \in 1 .. MaxId |-> 0]

Issue(a) == /\ issued < MaxId
            /\ issued' = issued + 1
            /\ open' = {p \in open : p[1] # a} \cup {<<a, issued + 1>>}
            /\ UNCHANGED used

Redeem(a, i) == /\ <<a, i>> \in open
                /\ open' = open \ {<<a, i>>}
                /\ used' = [used EXCEPT ![i] = @ + 1]
                /\ UNCHANGED issued

Void(a, i) == /\ <<a, i>> \in open
              /\ open' = open \ {<<a, i>>}
              /\ UNCHANGED <<issued, used>>

Next == \E a \in Accounts : \/ Issue(a)
                            \/ \E i \in 1 .. MaxId : Redeem(a, i) \/ Void(a, i)

Spec == Init /\ [][Next]_officeVars
=============================================================================
