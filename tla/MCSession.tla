----------------------------- MODULE MCSession -----------------------------
EXTENDS Session, TLC
CONSTANTS a1, ch1, ch2, c1, c2
MCAccounts == {a1}
MCChars == {ch1}
TwoChars == {ch1, ch2}
TwoOwner == ch1 :> a1 @@ ch2 :> a1
TwoHome == ch1 :> 0 @@ ch2 :> 0
MCOwner == ch1 :> a1
MCHome == ch1 :> 0
MCServers == {0}
OneClient == {c1}
TwoClients == {c1, c2}
(* Bound: the kick of a player is not lost with the link.  It is not        *)
(* repeated: the char-server takes the account for gone when its timer is  *)
(* due, and the player plays on.                                           *)
KicksArrive == \A a \in Accounts : online_char_db[a] # None => ~online_char_db[a].timer

(* Bound: a second client or a second map-server, or both; or else a      *)
(* second character; or else a link that breaks.                           *)
SecondClient == \A c \in Clients : client[c].account # None
SecondChar == (\E c \in Clients : client[c].char = ch2) \/ best[ch2] > 0
SecondServer ==
  \/ \E ch \in Chars : char_db[ch].place = 1
  \/ \E a \in Accounts : pc_db[1][a] # None \/ map_auth_db[1][a] # None
  \/ \E i \in DOMAIN toChar[0] : toChar[0][i].type = "changemap"
OneThing == /\ SecondClient \/ SecondServer => ~SecondChar /\ breaks = 0
            /\ breaks > 0 => ~SecondChar /\ KicksArrive
            /\ 1 \in MapServers => 1 \in connected

ClientSymmetry == Permutations({c1, c2})
=============================================================================
