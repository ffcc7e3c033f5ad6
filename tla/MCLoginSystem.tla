--------------------------- MODULE MCLoginSystem ---------------------------
(* Two accounts, two char-servers, one client socket, two tickets. *)
EXTENDS LoginSystem, TLC

CONSTANTS a1, a2, c1

MCAccounts == {a1, a2}
MCServers == {0, 1}
MCClients == {c1}
=============================================================================
