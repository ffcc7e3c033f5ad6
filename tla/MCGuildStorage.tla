--------------------------- MODULE MCGuildStorage ---------------------------
EXTENDS GuildStorage, TLC

CONSTANTS m1, m2, i1, i2

MCMembers == {m1, m2}
MCItems == {i1, i2}
MCBound == {i2}
MCBackpack == [m \in MCMembers |-> IF m = m1 THEN {i2} ELSE {}]
MCChest == {i1}
MCEvents == {{}} \cup {{e} : e \in Rare}
MCMaxSent == [e \in MCEvents |-> IF e \in {{"script"}, {"link"}} THEN 1 ELSE 2]
(* Bound: where the link breaks, one member plays. *)
OneAtTheLink == events = {"link"} => online \subseteq {m1}
Reload == {{"levels"}}
ReloadMaxSent == [e \in Reload |-> 3]
=============================================================================
