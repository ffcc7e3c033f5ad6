---------------------------- MODULE StorageLease ----------------------------
(***************************************************************************)
(* What the guild storage promises its members: one of them uses it at a   *)
(* time; only the user moves items, between the storage and itself; every  *)
(* item is in one place.  What is moved is safe when the user has left: a  *)
(* crash brings back a moment at which all places were saved together.     *)
(***************************************************************************)
CONSTANTS Members, Items,
          Chest      \* the place of what is stored, which is no member

VARIABLES user,   \* who uses the storage: a set with at most one member
          place,  \* place[i]: who carries the item, or the chest
          saved   \* the places a crash brings back

vars == <<user, place, saved>>
Places == [Items -> Members \cup {Chest}]

Init == user = {} /\ place \in Places /\ saved = place

Enter(m) == user = {} /\ user' = {m} /\ UNCHANGED <<place, saved>>

Move(m, i) ==
  /\ user = {m}
  /\ \/ place[i] = m /\ place' = [place EXCEPT ![i] = Chest]
     \/ place[i] = Chest /\ place' = [place EXCEPT ![i] = m]
  /\ UNCHANGED <<user, saved>>

Save == saved' = place /\ UNCHANGED <<user, place>>

Depart(m) == user = {m} /\ user' = {} /\ saved' = place /\ UNCHANGED place

Crash == user' = {} /\ place' = saved /\ UNCHANGED saved

Next == \/ \E m \in Members : Enter(m) \/ Depart(m) \/ \E i \in Items : Move(m, i)
        \/ Save \/ Crash

Spec == Init /\ [][Next]_vars
=============================================================================
