------------------------------ MODULE MCTrade ------------------------------
(* Three players; two of them with an arrow, one with a sword, one with     *)
(* money, one with another arrow in its cart.  A sword and arrows fill the  *)
(* two slots of a backpack, and two arrows are the highest stack.           *)
EXTENDS Trade, TLC
CONSTANTS p1, p2, p3, arrow, sword
Trio == {p1, p2, p3}
MCKinds == {arrow, sword}
Names == [k \in Kinds |-> k]
MCStackable == Kinds \ {sword}
MCWeight == [k \in Kinds |-> IF k = sword THEN 2 ELSE 1]
One(k) == [kind |-> k, amount |-> 1]
MCBackpack == [p \in Players |-> CASE p = p1 -> <<One(arrow), One(sword)>>
                                   [] p = p2 -> <<One(arrow), Nothing>>
                                   [] OTHER -> <<Nothing, Nothing>>]
MCCart == [p \in Players |-> [k \in Kinds |-> IF k = arrow /\ p = p2 THEN 1 ELSE 0]]
MCPurse == [p \in Players |-> IF p = p1 THEN 1 ELSE 0]
=============================================================================
