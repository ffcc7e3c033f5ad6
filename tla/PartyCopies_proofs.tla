------------------------- MODULE PartyCopies_proofs -------------------------
(***************************************************************************)
(* What the map-servers and the char-server know of a party, for any       *)
(* number of characters and map-servers, whatever players ask and however  *)
(* long the messages are under way.                                        *)
(***************************************************************************)
EXTENDS Party_proofs

-----------------------------------------------------------------------------
(* What the map-servers are told is right in the end: a message that says  *)
(* something wrong (B) is followed by one that puts it right (G), and one  *)
(* is under way to a map-server whose copy is wrong.                       *)
Says(q, G) == \E g \in DOMAIN q : q[g] \in G
Calm(q, B, G) == \A b \in DOMAIN q : q[b] \in B => \E g \in DOMAIN q : g > b /\ q[g] \in G

LEMMA SaysMore ==
  ASSUME NEW T, NEW q \in Seq(T), NEW n \in Seq(T), NEW G
  PROVE  /\ Says(q, G) => Says(q \o n, G)
         /\ Says(n, G) => Says(q \o n, G)
  <1>1. n \in Seq(T)
    OBVIOUS
  <1>2. /\ DOMAIN q \subseteq DOMAIN (q \o n)
        /\ \A i \in DOMAIN q : (q \o n)[i] = q[i]
        /\ \A j \in DOMAIN n : Len(q) + j \in DOMAIN (q \o n) /\ (q \o n)[Len(q) + j] = n[j]
    BY Added2
  <1> QED BY <1>2 DEF Says

LEMMA CalmMore ==
  ASSUME NEW T, NEW q \in Seq(T), NEW n \in Seq(T), NEW B, NEW G, Calm(n, B, G),
         Calm(q, B, G) \/ Says(n, G)
  PROVE  Calm(q \o n, B, G)
  <1> DEFINE u == q \o n
  <1>1. /\ DOMAIN q \subseteq DOMAIN u
        /\ \A i \in DOMAIN q : u[i] = q[i]
        /\ \A j \in DOMAIN n : Len(q) + j \in DOMAIN u /\ u[Len(q) + j] = n[j]
        /\ \A i \in DOMAIN u : i \in DOMAIN q \/ (i - Len(q) \in DOMAIN n /\ u[i] = n[i - Len(q)])
    BY Added2
  <1>2. /\ Len(q) \in Nat /\ DOMAIN q = 1 .. Len(q) /\ DOMAIN n = 1 .. Len(n) /\ Len(n) \in Nat
        /\ DOMAIN u = 1 .. Len(q) + Len(n)
    BY LenProperties, ConcatProperties
  <1> HIDE DEF u
  <1> SUFFICES ASSUME NEW b \in DOMAIN u, u[b] \in B
               PROVE  \E g \in DOMAIN u : g > b /\ u[g] \in G
    BY DEF Calm, u
  <1>3. CASE b \in DOMAIN q
    <2>1. CASE Says(n, G)
      <3>1. PICK j \in DOMAIN n : n[j] \in G
        BY <2>1 DEF Says
      <3>2. Len(q) + j \in DOMAIN u /\ u[Len(q) + j] \in G
        BY <1>1, <3>1
      <3>3. Len(q) + j > b
        BY <1>2, <1>3
      <3> QED BY <3>2, <3>3
    <2>2. CASE Calm(q, B, G)
      <3>1. q[b] \in B
        BY <1>1, <1>3
      <3>2. PICK g \in DOMAIN q : g > b /\ q[g] \in G
        BY <1>3, <2>2, <3>1 DEF Calm
      <3>3. g \in DOMAIN u /\ u[g] \in G
        BY <1>1, <3>2
      <3> QED BY <3>2, <3>3
    <2> QED BY <2>1, <2>2
  <1>4. CASE b - Len(q) \in DOMAIN n /\ u[b] = n[b - Len(q)]
    <2>1. n[b - Len(q)] \in B
      BY <1>4
    <2>2. PICK g \in DOMAIN n : g > b - Len(q) /\ n[g] \in G
      BY <1>4, <2>1 DEF Calm
    <2>3. Len(q) + g \in DOMAIN u /\ u[Len(q) + g] \in G
      BY <1>1, <2>2
    <2>4. Len(q) + g > b
      BY <1>2, <2>2
    <2> QED BY <2>3, <2>4
  <1> QED BY <1>1, <1>3, <1>4

LEMMA CalmTail ==
  ASSUME NEW T, NEW q \in Seq(T), q # <<>>, NEW B, NEW G, Calm(q, B, G)
  PROVE  /\ Calm(Tail(q), B, G)
         /\ Head(q) \in B => Says(Tail(q), G)
         /\ Says(q, G) /\ Head(q) \notin G => Says(Tail(q), G)
  <1>1. /\ 1 \in DOMAIN q /\ Head(q) = q[1]
        /\ \A i \in DOMAIN q : i > 1 => i - 1 \in DOMAIN Tail(q) /\ Tail(q)[i - 1] = q[i]
        /\ \A i \in DOMAIN Tail(q) : i + 1 \in DOMAIN q /\ Tail(q)[i] = q[i + 1]
    BY Taken
  <1>2. (\A i \in DOMAIN q : i \in Nat /\ i >= 1) /\ \A i \in DOMAIN Tail(q) : i \in Nat /\ i >= 1
    BY EmptySeq, HeadTailProperties, LenProperties
  <1>3. Calm(Tail(q), B, G)
    <2> SUFFICES ASSUME NEW b \in DOMAIN Tail(q), Tail(q)[b] \in B
                 PROVE  \E g \in DOMAIN Tail(q) : g > b /\ Tail(q)[g] \in G
      BY DEF Calm
    <2>1. b + 1 \in DOMAIN q /\ q[b + 1] \in B
      BY <1>1
    <2>2. PICK g \in DOMAIN q : g > b + 1 /\ q[g] \in G
      BY <2>1 DEF Calm
    <2>3. g > 1 /\ g - 1 > b
      BY <1>2, <2>2
    <2>4. g - 1 \in DOMAIN Tail(q) /\ Tail(q)[g - 1] = q[g]
      BY <1>1, <2>3
    <2> QED BY <2>2, <2>3, <2>4
  <1>4. ASSUME Head(q) \in B PROVE Says(Tail(q), G)
    <2>1. PICK g \in DOMAIN q : g > 1 /\ q[g] \in G
      BY <1>1, <1>4 DEF Calm
    <2>2. g - 1 \in DOMAIN Tail(q) /\ Tail(q)[g - 1] = q[g]
      BY <1>1, <2>1
    <2> QED BY <2>1, <2>2 DEF Says
  <1>5. ASSUME Says(q, G), Head(q) \notin G PROVE Says(Tail(q), G)
    <2>1. PICK g \in DOMAIN q : q[g] \in G
      BY <1>5 DEF Says
    <2>2. g > 1
      BY <1>1, <1>2, <1>5, <2>1
    <2>3. g - 1 \in DOMAIN Tail(q) /\ Tail(q)[g - 1] = q[g]
      BY <1>1, <2>1, <2>2
    <2> QED BY <2>1, <2>3 DEF Says
  <1> QED BY <1>3, <1>4, <1>5

LEMMA NoneSays ==
  ASSUME NEW B, NEW G
  PROVE  Calm(<<>>, B, G) /\ \A q : (\A i \in DOMAIN q : q[i] \notin B) => Calm(q, B, G)
  BY DEF Calm

-----------------------------------------------------------------------------
(* What a message says of party p, and what it is to be believed.          *)
InfosOf(p)    == {m \in ToMapMsg : m.kind = "info" /\ m.party = p}
EndsOf(p)     == {m \in ToMapMsg : m.kind \in {"noinfo", "broken"} /\ m.party = p}
OptionsOf(p)  == {m \in ToMapMsg : m.kind = "option" /\ m.party = p /\ ~m.denied}
OutsOf(p, c)  == {m \in ToMapMsg : m.kind = "withdraw" /\ m.party = p /\ m.who = c}
MovedOf(p, c) == {m \in ToMapMsg : m.kind = "moved" /\ m.party = p /\ m.who = c}
Lists(p, c) == {m \in InfosOf(p) : c \in DOMAIN m.member}
Skips(p, c) == {m \in InfosOf(p) : c \notin DOMAIN m.member} \cup OutsOf(p, c)
Right(p, x) == {m \in InfosOf(p) \cup OptionsOf(p) : m.exp = x}
Wrong(p, x) == {m \in InfosOf(p) \cup OptionsOf(p) : m.exp # x}
Shows(p, c, x) == {m \in Lists(p, c) : m.member[c].online = x}
                  \cup {m \in MovedOf(p, c) : m.online = x}
Hides(p, c, x) == {m \in Lists(p, c) : m.member[c].online # x}
                  \cup {m \in MovedOf(p, c) : m.online # x}

(* m is true of Q, but maybe for the sharing of experience.                *)
Honest(m, p, Q) ==
  /\ m \in InfosOf(p) => Q # None /\ m.member = Q.member
  /\ \A c \in Chars : m \in OutsOf(p, c) => c \notin Members(Q)
  /\ \A c \in Chars : m \in MovedOf(p, c) => /\ c \in Members(Q)
                                             /\ m.online = Q.member[c].online

(* n tells that party p was P and is Q. *)
Announced(P, Q, n, p) ==
  /\ Q = None => Says(n, EndsOf(p))
  /\ Q # None =>
       /\ DOMAIN Q.member # DOMAIN P.member => Says(n, InfosOf(p))
       /\ \A c \in DOMAIN P.member \cap DOMAIN Q.member :
            P.member[c].online # Q.member[c].online => Says(n, InfosOf(p) \cup MovedOf(p, c))
       /\ Sound(P) => /\ Calm(n, Wrong(p, Q.exp), Right(p, Q.exp))
                      /\ P.exp # Q.exp => Says(n, Right(p, Q.exp))

(* A copy C that becomes D: it hears m, or nothing.                        *)
SameCopy(C, D) ==
  /\ C = None <=> D = None
  /\ C # None => /\ D.exp = C.exp /\ DOMAIN D.member = DOMAIN C.member
                 /\ \A c \in DOMAIN C.member : D.member[c].online = C.member[c].online

Heeds(C, D, m, p) ==
  /\ m \in InfosOf(p) => D # None /\ D.exp = m.exp /\ D.member = m.member
  /\ m \in EndsOf(p) => D = None
  /\ m \notin InfosOf(p) \cup EndsOf(p) =>
       /\ C = None <=> D = None
       /\ C # None =>
            /\ D.exp = IF m \in OptionsOf(p) THEN m.exp ELSE C.exp
            /\ \A c \in Chars : c \in DOMAIN D.member
                                <=> c \in DOMAIN C.member /\ m \notin OutsOf(p, c)
            /\ \A c \in DOMAIN C.member \cap DOMAIN D.member :
                 D.member[c].online = IF m \in MovedOf(p, c) THEN m.online ELSE C.member[c].online

(* What one step does to party p: it is P and becomes Q on the char-server; *)
(* a map-server has copy C of it and D afterwards, and its link q becomes r. *)
Told2(C, q, P, D, r, Q, p) ==
  /\ SameCopy(C, D)
  /\ P = None => Q = None
  /\ \E n \in Seq(ToMapMsg) : /\ r = q \o n
                              /\ \A i \in DOMAIN n : Honest(n[i], p, Q)
                              /\ P # None => Announced(P, Q, n, p)

Founded2(C, P, D, r, Q, p) ==
  /\ P = None /\ C = None /\ D = None
  /\ \A i \in DOMAIN r : Honest(r[i], p, Q) /\ r[i] \notin Wrong(p, Q.exp)

Heard2(C, q, P, D, r, Q, p) ==
  /\ q # <<>> /\ r = Tail(q) /\ Q = P /\ Heeds(C, D, Head(q), p)

Turn(C, q, P, D, r, Q, p) ==
  \/ Told2(C, q, P, D, r, Q, p)
  \/ Founded2(C, P, D, r, Q, p)
  \/ Heard2(C, q, P, D, r, Q, p)
  \/ D = None /\ r = <<>> /\ Q = P

(* The copy agrees with the party, or will: whether it is there, who the   *)
(* members are, who of them is in the game, and the sharing.               *)
AgreeThere(C, q, P, p) == P = None =>
  /\ C # None => Says(q, EndsOf(p))
  /\ Calm(q, InfosOf(p), EndsOf(p))

AgreeIn(C, q, P, p, c) == c \in Members(P) =>
  /\ C # None /\ c \notin DOMAIN C.member => Says(q, Lists(p, c) \cup EndsOf(p))
  /\ Calm(q, Skips(p, c), Lists(p, c) \cup EndsOf(p))

AgreeOut(C, q, P, p, c) == c \notin Members(P) =>
  /\ C # None /\ c \in DOMAIN C.member => Says(q, Skips(p, c) \cup EndsOf(p))
  /\ Calm(q, Lists(p, c), Skips(p, c) \cup EndsOf(p))

AgreeExp(C, q, P, p) == P # None =>
  /\ C # None /\ C.exp # P.exp => Says(q, Right(p, P.exp) \cup EndsOf(p))
  /\ Calm(q, Wrong(p, P.exp), Right(p, P.exp) \cup EndsOf(p))

AgreeOnline(C, q, P, p, c) == c \in Members(P) =>
  LET x == P.member[c].online
      G == Shows(p, c, x) \cup Skips(p, c) \cup EndsOf(p)
  IN  /\ C # None /\ c \in DOMAIN C.member /\ C.member[c].online # x => Says(q, G)
      /\ Calm(q, Hides(p, c, x), G)

LEMMA SaysWider ==
  ASSUME NEW A, NEW B, A \subseteq B, NEW q, Says(q, A)
  PROVE  Says(q, B)
  BY DEF Says

LEMMA CalmWider ==
  ASSUME NEW A, NEW B, A \subseteq B, NEW W, NEW q, Calm(q, W, A)
  PROVE  Calm(q, W, B)
  BY DEF Calm

LEMMA ThereKept ==
  ASSUME NEW C, NEW q \in Seq(ToMapMsg), NEW P, NEW D, NEW r, NEW Q, NEW p,
         Turn(C, q, P, D, r, Q, p), AgreeThere(C, q, P, p)
  PROVE  AgreeThere(D, r, Q, p)
  <1> DEFINE G == EndsOf(p)
             B == InfosOf(p)
  <1> SUFFICES ASSUME Q = None
               PROVE  (D # None => Says(r, G)) /\ Calm(r, B, G)
    BY DEF AgreeThere
  <1>1. CASE Told2(C, q, P, D, r, Q, p)
    <2>1. PICK n \in Seq(ToMapMsg) : /\ r = q \o n
                                     /\ \A i \in DOMAIN n : Honest(n[i], p, Q)
                                     /\ P # None => Announced(P, Q, n, p)
      BY <1>1 DEF Told2
    <2>2. Calm(n, B, G)
      <3>1. \A i \in DOMAIN n : n[i] \notin B
        BY <2>1 DEF Honest
      <3> QED BY <3>1, NoneSays
    <2>3. P # None => Says(n, G)
      BY <2>1 DEF Announced
    <2>4. P = None => (C # None => Says(q, G)) /\ Calm(q, B, G)
      BY DEF AgreeThere
    <2> HIDE DEF G, B
    <2>5. Calm(q, B, G) \/ Says(n, G)
      BY <2>3, <2>4
    <2>6. Calm(q \o n, B, G)
      BY <2>2, <2>5, CalmMore
    <2>7. D # None => Says(q \o n, G)
      BY <1>1, <2>3, <2>4, SaysMore DEF Told2, SameCopy
    <2> QED BY <2>1, <2>6, <2>7
  <1>2. CASE Founded2(C, P, D, r, Q, p)
    <2>1. \A i \in DOMAIN r : r[i] \notin B
      BY <1>2 DEF Founded2, Honest
    <2> HIDE DEF B, G
    <2> QED BY <1>2, <2>1, NoneSays DEF Founded2
  <1>3. CASE Heard2(C, q, P, D, r, Q, p)
    <2>1. q # <<>> /\ r = Tail(q) /\ (C # None => Says(q, G)) /\ Calm(q, B, G)
          /\ Heeds(C, D, Head(q), p)
      BY <1>3 DEF Heard2, AgreeThere
    <2>2. D # None => Head(q) \in B \/ (C # None /\ Head(q) \notin G)
      BY <2>1 DEF Heeds
    <2> HIDE DEF B, G
    <2>3. /\ Calm(Tail(q), B, G)
          /\ Head(q) \in B => Says(Tail(q), G)
          /\ Says(q, G) /\ Head(q) \notin G => Says(Tail(q), G)
      BY <2>1, CalmTail
    <2> QED BY <2>1, <2>2, <2>3
  <1>4. CASE D = None /\ r = <<>>
    <2> HIDE DEF B, G
    <2> QED BY <1>4, NoneSays
  <1> QED BY <1>1, <1>2, <1>3, <1>4 DEF Turn

LEMMA InKept ==
  ASSUME NEW C \in Copies \cup {None}, NEW q \in Seq(ToMapMsg), NEW P, NEW D, NEW r, NEW Q, NEW p,
         NEW c \in Chars, Turn(C, q, P, D, r, Q, p), AgreeIn(C, q, P, p, c)
  PROVE  AgreeIn(D, r, Q, p, c)
  <1> DEFINE G == Lists(p, c) \cup EndsOf(p)
             B == Skips(p, c)
             bad(X) == X # None /\ c \notin DOMAIN X.member
  <1> SUFFICES ASSUME c \in Members(Q)
               PROVE  (bad(D) => Says(r, G)) /\ Calm(r, B, G)
    BY DEF AgreeIn
  <1>0. c \in Members(P) => (bad(C) => Says(q, G)) /\ Calm(q, B, G)
    BY DEF AgreeIn
  <1>1. CASE Told2(C, q, P, D, r, Q, p)
    <2>1. PICK n \in Seq(ToMapMsg) : /\ r = q \o n
                                     /\ \A i \in DOMAIN n : Honest(n[i], p, Q)
                                     /\ P # None => Announced(P, Q, n, p)
      BY <1>1 DEF Told2
    <2>2. Calm(n, B, G)
      <3>1. \A i \in DOMAIN n : n[i] \notin B
        BY <2>1 DEF Honest, Skips, Members
      <3> QED BY <3>1, NoneSays
    <2>3. c \notin Members(P) => Says(n, G)
      <3> SUFFICES ASSUME c \notin Members(P) PROVE Says(n, G)
        OBVIOUS
      <3>1. P # None /\ Q # None /\ DOMAIN Q.member # DOMAIN P.member
        BY <1>1 DEF Told2, Members
      <3>2. PICK g \in DOMAIN n : n[g] \in InfosOf(p)
        BY <2>1, <3>1 DEF Announced, Says
      <3>3. n[g] \in Lists(p, c)
        BY <2>1, <3>2, <3>1 DEF Honest, Lists, Members
      <3> QED BY <3>3 DEF Says
    <2>4. bad(D) => bad(C)
      BY <1>1 DEF Told2, SameCopy
    <2> HIDE DEF G, B, bad
    <2>5. Calm(q, B, G) \/ Says(n, G)
      BY <1>0, <2>3
    <2>6. Calm(q \o n, B, G)
      BY <2>2, <2>5, CalmMore
    <2>7. bad(D) => Says(q \o n, G)
      BY <1>0, <2>3, <2>4, SaysMore
    <2> QED BY <2>1, <2>6, <2>7
  <1>2. CASE Founded2(C, P, D, r, Q, p)
    <2>1. \A i \in DOMAIN r : r[i] \notin B
      BY <1>2 DEF Founded2, Honest, Skips, Members
    <2>2. ~bad(D)
      BY <1>2 DEF Founded2
    <2> HIDE DEF B, G, bad
    <2> QED BY <2>1, <2>2, NoneSays
  <1>3. CASE Heard2(C, q, P, D, r, Q, p)
    <2>1. q # <<>> /\ r = Tail(q) /\ (bad(C) => Says(q, G)) /\ Calm(q, B, G)
          /\ Heeds(C, D, Head(q), p)
      BY <1>0, <1>3 DEF Heard2
    <2>2. bad(D) => Head(q) \in B \/ (bad(C) /\ Head(q) \notin G)
      BY <2>1 DEF Heeds, Skips, Lists
    <2> HIDE DEF B, G, bad
    <2>3. /\ Calm(Tail(q), B, G)
          /\ Head(q) \in B => Says(Tail(q), G)
          /\ Says(q, G) /\ Head(q) \notin G => Says(Tail(q), G)
      BY <2>1, CalmTail
    <2> QED BY <2>1, <2>2, <2>3
  <1>4. CASE D = None /\ r = <<>>
    <2>1. ~bad(D)
      BY <1>4
    <2> HIDE DEF B, G, bad
    <2> QED BY <1>4, <2>1, NoneSays
  <1> QED BY <1>1, <1>2, <1>3, <1>4 DEF Turn

LEMMA OutKept ==
  ASSUME NEW C \in Copies \cup {None}, NEW q \in Seq(ToMapMsg), NEW P, NEW D, NEW r, NEW Q, NEW p,
         NEW c \in Chars, Turn(C, q, P, D, r, Q, p), AgreeOut(C, q, P, p, c)
  PROVE  AgreeOut(D, r, Q, p, c)
  <1> DEFINE G == Skips(p, c) \cup EndsOf(p)
             B == Lists(p, c)
             bad(X) == X # None /\ c \in DOMAIN X.member
  <1> SUFFICES ASSUME c \notin Members(Q)
               PROVE  (bad(D) => Says(r, G)) /\ Calm(r, B, G)
    BY DEF AgreeOut
  <1>0. c \notin Members(P) => (bad(C) => Says(q, G)) /\ Calm(q, B, G)
    BY DEF AgreeOut
  <1>1. CASE Told2(C, q, P, D, r, Q, p)
    <2>1. PICK n \in Seq(ToMapMsg) : /\ r = q \o n
                                     /\ \A i \in DOMAIN n : Honest(n[i], p, Q)
                                     /\ P # None => Announced(P, Q, n, p)
      BY <1>1 DEF Told2
    <2>2. Calm(n, B, G)
      <3>1. \A i \in DOMAIN n : n[i] \notin B
        BY <2>1 DEF Honest, Lists, Members
      <3> QED BY <3>1, NoneSays
    <2>3. c \in Members(P) => Says(n, G)
      <3> SUFFICES ASSUME c \in Members(P) PROVE Says(n, G)
        OBVIOUS
      <3>1. CASE Q = None
        BY <2>1, <3>1 DEF Announced, Says, Members
      <3>2. CASE Q # None
        <4>1. P # None /\ DOMAIN Q.member # DOMAIN P.member
          BY <3>2 DEF Members
        <4>2. PICK g \in DOMAIN n : n[g] \in InfosOf(p)
          BY <2>1, <3>2, <4>1 DEF Announced, Says
        <4>3. n[g] \in Skips(p, c)
          BY <2>1, <4>2, <3>2 DEF Honest, Skips, Members
        <4> QED BY <4>3 DEF Says
      <3> QED BY <3>1, <3>2
    <2>4. bad(D) => bad(C)
      BY <1>1 DEF Told2, SameCopy
    <2> HIDE DEF G, B, bad
    <2>5. Calm(q, B, G) \/ Says(n, G)
      BY <1>0, <2>3
    <2>6. Calm(q \o n, B, G)
      BY <2>2, <2>5, CalmMore
    <2>7. bad(D) => Says(q \o n, G)
      BY <1>0, <2>3, <2>4, SaysMore
    <2> QED BY <2>1, <2>6, <2>7
  <1>2. CASE Founded2(C, P, D, r, Q, p)
    <2>1. \A i \in DOMAIN r : r[i] \notin B
      BY <1>2 DEF Founded2, Honest, Lists, Members
    <2>2. ~bad(D)
      BY <1>2 DEF Founded2
    <2> HIDE DEF B, G, bad
    <2> QED BY <2>1, <2>2, NoneSays
  <1>3. CASE Heard2(C, q, P, D, r, Q, p)
    <2>1. q # <<>> /\ r = Tail(q) /\ (bad(C) => Says(q, G)) /\ Calm(q, B, G)
          /\ Heeds(C, D, Head(q), p)
      BY <1>0, <1>3 DEF Heard2
    <2>2. bad(D) => Head(q) \in B \/ (bad(C) /\ Head(q) \notin G)
      BY <2>1 DEF Heeds, Skips, Lists
    <2> HIDE DEF B, G, bad
    <2>3. /\ Calm(Tail(q), B, G)
          /\ Head(q) \in B => Says(Tail(q), G)
          /\ Says(q, G) /\ Head(q) \notin G => Says(Tail(q), G)
      BY <2>1, CalmTail
    <2> QED BY <2>1, <2>2, <2>3
  <1>4. CASE D = None /\ r = <<>>
    <2>1. ~bad(D)
      BY <1>4
    <2> HIDE DEF B, G, bad
    <2> QED BY <1>4, <2>1, NoneSays
  <1> QED BY <1>1, <1>2, <1>3, <1>4 DEF Turn

LEMMA ExpKept ==
  ASSUME NEW C, NEW q \in Seq(ToMapMsg), NEW P, NEW D, NEW r, NEW Q, NEW p,
         P # None => Sound(P), Turn(C, q, P, D, r, Q, p), AgreeExp(C, q, P, p)
  PROVE  AgreeExp(D, r, Q, p)
  <1> DEFINE G(X) == Right(p, X.exp) \cup EndsOf(p)
             B(X) == Wrong(p, X.exp)
             bad(X, Y) == X # None /\ X.exp # Y.exp
  <1> SUFFICES ASSUME Q # None
               PROVE  (bad(D, Q) => Says(r, G(Q))) /\ Calm(r, B(Q), G(Q))
    BY DEF AgreeExp
  <1>0. P # None => (bad(C, P) => Says(q, G(P))) /\ Calm(q, B(P), G(P))
    BY DEF AgreeExp
  <1>1. CASE Told2(C, q, P, D, r, Q, p)
    <2>0. P # None /\ SameCopy(C, D)
      BY <1>1 DEF Told2
    <2>1. PICK n \in Seq(ToMapMsg) : r = q \o n /\ Announced(P, Q, n, p)
      BY <1>1, <2>0 DEF Told2
    <2>2. /\ Calm(n, Wrong(p, Q.exp), Right(p, Q.exp))
          /\ P.exp # Q.exp => Says(n, Right(p, Q.exp))
      BY <2>0, <2>1 DEF Announced
    <2>3. Calm(n, B(Q), G(Q)) /\ (P.exp # Q.exp => Says(n, G(Q)))
      BY <2>2, CalmWider, SaysWider
    <2>4. P.exp = Q.exp => /\ bad(C, Q) => Says(q, G(Q))
                           /\ Calm(q, B(Q), G(Q))
      BY <1>0, <2>0
    <2>5. bad(D, Q) => bad(C, Q)
      BY <2>0 DEF SameCopy
    <2> HIDE DEF G, B, bad
    <2>6. Calm(q, B(Q), G(Q)) \/ Says(n, G(Q))
      BY <2>3, <2>4
    <2>7. Calm(q \o n, B(Q), G(Q))
      BY <2>3, <2>6, CalmMore
    <2>8. bad(D, Q) => Says(q \o n, G(Q))
      BY <2>3, <2>4, <2>5, SaysMore
    <2> QED BY <2>1, <2>7, <2>8
  <1>2. CASE Founded2(C, P, D, r, Q, p)
    <2>1. \A i \in DOMAIN r : r[i] \notin B(Q)
      BY <1>2 DEF Founded2
    <2>2. ~bad(D, Q)
      BY <1>2 DEF Founded2
    <2> HIDE DEF B, G, bad
    <2> QED BY <2>1, <2>2, NoneSays
  <1>3. CASE Heard2(C, q, P, D, r, Q, p)
    <2>1. q # <<>> /\ r = Tail(q) /\ (bad(C, Q) => Says(q, G(Q))) /\ Calm(q, B(Q), G(Q))
          /\ Heeds(C, D, Head(q), p)
      BY <1>0, <1>3 DEF Heard2
    <2>0. Head(q) \in ToMapMsg
      BY <2>1, Taken
    <2>2. bad(D, Q) => Head(q) \in B(Q) \/ (bad(C, Q) /\ Head(q) \notin G(Q))
      <3>1. CASE Head(q) \in InfosOf(p)
        BY <2>1, <3>1 DEF Heeds, Wrong
      <3>2. CASE Head(q) \in EndsOf(p)
        BY <2>1, <3>2 DEF Heeds
      <3>3. CASE Head(q) \notin InfosOf(p) \cup EndsOf(p)
        BY <2>1, <3>3 DEF Heeds, Wrong, Right
      <3> QED BY <3>1, <3>2, <3>3
    <2> HIDE DEF B, G, bad
    <2>3. /\ Calm(Tail(q), B(Q), G(Q))
          /\ Head(q) \in B(Q) => Says(Tail(q), G(Q))
          /\ Says(q, G(Q)) /\ Head(q) \notin G(Q) => Says(Tail(q), G(Q))
      BY <2>1, CalmTail
    <2> QED BY <2>1, <2>2, <2>3
  <1>4. CASE D = None /\ r = <<>>
    <2>1. ~bad(D, Q)
      BY <1>4
    <2> HIDE DEF B, G, bad
    <2> QED BY <1>4, <2>1, NoneSays
  <1> QED BY <1>1, <1>2, <1>3, <1>4 DEF Turn

LEMMA OnlineKept ==
  ASSUME NEW C, NEW q \in Seq(ToMapMsg), NEW P, NEW D, NEW r, NEW Q, NEW p, NEW c \in Chars,
         Turn(C, q, P, D, r, Q, p), AgreeOnline(C, q, P, p, c)
  PROVE  AgreeOnline(D, r, Q, p, c)
  <1> DEFINE x(X) == X.member[c].online
             G(X) == Shows(p, c, x(X)) \cup Skips(p, c) \cup EndsOf(p)
             B(X) == Hides(p, c, x(X))
             bad(X, Y) == X # None /\ c \in DOMAIN X.member /\ x(X) # x(Y)
  <1> SUFFICES ASSUME c \in Members(Q)
               PROVE  (bad(D, Q) => Says(r, G(Q))) /\ Calm(r, B(Q), G(Q))
    BY DEF AgreeOnline
  <1>0. c \in Members(P) => (bad(C, P) => Says(q, G(P))) /\ Calm(q, B(P), G(P))
    BY DEF AgreeOnline
  <1>1. CASE Told2(C, q, P, D, r, Q, p)
    <2>0. P # None /\ SameCopy(C, D) /\ Q # None
      BY <1>1 DEF Told2, Members
    <2>1. PICK n \in Seq(ToMapMsg) : /\ r = q \o n /\ Announced(P, Q, n, p)
                                     /\ \A i \in DOMAIN n : Honest(n[i], p, Q)
      BY <1>1, <2>0 DEF Told2
    <2>2. Calm(n, B(Q), G(Q))
      <3>1. \A i \in DOMAIN n : n[i] \notin B(Q)
        BY <2>1 DEF Honest, Hides, Lists, Members
      <3> QED BY <3>1, NoneSays
    <2>3. c \notin Members(P) \/ x(P) # x(Q) => Says(n, G(Q))
      <3> SUFFICES ASSUME c \notin Members(P) \/ x(P) # x(Q) PROVE Says(n, G(Q))
        OBVIOUS
      <3>1. Says(n, InfosOf(p) \cup MovedOf(p, c))
        <4>1. CASE DOMAIN Q.member # DOMAIN P.member
          <5>1. Says(n, InfosOf(p))
            BY <2>0, <2>1, <4>1 DEF Announced
          <5> QED BY <5>1, SaysWider
        <4>2. CASE DOMAIN Q.member = DOMAIN P.member
          <5>1. c \in DOMAIN P.member \cap DOMAIN Q.member /\ x(P) # x(Q)
            BY <2>0, <4>2 DEF Members
          <5> QED BY <2>0, <2>1, <5>1 DEF Announced
        <4> QED BY <4>1, <4>2
      <3>2. PICK g \in DOMAIN n : n[g] \in InfosOf(p) \cup MovedOf(p, c)
        BY <3>1 DEF Says
      <3>3. n[g] \in Shows(p, c, x(Q))
        BY <2>0, <2>1, <3>2 DEF Honest, Shows, Lists, Members
      <3> QED BY <3>3 DEF Says
    <2>4. ~(c \notin Members(P) \/ x(P) # x(Q)) => /\ bad(C, Q) => Says(q, G(Q))
                                                   /\ Calm(q, B(Q), G(Q))
      BY <1>0
    <2>5. bad(D, Q) => bad(C, Q)
      BY <2>0 DEF SameCopy
    <2> HIDE DEF G, B, bad
    <2>6. Calm(q, B(Q), G(Q)) \/ Says(n, G(Q))
      BY <2>3, <2>4
    <2>7. Calm(q \o n, B(Q), G(Q))
      BY <2>2, <2>6, CalmMore
    <2>8. bad(D, Q) => Says(q \o n, G(Q))
      BY <2>3, <2>4, <2>5, SaysMore
    <2> QED BY <2>1, <2>7, <2>8
  <1>2. CASE Founded2(C, P, D, r, Q, p)
    <2>1. \A i \in DOMAIN r : r[i] \notin B(Q)
      BY <1>2 DEF Founded2, Honest, Hides, Lists, Members
    <2>2. ~bad(D, Q)
      BY <1>2 DEF Founded2
    <2> HIDE DEF B, G, bad
    <2> QED BY <2>1, <2>2, NoneSays
  <1>3. CASE Heard2(C, q, P, D, r, Q, p)
    <2>1. q # <<>> /\ r = Tail(q) /\ (bad(C, Q) => Says(q, G(Q))) /\ Calm(q, B(Q), G(Q))
          /\ Heeds(C, D, Head(q), p)
      BY <1>0, <1>3 DEF Heard2
    <2>0. Head(q) \in ToMapMsg
      BY <2>1, Taken
    <2>2. bad(D, Q) => Head(q) \in B(Q) \/ (bad(C, Q) /\ Head(q) \notin G(Q))
      <3>1. CASE Head(q) \in InfosOf(p)
        BY <2>1, <3>1 DEF Heeds, Hides, Lists
      <3>2. CASE Head(q) \in EndsOf(p)
        BY <2>1, <3>2 DEF Heeds
      <3>3. CASE Head(q) \notin InfosOf(p) \cup EndsOf(p)
        <4>1. Head(q) \notin Lists(p, c)
          BY <3>3 DEF Lists
        <4>2. bad(D, Q) => /\ C # None /\ c \in DOMAIN C.member /\ Head(q) \notin OutsOf(p, c)
                           /\ x(D) = IF Head(q) \in MovedOf(p, c) THEN Head(q).online ELSE x(C)
          BY <2>1, <3>3 DEF Heeds
        <4>3. Head(q) \notin Skips(p, c) \/ ~bad(D, Q)
          BY <3>3, <4>2 DEF Skips
        <4>4. CASE Head(q) \in MovedOf(p, c)
          BY <4>2, <4>4 DEF Hides
        <4>5. CASE Head(q) \notin MovedOf(p, c)
          <5>1. Head(q) \notin Shows(p, c, x(Q))
            BY <4>1, <4>5 DEF Shows
          <5> QED BY <3>3, <4>2, <4>3, <4>5, <5>1
        <4> QED BY <4>4, <4>5
      <3> QED BY <3>1, <3>2, <3>3
    <2> HIDE DEF B, G, bad
    <2>3. /\ Calm(Tail(q), B(Q), G(Q))
          /\ Head(q) \in B(Q) => Says(Tail(q), G(Q))
          /\ Says(q, G(Q)) /\ Head(q) \notin G(Q) => Says(Tail(q), G(Q))
      BY <2>1, CalmTail
    <2> QED BY <2>1, <2>2, <2>3
  <1>4. CASE D = None /\ r = <<>>
    <2>1. ~bad(D, Q)
      BY <1>4
    <2> HIDE DEF B, G, bad
    <2> QED BY <1>4, <2>1, NoneSays
  <1> QED BY <1>1, <1>2, <1>3, <1>4 DEF Turn

-----------------------------------------------------------------------------
(* Every step is a turn for every copy of every party. *)
Turns == \A t \in Servers, p \in Ids :
  Turn(party_db[t][p], toMap[t], party_db_[p], party_db'[t][p], toMap'[t], party_db_'[p], p)

(* What is true of party p, which is Q, and says nothing of another one. *)
Truths(p, Q) == {m \in ToMapMsg : /\ m.kind \in {"created", "auth", "reg"} \/ m.party = p
                                  /\ Honest(m, p, Q)}

LEMMA Untouched ==
  ASSUME NEW P, NEW n, NEW p, P # None => \A i \in DOMAIN n : n[i] \notin Wrong(p, P.exp)
  PROVE  P # None => Announced(P, P, n, p)
  <1> SUFFICES ASSUME P # None PROVE Announced(P, P, n, p)
    OBVIOUS
  <1>1. Calm(n, Wrong(p, P.exp), Right(p, P.exp))
    BY NoneSays
  <1> QED BY <1>1 DEF Announced

LEMMA SameSelf == \A C : SameCopy(C, C)
  BY DEF SameCopy

LEMMA OtherTruths ==
  ASSUME NEW p, NEW Q, NEW m \in Truths(p, Q), NEW o, o # p
  PROVE  (\A R : Honest(m, o, R)) /\ \A x : m \notin Wrong(o, x)
  BY DEF Truths, Honest, Wrong, InfosOf, OptionsOf, OutsOf, MovedOf

(* A map-server that hears nothing of a party. *)
LEMMA NothingNew ==
  ASSUME NEW t \in Servers, NEW p \in Ids, NEW n \in Seq(ToMapMsg),
         party_db_'[p] = party_db_[p], SameCopy(party_db[t][p], party_db'[t][p]),
         toMap'[t] = toMap[t] \o n,
         \A i \in DOMAIN n : (\A R : Honest(n[i], p, R)) /\ \A x : n[i] \notin Wrong(p, x)
  PROVE  Turn(party_db[t][p], toMap[t], party_db_[p], party_db'[t][p], toMap'[t], party_db_'[p], p)
  <1> DEFINE P == party_db_[p]
  <1>1. P # None => Announced(P, P, n, p)
    <2> HIDE DEF P
    <2> QED BY Untouched
  <1>2. Told2(party_db[t][p], toMap[t], P, party_db'[t][p], toMap'[t], P, p)
    BY <1>1 DEF Told2
  <1> QED BY <1>2 DEF Turn

LEMMA AnsweredTurns ==
  ASSUME Types, NEW s \in Servers, toChar[s] # <<>>, NEW p \in Ids, NEW Q, party_db_'[p] = Q,
         \A o \in Ids \ {p} : party_db_'[o] = party_db_[o],
         party_db_[p] = None => Q = None,
         NEW all \in Seq(Truths(p, Q)), NEW one \in Seq(Truths(p, Q)), Answer(s, all, one),
         party_db_[p] # None => /\ Announced(party_db_[p], Q, all, p)
                                /\ Announced(party_db_[p], Q, all \o one, p)
  PROVE  Turns
  <1> DEFINE N == Truths(p, Q)
             said(t) == Said(all, one, s, t)
  <1>1. N \subseteq ToMapMsg
    BY DEF Truths
  <1>2. /\ \A t \in Servers : said(t) \in Seq(N) /\ toMap'[t] = toMap[t] \o said(t)
        /\ party_db' = party_db
    <2> HIDE DEF N
    <2>1. all \in Seq(N) /\ one \in Seq(N)
      BY DEF N
    <2> QED BY <1>1, <2>1, Answered DEF mapVars
  <1>3. \A t \in Servers : said(t) \in {all, all \o one}
    <2>1. all \o <<>> = all
      BY ConcatEmptySeq
    <2> QED BY <2>1 DEF Said
  <1> SUFFICES ASSUME NEW t \in Servers, NEW o \in Ids
               PROVE  Turn(party_db[t][o], toMap[t], party_db_[o], party_db'[t][o], toMap'[t],
                           party_db_'[o], o)
    BY DEF Turns
  <1> HIDE DEF N, said
  <1>4. said(t) \in Seq(ToMapMsg) /\ \A i \in DOMAIN said(t) : said(t)[i] \in N
    <2>1. said(t) \in Seq(N)
      BY <1>2
    <2> QED BY <1>1, <2>1, SeqMonotonic
  <1>5. SameCopy(party_db[t][o], party_db'[t][o])
    BY <1>2, SameSelf
  <1>6. CASE o # p
    <2>1. \A i \in DOMAIN said(t) : (\A R : Honest(said(t)[i], o, R))
                                   /\ \A x : said(t)[i] \notin Wrong(o, x)
      BY <1>4, <1>6, OtherTruths DEF N
    <2>2. party_db_'[o] = party_db_[o] /\ toMap'[t] = toMap[t] \o said(t)
      BY <1>2, <1>6
    <2> DEFINE n == said(t)
    <2>3. n \in Seq(ToMapMsg)
      BY <1>4
    <2> HIDE DEF n
    <2> QED BY <1>5, <2>1, <2>2, <2>3, NothingNew DEF n
  <1>7. CASE o = p
    <2>1. party_db_[p] # None => Announced(party_db_[p], Q, said(t), p)
      BY <1>3
    <2>2. \A i \in DOMAIN said(t) : Honest(said(t)[i], p, Q)
      BY <1>4 DEF N, Truths
    <2>3. Told2(party_db[t][p], toMap[t], party_db_[p], party_db'[t][p], toMap'[t], Q, p)
      BY <1>2, <1>4, <1>5, <1>7, <2>1, <2>2 DEF Told2
    <2> QED BY <1>7, <2>3 DEF Turn
  <1> QED BY <1>6, <1>7

(* A map-server handles a message. *)
LEMMA HeardTurns ==
  ASSUME Types, NEW s \in Servers, toMap[s] # <<>>,
         toMap' = [toMap EXCEPT ![s] = Tail(toMap[s])], UNCHANGED party_db_,
         \A t \in Servers \ {s}, p \in Ids : SameCopy(party_db[t][p], party_db'[t][p]),
         \A p \in Ids : Heeds(party_db[s][p], party_db'[s][p], Head(toMap[s]), p)
  PROVE  Turns
  <1>1. /\ toMap'[s] = Tail(toMap[s])
        /\ \A t \in Servers : t # s => toMap'[t] = toMap[t]
        /\ party_db_' = party_db_
    BY DEF Types, Shape
  <1> SUFFICES ASSUME NEW t \in Servers, NEW p \in Ids
               PROVE  Turn(party_db[t][p], toMap[t], party_db_[p], party_db'[t][p], toMap'[t],
                           party_db_'[p], p)
    BY DEF Turns
  <1>2. CASE t = s
    BY <1>1, <1>2 DEF Turn, Heard2
  <1>3. CASE t # s
    <2>1. toMap[t] \in Seq(ToMapMsg)
      BY DEF Types, Shape
    <2>2. toMap'[t] = toMap[t] \o <<>>
      BY <1>1, <1>3, <2>1, ConcatEmptySeq
    <2>3. <<>> \in Seq(ToMapMsg) /\ DOMAIN <<>> = {}
      OBVIOUS
    <2> DEFINE n == <<>>
    <2> HIDE DEF n
    <2>4. SameCopy(party_db[t][p], party_db'[t][p])
      BY <1>3
    <2> QED BY <1>1, <2>2, <2>3, <2>4, NothingNew DEF n
  <1> QED BY <1>2, <1>3

(* A player acts: no party changes, and no copy in what matters here. *)
LEMMA ActTurns ==
  ASSUME Types, UNCHANGED party_db_,
         \A t \in Servers : \E n \in Seq(Auths) : toMap'[t] = toMap[t] \o n,
         \A t \in Servers, p \in Ids : SameCopy(party_db[t][p], party_db'[t][p])
  PROVE  Turns
  <1> SUFFICES ASSUME NEW t \in Servers, NEW p \in Ids
               PROVE  Turn(party_db[t][p], toMap[t], party_db_[p], party_db'[t][p], toMap'[t],
                           party_db_'[p], p)
    BY DEF Turns
  <1>1. PICK n \in Seq(Auths) : toMap'[t] = toMap[t] \o n
    OBVIOUS
  <1>2. n \in Seq(ToMapMsg) /\ \A i \in DOMAIN n : n[i] \in Auths
    <2>1. Auths \subseteq ToMapMsg
      BY DEF ToMapMsg
    <2> QED BY <1>1, <2>1, SeqMonotonic
  <1>3. \A i \in DOMAIN n : (\A R : Honest(n[i], p, R)) /\ \A x : n[i] \notin Wrong(p, x)
    BY <1>2 DEF Auths, Honest, Wrong, InfosOf, OptionsOf, OutsOf, MovedOf
  <1> QED BY <1>1, <1>2, <1>3, NothingNew

LEMMA ActTurns2 ==
  ASSUME Types, UNCHANGED <<party_db_, toMap>>,
         \A t \in Servers, p \in Ids : SameCopy(party_db[t][p], party_db'[t][p])
  PROVE  Turns
  <1>1. ASSUME NEW t \in Servers PROVE \E n \in Seq(Auths) : toMap'[t] = toMap[t] \o n
    <2>1. toMap[t] \in Seq(ToMapMsg)
      BY DEF Types, Shape
    <2>2. toMap'[t] = toMap[t] \o <<>> /\ <<>> \in Seq(Auths)
      BY <2>1, ConcatEmptySeq
    <2> QED BY <2>2
  <1> QED BY <1>1, ActTurns

-----------------------------------------------------------------------------
(* Every step is a turn: the char-server's. *)
LEMMA Told0 ==
  ASSUME Types, NEW s \in Servers, toChar[s] # <<>>, NEW p \in Ids,
         UNCHANGED party_db_, NEW one \in Seq(ToMapMsg), Answer(s, <<>>, one),
         \A i \in DOMAIN one : /\ one[i].kind \in {"created", "auth", "reg"} \/ one[i].party = p
                               /\ Honest(one[i], p, party_db_[p])
                               /\ party_db_[p] # None => one[i] \notin Wrong(p, party_db_[p].exp)
  PROVE  Turns
  <1> DEFINE P == party_db_[p]
             N == Truths(p, P)
  <1>1. one \in Seq(N) /\ <<>> \in Seq(N)
    <2>1. \A i \in DOMAIN one : one[i] \in N
      BY DEF Truths
    <2>2. DOMAIN one = 1 .. Len(one) /\ Len(one) \in Nat /\ one \in [1 .. Len(one) -> ToMapMsg]
      BY LenProperties
    <2> HIDE DEF N
    <2>3. one \in [1 .. Len(one) -> N]
      BY <2>1, <2>2
    <2> QED BY <2>2, <2>3
  <1> DEFINE all == <<>>
  <1>2. all \o one = one /\ \A i \in DOMAIN all : all[i] \notin Wrong(p, P.exp)
    BY ConcatEmptySeq
  <1> HIDE DEF all
  <1>3. P # None => Announced(P, P, all, p) /\ Announced(P, P, one, p)
    <2>1. P # None => Announced(P, P, all, p)
      <3> HIDE DEF P
      <3> QED BY <1>2, Untouched
    <2>2. P # None => Announced(P, P, one, p)
      <3>1. P # None => \A i \in DOMAIN one : one[i] \notin Wrong(p, P.exp)
        OBVIOUS
      <3> HIDE DEF P
      <3> QED BY <3>1, Untouched
    <2> QED BY <2>1, <2>2
  <1>4. Answer(s, all, one) /\ all \in Seq(N)
    BY <1>1 DEF all
  <1> QED BY <1>1, <1>2, <1>3, <1>4, AnsweredTurns

LEMMA AnIds == ASSUME ConstantsOK PROVE 1 \in Ids
  BY DEF ConstantsOK, Ids

LEMMA NeitherWay ==
  ASSUME NEW m \in Createds \cup Addeds \cup NoInfos \cup RegMsgs, NEW p
  PROVE  (\A Q : Honest(m, p, Q)) /\ \A x : m \notin Wrong(p, x)
  BY DEF Honest, Wrong, InfosOf, OptionsOf, OutsOf, MovedOf, Createds, Addeds, NoInfos, RegMsgs

LEMMA PartyInfoTurns ==
  ASSUME ConstantsOK, Types, NEW s \in Servers, PartyInfo(s)
  PROVE  Turns
  <1> DEFINE m == Head(toChar[s])
             p == m.party
             P == party_db_[p]
             w == IF Known(p) THEN Info(p, P, m.who) ELSE NoInfo(p, m.who)
  <1>1. toChar[s] # <<>> /\ m \in InfoMsgs
    BY HeardFacts, ToCharKinds DEF PartyInfo
  <1>2. m.who \in Chars /\ p \in Ids
    BY <1>1 DEF InfoMsgs
  <1>3. Answer(s, <<>>, <<w>>) /\ UNCHANGED party_db_
    BY DEF PartyInfo, charVars
  <1>4. w \in ToMapMsg /\ w.party = p
    <2>1. Known(p) => P \in Parties
      BY KnownFacts
    <2>2. Known(p) => Info(p, P, m.who) \in ToMapMsg
      BY <1>2, <2>1, ToMapMade
    <2>3. NoInfo(p, m.who) \in ToMapMsg
      BY <1>2, ToMapMade
    <2>4. Info(p, P, m.who).party = p /\ NoInfo(p, m.who).party = p
      BY DEF Info, NoInfo
    <2> QED BY <2>2, <2>3, <2>4
  <1>5. Honest(w, p, P) /\ (P # None => w \notin Wrong(p, P.exp))
    <2>1. CASE Known(p)
      <3>1. w.kind = "info" /\ w.member = P.member /\ w.exp = P.exp
        BY <2>1 DEF Info
      <3> HIDE DEF w
      <3> QED BY <2>1, <3>1 DEF Honest, InfosOf, OutsOf, MovedOf, Wrong, OptionsOf, Known
    <2>2. CASE ~Known(p)
      <3>1. w.kind = "noinfo"
        BY <2>2 DEF NoInfo
      <3> HIDE DEF w
      <3> QED BY <3>1 DEF Honest, InfosOf, OutsOf, MovedOf, Wrong, OptionsOf
    <2> QED BY <2>1, <2>2
  <1> HIDE DEF w, P
  <1> DEFINE one == <<w>>
  <1>6. one \in Seq(ToMapMsg) /\ \A i \in DOMAIN one : one[i] = w
    BY <1>4
  <1>7. Answer(s, <<>>, one)
    BY <1>3
  <1> HIDE DEF one, p, m
  <1>8. toChar[s] # <<>>
    BY <1>1
  <1> QED BY <1>2, <1>3, <1>4, <1>5, <1>6, <1>7, <1>8, Told0 DEF P

(* A step of the char-server that changes no party and tells of none. *)
LEMMA NoPartyTurns ==
  ASSUME ConstantsOK, Types, NEW s \in Servers, toChar[s] # <<>>, UNCHANGED party_db_,
         NEW one \in Seq(Createds \cup RegMsgs), Answer(s, <<>>, one)
  PROVE  Turns
  <1> DEFINE N == Createds \cup RegMsgs
  <1>1. N \subseteq ToMapMsg /\ \A m \in N : m.kind \in {"created", "auth", "reg"}
    BY DEF ToMapMsg, Createds, RegMsgs
  <1>2. \A m \in N, p \in Ids : (\A Q : Honest(m, p, Q)) /\ \A x : m \notin Wrong(p, x)
    BY NeitherWay
  <1>3. one \in Seq(N)
    OBVIOUS
  <1> HIDE DEF N
  <1>4. one \in Seq(ToMapMsg) /\ \A i \in DOMAIN one : one[i] \in N
    BY <1>1, <1>3, SeqMonotonic
  <1>5. \A i \in DOMAIN one : /\ one[i].kind \in {"created", "auth", "reg"} \/ one[i].party = 1
                              /\ Honest(one[i], 1, party_db_[1])
                              /\ party_db_[1] # None => one[i] \notin Wrong(1, party_db_[1].exp)
    BY <1>1, <1>2, <1>4, AnIds
  <1> QED BY <1>4, <1>5, AnIds, Told0

LEMMA SaveTurns ==
  ASSUME ConstantsOK, Types, NEW s \in Servers, char_mmo_char_tosql(s)
  PROVE  Turns
  <1>1. toChar[s] # <<>> /\ UNCHANGED party_db_ /\ Answer(s, <<>>, <<>>)
    BY DEF char_mmo_char_tosql, Heard
  <1> DEFINE one == <<>>
  <1>2. one \in Seq(Createds \cup RegMsgs) /\ Answer(s, <<>>, one)
    BY <1>1
  <1> HIDE DEF one
  <1> QED BY <1>1, <1>2, NoPartyTurns

LEMMA RegistryTurns ==
  ASSUME ConstantsOK, Types, NEW s \in Servers, RegistryRequest(s)
  PROVE  Turns
  <1> DEFINE reg == [kind |-> "reg", who |-> Head(toChar[s]).who]
             one == <<reg>>
  <1>1. toChar[s] # <<>> /\ UNCHANGED party_db_ /\ Answer(s, <<>>, one)
    BY DEF RegistryRequest, Heard, charVars
  <1>2. Head(toChar[s]) \in RegMsgs
    BY HeardFacts, ToCharKinds DEF RegistryRequest
  <1>3. reg \in Createds \cup RegMsgs
    BY <1>2 DEF RegMsgs
  <1> HIDE DEF reg
  <1>4. one \in Seq(Createds \cup RegMsgs)
    BY <1>3, One
  <1> HIDE DEF one
  <1> QED BY <1>1, <1>4, NoPartyTurns

LEMMA CreateTurns ==
  ASSUME ConstantsOK, Types, NEW s \in Servers, CreateParty(s)
  PROVE  Turns
  <1> DEFINE m == Head(toChar[s])
             p == lastId + 1
             P == Founded([c \in {m.who} |-> m.as])
             made == Created(m.who, p)
             no == Created(m.who, 0)
  <1>1. toChar[s] # <<>> /\ m \in CreateMsgs
    BY HeardFacts, ToCharKinds DEF CreateParty
  <1>2. m.who \in Chars /\ m.as \in Member
    BY <1>1 DEF CreateMsgs
  <1>3. lastId \in 0 .. LastParty /\ lastId \in Int /\ LastParty \in Nat
        /\ party_db_ \in [Ids -> Parties \cup {None}]
    BY DEF Types, Shape, ConstantsOK
  <1>4. P \in Parties
    <2> DEFINE ros == [c \in {m.who} |-> m.as]
    <2>1. ros \in Rosters
      BY <1>2, RosterFacts
    <2> HIDE DEF ros
    <2>2. Founded(ros) \in Parties
      BY <2>1, FoundedFacts
    <2> QED BY <2>2 DEF ros
  <1>5. no \in Createds
    BY <1>2, <1>3 DEF Created, Createds
  <1> DEFINE info == Info(p, P, None)
  <1>0. p = lastId + 1
    OBVIOUS
  <1>6. \/ p \in Ids /\ Put(p, P) /\ Answer(s, <<>>, <<info, made>>)
        \/ Answer(s, <<>>, <<no>>) /\ UNCHANGED charVars
    BY DEF CreateParty
  <1>7. CASE Answer(s, <<>>, <<no>>) /\ UNCHANGED charVars
    <2> DEFINE one == <<no>>
    <2> HIDE DEF no
    <2>1. one \in Seq(Createds \cup RegMsgs)
      BY <1>5, One
    <2> HIDE DEF one
    <2>2. Answer(s, <<>>, one) /\ UNCHANGED party_db_ /\ toChar[s] # <<>>
      BY <1>1, <1>7 DEF one, charVars
    <2> QED BY <2>1, <2>2, NoPartyTurns
  <1>8. CASE p \in Ids /\ Put(p, P) /\ Answer(s, <<>>, <<info, made>>)
    <2>1. p \in 0 .. LastParty /\ p \in Int
      BY <1>0, <1>8 DEF Ids
    <2>2. made \in Createds
      BY <1>2, <2>1 DEF Created, Createds
    <2>3. info \in ToMapMsg
      <3> HIDE DEF P, p
      <3> QED BY <1>2, <1>4, <1>8, ToMapMade
    <2>4. info.kind = "info" /\ info.party = p /\ info.member = P.member /\ info.exp = P.exp
      BY DEF Info
    <2>5. P # None
      BY <1>4 DEF ConstantsOK
    <2>6. /\ party_db_'[p] = P
          /\ \A o \in Ids : o # p => party_db_'[o] = party_db_[o]
      BY <1>3, <1>8 DEF Put
    <2>7. party_db_[p] = None /\ (\A t \in Servers : party_db[t][p] = None) /\ p > lastId
      <3>1. p > lastId
        BY <1>0, <1>3
      <3> HIDE DEF p
      <3> QED BY <1>8, <3>1 DEF Types, Fresh
    <2> HIDE DEF info, made, P, p
    <2> DEFINE N == {info, made}
               one == <<info, made>>
               said(t) == Said(<<>>, one, s, t)
    <2>8. N \subseteq ToMapMsg
      BY <2>2, <2>3 DEF ToMapMsg
    <2>9. /\ \A t \in Servers : said(t) \in Seq(N) /\ toMap'[t] = toMap[t] \o said(t)
          /\ party_db' = party_db
      <3> DEFINE all == <<>>
      <3>1. all \in Seq(N) /\ one \in Seq(N)
        OBVIOUS
      <3>2. Answer(s, all, one)
        BY <1>8
      <3> HIDE DEF N, one, all
      <3>3. /\ \A t \in Servers : /\ Said(all, one, s, t) \in Seq(N)
                                  /\ toMap'[t] = toMap[t] \o Said(all, one, s, t)
            /\ UNCHANGED <<mapVars, asked>>
        BY <1>1, <2>8, <3>1, <3>2, Answered
      <3> QED BY <3>3 DEF all, mapVars
    <2>10. ASSUME NEW o \in Ids, NEW n \in N
           PROVE  /\ o # p => (\A R : Honest(n, o, R)) /\ \A x : n \notin Wrong(o, x)
                  /\ Honest(n, p, P) /\ n \notin Wrong(p, P.exp)
      <3>1. CASE n = made
        BY <2>2, <3>1, NeitherWay
      <3>2. CASE n = info
        BY <2>4, <2>5, <3>2 DEF Honest, Wrong, InfosOf, OptionsOf, OutsOf, MovedOf
      <3> QED BY <3>1, <3>2
    <2> SUFFICES ASSUME NEW t \in Servers, NEW o \in Ids
                 PROVE  Turn(party_db[t][o], toMap[t], party_db_[o], party_db'[t][o], toMap'[t],
                             party_db_'[o], o)
      BY DEF Turns
    <2> HIDE DEF N, said
    <2>11. toMap[t] \in Seq(ToMapMsg) /\ said(t) \in Seq(ToMapMsg)
           /\ \A i \in DOMAIN said(t) : said(t)[i] \in N
      <3>1. said(t) \in Seq(N) /\ toMap[t] \in Seq(ToMapMsg)
        BY <2>9 DEF Types, Shape
      <3> QED BY <2>8, <3>1, SeqMonotonic
    <2> DEFINE n == said(t)
    <2>12. n \in Seq(ToMapMsg) /\ toMap'[t] = toMap[t] \o n /\ \A i \in DOMAIN n : n[i] \in N
      BY <2>9, <2>11
    <2> HIDE DEF n
    <2>13. CASE o # p
      <3>1. \A i \in DOMAIN n : (\A R : Honest(n[i], o, R)) /\ \A x : n[i] \notin Wrong(o, x)
        BY <2>10, <2>12, <2>13
      <3>2. SameCopy(party_db[t][o], party_db'[t][o])
        BY <2>9, SameSelf
      <3> QED BY <2>6, <2>12, <2>13, <3>1, <3>2, NothingNew
    <2>14. CASE o = p
      <3>1. \A i \in DOMAIN toMap[t] : Honest(toMap[t][i], p, P) /\ toMap[t][i] \notin Wrong(p, P.exp)
        <4> TAKE i \in DOMAIN toMap[t]
        <4>1. About(toMap[t][i], Founding, lastId)
          BY DEF Types, Fresh
        <4>2. toMap[t][i].party = p => toMap[t][i].kind \notin {"info", "option", "withdraw", "moved"}
          <5>1. ~(p <= lastId)
            BY <1>3, <2>1, <2>7
          <5> QED BY <4>1, <5>1 DEF About, Founding
        <4> QED BY <4>2 DEF Honest, Wrong, InfosOf, OptionsOf, OutsOf, MovedOf
      <3>2. \A i \in DOMAIN (toMap[t] \o n) : \/ i \in DOMAIN toMap[t] /\ (toMap[t] \o n)[i] = toMap[t][i]
                                             \/ (toMap[t] \o n)[i] \in N
        <4> DEFINE q == toMap[t]
        <4>1. q \in Seq(ToMapMsg)
          BY <2>11
        <4> HIDE DEF q
        <4>2. /\ \A i \in DOMAIN q : (q \o n)[i] = q[i]
              /\ \A i \in DOMAIN (q \o n) : \/ i \in DOMAIN q
                                            \/ i - Len(q) \in DOMAIN n /\ (q \o n)[i] = n[i - Len(q)]
          BY <2>12, <4>1, Added2
        <4>3. \A i \in DOMAIN (q \o n) : \/ i \in DOMAIN q /\ (q \o n)[i] = q[i]
                                         \/ (q \o n)[i] \in N
          BY <2>12, <4>2
        <4> QED BY <4>3 DEF q
      <3>3. \A i \in DOMAIN toMap'[t] : Honest(toMap'[t][i], p, P) /\ toMap'[t][i] \notin Wrong(p, P.exp)
        BY <2>10, <2>12, <3>1, <3>2, <1>8
      <3>4. Founded2(party_db[t][p], party_db_[p], party_db'[t][p], toMap'[t], P, p)
        BY <2>7, <2>9, <3>3 DEF Founded2
      <3> QED BY <2>6, <2>14, <3>4 DEF Turn
    <2> QED BY <2>13, <2>14
  <1> QED BY <1>6, <1>7, <1>8

-----------------------------------------------------------------------------
(* What the char-server tells of a party it knows. *)
LEMMA KnownTurns ==
  ASSUME ConstantsOK, Types, NEW s \in Servers, toChar[s] # <<>>, NEW p, Known(p), NEW Q, Put(p, Q),
         NEW all \in Seq(Truths(p, Q)), NEW one \in Seq(Truths(p, Q)), Answer(s, all, one),
         Announced(party_db_[p], Q, all, p), Announced(party_db_[p], Q, all \o one, p)
  PROVE  Turns
  <1>1. p \in Ids /\ party_db_[p] # None /\ party_db_ \in [Ids -> Parties \cup {None}]
    BY DEF Known, Types, Shape
  <1>2. party_db_'[p] = Q /\ \A o \in Ids \ {p} : party_db_'[o] = party_db_[o]
    BY <1>1 DEF Put
  <1> QED BY <1>1, <1>2, AnsweredTurns

LEMMA AnnouncedMore ==
  ASSUME NEW P, NEW Q, NEW p, NEW n \in Seq(ToMapMsg), NEW one \in Seq(ToMapMsg),
         Announced(P, Q, n, p), Q # None => \A i \in DOMAIN one : one[i] \notin Wrong(p, Q.exp)
  PROVE  Announced(P, Q, n \o one, p)
  <1>1. \A G : Says(n, G) => Says(n \o one, G)
    BY SaysMore
  <1>2. ASSUME Q # None, Sound(P)
        PROVE  Calm(n \o one, Wrong(p, Q.exp), Right(p, Q.exp))
    <2> DEFINE B == Wrong(p, Q.exp)
               G == Right(p, Q.exp)
    <2>1. Calm(one, B, G)
      BY <1>2, NoneSays
    <2>2. Calm(n, B, G)
      BY <1>2 DEF Announced
    <2> HIDE DEF B, G
    <2>3. Calm(n \o one, B, G)
      BY <2>1, <2>2, CalmMore
    <2> QED BY <2>3 DEF B, G
  <1>3. Q = None => Says(n \o one, EndsOf(p))
    BY <1>1 DEF Announced
  <1>4. Q # None /\ DOMAIN Q.member # DOMAIN P.member => Says(n \o one, InfosOf(p))
    BY <1>1 DEF Announced
  <1>5. Q # None => \A c \in DOMAIN P.member \cap DOMAIN Q.member :
          P.member[c].online # Q.member[c].online => Says(n \o one, InfosOf(p) \cup MovedOf(p, c))
    BY <1>1 DEF Announced
  <1>6. Q # None /\ Sound(P) /\ P.exp # Q.exp => Says(n \o one, Right(p, Q.exp))
    BY <1>1 DEF Announced
  <1> DEFINE u == n \o one
  <1> HIDE DEF u
  <1> QED BY <1>2, <1>3, <1>4, <1>5, <1>6 DEF Announced, u

LEMMA Lasts ==
  ASSUME NEW n \in Seq(ToMapMsg), NEW x \in ToMapMsg, NEW G, x \in G, NEW B, x \notin B
  PROVE  Says(n \o <<x>>, G) /\ Calm(n \o <<x>>, B, G)
  <1> DEFINE one == <<x>>
  <1>1. one \in Seq(ToMapMsg) /\ Says(one, G) /\ \A i \in DOMAIN one : one[i] \notin B
    BY DEF Says
  <1> HIDE DEF one
  <1>2. Calm(one, B, G)
    BY <1>1, NoneSays
  <1>3. Says(n \o one, G)
    BY <1>1, SaysMore
  <1>4. Calm(n \o one, B, G)
    BY <1>1, <1>2, CalmMore
  <1> QED BY <1>3, <1>4 DEF one

(* The whole party is told. *)
LEMMA AnnouncedByInfo ==
  ASSUME NEW P, NEW Q, Q # None, NEW p, NEW n \in Seq(ToMapMsg),
         NEW x \in InfosOf(p), x.exp = Q.exp
  PROVE  Announced(P, Q, n \o <<x>>, p)
  <1> DEFINE all == n \o <<x>>
  <1>1. x \in ToMapMsg /\ x \in Right(p, Q.exp) /\ x \notin Wrong(p, Q.exp)
        /\ \A c : x \in InfosOf(p) \cup MovedOf(p, c)
    BY DEF InfosOf, Right, Wrong
  <1>2. Says(all, InfosOf(p))
    BY <1>1, Lasts, NoneSays
  <1>3. \A c : Says(all, InfosOf(p) \cup MovedOf(p, c))
    BY <1>1, Lasts
  <1>4. Says(all, Right(p, Q.exp)) /\ Calm(all, Wrong(p, Q.exp), Right(p, Q.exp))
    BY <1>1, Lasts
  <1> HIDE DEF all
  <1> QED BY <1>2, <1>3, <1>4 DEF Announced, all

(* Even share went off. *)
LEMMA DroppedFacts ==
  ASSUME NEW p \in Ids, NEW P \in Parties, NEW Q \in Parties, NEW R, NEW n, n = Dropped(p, P, Q)
  PROVE  /\ n \in Seq(Truths(p, R))
         /\ \A i \in DOMAIN n : n[i] \in Right(p, FALSE)
         /\ P.exp /\ ~Q.exp => Says(n, Right(p, FALSE))
         /\ ~(P.exp /\ ~Q.exp) => DOMAIN n = {}
  <1> DEFINE o == Option(p, Q, FALSE)
             one == <<o>>
  <1>1. CASE P.exp /\ ~Q.exp
    <2>1. Q.exp = FALSE
      BY <1>1 DEF Parties
    <2>2. o = [kind |-> "option", party |-> p, exp |-> FALSE, denied |-> FALSE]
      BY <2>1 DEF Option
    <2> HIDE DEF o
    <2>3. o \in ToMapMsg /\ o.kind = "option" /\ o.party = p /\ o.exp = FALSE /\ o.denied = FALSE
      <3>1. o \in Options
        BY <2>2 DEF Options
      <3> QED BY <2>2, <3>1 DEF ToMapMsg
    <2>4. o \in Truths(p, R)
      BY <2>3 DEF Truths, Honest, InfosOf, OutsOf, MovedOf
    <2>5. o \in Right(p, FALSE)
      BY <2>3 DEF Right, OptionsOf
    <2>6. one \in Seq(Truths(p, R)) /\ (\A i \in DOMAIN one : one[i] = o) /\ Says(one, Right(p, FALSE))
      <3>1. one \in Seq(Truths(p, R)) /\ (\A i \in DOMAIN one : one[i] = o) /\ 1 \in DOMAIN one
        BY <2>4
      <3> QED BY <2>5, <3>1 DEF Says
    <2>7. n = one
      <3>1. o = Option(p, Q, FALSE)
        BY DEF o
      <3> QED BY <1>1, <3>1 DEF Dropped
    <2> HIDE DEF one
    <2> QED BY <1>1, <2>5, <2>6, <2>7
  <1>2. CASE ~(P.exp /\ ~Q.exp)
    <2>1. n = <<>>
      BY <1>2 DEF Dropped
    <2>2. <<>> \in Seq(Truths(p, R)) /\ DOMAIN <<>> = {}
      OBVIOUS
    <2> DEFINE e == <<>>
    <2>3. n = e /\ e \in Seq(Truths(p, R)) /\ DOMAIN e = {}
      BY <2>1, <2>2
    <2> HIDE DEF e
    <2>4. n \in Seq(Truths(p, R)) /\ DOMAIN n = {}
      BY <2>3
    <2> QED BY <1>2, <2>4
  <1> QED BY <1>1, <1>2

LEMMA TruthsAre == \A p, Q : Truths(p, Q) \subseteq ToMapMsg
  BY DEF Truths

LEMMA InfoTrue ==
  ASSUME NEW p \in Ids, NEW Q \in Parties, Q # None
  PROVE  /\ Info(p, Q, None) \in Truths(p, Q)
         /\ Info(p, Q, None) \in InfosOf(p) /\ Info(p, Q, None).exp = Q.exp
  <1> DEFINE x == Info(p, Q, None)
  <1>1. x \in Infos
    BY DEF Info, Infos, Parties
  <1>2. x \in ToMapMsg
    BY <1>1 DEF ToMapMsg
  <1>3. x.kind = "info" /\ x.party = p /\ x.member = Q.member /\ x.exp = Q.exp
    BY DEF Info
  <1> HIDE DEF x
  <1>4. x \in Truths(p, Q) /\ x \in InfosOf(p)
    BY <1>2, <1>3 DEF Truths, Honest, InfosOf, OutsOf, MovedOf
  <1> QED BY <1>3, <1>4 DEF x

LEMMA AddMemberTurns ==
  ASSUME ConstantsOK, Types, NEW s \in Servers, PartyAddMember(s)
  PROVE  Turns
  <1> DEFINE m == Head(toChar[s])
             p == m.party
             P == party_db_[p]
             Q == Joined(P, m.who, m.as)
             info == Info(p, Q, None)
             before == Dropped(p, P, Q)
             all == before \o <<info>>
             yes == Added(p, m.who, FALSE)
             no == Added(p, m.who, TRUE)
  <1>1. toChar[s] # <<>> /\ m \in JoinMsgs
    BY HeardFacts, ToCharKinds DEF PartyAddMember
  <1>2. m.who \in Chars /\ m.as \in Member /\ p \in Ids
    BY <1>1 DEF JoinMsgs
  <1>3. yes \in Addeds /\ no \in Addeds /\ yes.party = p /\ no.party = p
    BY <1>2 DEF Added, Addeds
  <1>4. \/ Known(p) /\ Put(p, Q) /\ Answer(s, all, <<yes>>)
        \/ Answer(s, <<>>, <<no>>) /\ UNCHANGED charVars
    BY DEF PartyAddMember
  <1>5. \A x \in {yes, no} : /\ x \in ToMapMsg /\ x.party = p /\ \A R : Honest(x, p, R)
                             /\ \A e : x \notin Wrong(p, e)
    <2>1. yes \in ToMapMsg /\ no \in ToMapMsg
      BY <1>3 DEF ToMapMsg
    <2>2. \A x \in {yes, no} : (\A R : Honest(x, p, R)) /\ \A e : x \notin Wrong(p, e)
      BY <1>3, NeitherWay
    <2> QED BY <1>3, <2>1, <2>2
  <1> HIDE DEF yes, no
  <1>6. CASE Answer(s, <<>>, <<no>>) /\ UNCHANGED charVars
    <2> DEFINE one == <<no>>
    <2>1. one \in Seq(ToMapMsg) /\ \A i \in DOMAIN one : one[i] = no
      BY <1>5
    <2>2. Answer(s, <<>>, one) /\ UNCHANGED party_db_
      BY <1>6 DEF charVars
    <2>3. \A i \in DOMAIN one : /\ one[i].kind \in {"created", "auth", "reg"} \/ one[i].party = p
                                /\ Honest(one[i], p, party_db_[p])
                                /\ party_db_[p] # None => one[i] \notin Wrong(p, party_db_[p].exp)
      BY <1>5, <2>1
    <2> HIDE DEF one, p, m
    <2>4. toChar[s] # <<>>
      BY <1>1
    <2> QED BY <1>2, <2>1, <2>2, <2>3, <2>4, Told0
  <1>7. CASE Known(p) /\ Put(p, Q) /\ Answer(s, all, <<yes>>)
    <2>1. P \in Parties
      BY <1>7, KnownFacts
    <2>2. Q \in Parties /\ Q # None
      <3> HIDE DEF P
      <3>1. Joined(P, m.who, m.as) \in Parties
        BY <1>2, <2>1, JoinedFacts
      <3> QED BY <3>1 DEF ConstantsOK
    <2> HIDE DEF Q
    <2>3. info \in Truths(p, Q) /\ info \in InfosOf(p) /\ info.exp = Q.exp
      <3> HIDE DEF p
      <3> QED BY <1>2, <2>2, InfoTrue
    <2>4. before \in Seq(Truths(p, Q))
      <3> HIDE DEF p, P
      <3> QED BY <1>2, <2>1, <2>2, DroppedFacts
    <2>5. Known(p) /\ Put(p, Q) /\ Answer(s, all, <<yes>>) /\ toChar[s] # <<>> /\ P = party_db_[p]
      BY <1>1, <1>7
    <2> HIDE DEF p, P, m, info, before
    <2>6. <<info>> \in Seq(Truths(p, Q)) /\ all \in Seq(Truths(p, Q))
      <3>1. <<info>> \in Seq(Truths(p, Q))
        BY <2>3, One
      <3> QED BY <2>4, <3>1, ConcatProperties, Zenon
    <2>7. Announced(P, Q, all, p)
      <3>1. before \in Seq(ToMapMsg)
        BY <2>4, TruthsAre, SeqMonotonic
      <3> QED BY <2>2, <2>3, <3>1, AnnouncedByInfo
    <2> DEFINE one == <<yes>>
    <2>8. yes \in Truths(p, Q)
      BY <1>5 DEF Truths
    <2>9. one \in Seq(Truths(p, Q)) /\ one \in Seq(ToMapMsg) /\ \A i \in DOMAIN one : one[i] \notin Wrong(p, Q.exp)
      BY <1>5, <2>8
    <2>10. Answer(s, all, one)
      BY <2>5
    <2> HIDE DEF one, all
    <2>11. Announced(P, Q, all \o one, p)
      <3>1. all \in Seq(ToMapMsg)
        BY <2>6, TruthsAre, SeqMonotonic
      <3> QED BY <2>7, <2>9, <3>1, AnnouncedMore
    <2> QED BY <2>5, <2>6, <2>7, <2>9, <2>10, <2>11, KnownTurns
  <1> QED BY <1>4, <1>6, <1>7

LEMMA LeaveTurns ==
  ASSUME ConstantsOK, Types, NEW s \in Servers, PartyLeave(s)
  PROVE  Turns
  <1> DEFINE m == Head(toChar[s])
             c == m.who
             p == m.party
             P == party_db_[p]
             Q == Without(P, c)
             S == DOMAIN P.member \ {c}
             others == IF P.member[c].leader THEN SetToSeq(S) ELSE <<>>
             each == [i \in DOMAIN others |-> Withdraw(p, others[i])]
             out == Withdraw(p, c)
             end == Broken(p)
             info == Info(p, Q, None)
             before == Dropped(p, P, Q)
             all1 == <<out>> \o each \o <<end>>
             all2 == <<out>> \o before \o <<info>>
             none == <<>>
  <1>1. toChar[s] # <<>> /\ m \in LeaveMsgs
    BY HeardFacts, ToCharKinds, Zenon DEF PartyLeave
  <1>2. c \in Chars /\ p \in Ids
    BY <1>1 DEF LeaveMsgs
  <1>3. \/ Known(p) /\ c \in DOMAIN P.member /\ Put(p, None) /\ Answer(s, all1, none)
        \/ Known(p) /\ c \in DOMAIN P.member /\ Put(p, Q) /\ Answer(s, all2, none)
        \/ Answer(s, <<>>, none) /\ UNCHANGED party_db_
    BY Zenon DEF PartyLeave
  <1>4. /\ \A q : none \in Seq(q)
        /\ DOMAIN none = {}
        /\ \A q \in Seq(ToMapMsg) : q \o none = q
    BY ConcatEmptySeq
  <1> HIDE DEF none
  <1>5. \A d \in Chars : /\ Withdraw(p, d) \in ToMapMsg /\ Withdraw(p, d).kind = "withdraw"
                         /\ Withdraw(p, d).party = p /\ Withdraw(p, d).who = d
    BY <1>2, ToMapMade DEF Withdraw
  <1>6. CASE Answer(s, <<>>, none) /\ UNCHANGED party_db_
    <2>1. \A i \in DOMAIN none : /\ none[i].kind \in {"created", "auth", "reg"} \/ none[i].party = p
                                 /\ Honest(none[i], p, party_db_[p])
                                 /\ party_db_[p] # None => none[i] \notin Wrong(p, party_db_[p].exp)
      BY <1>4
    <2>2. none \in Seq(ToMapMsg) /\ toChar[s] # <<>>
      BY <1>1, <1>4
    <2> HIDE DEF p, m
    <2> QED BY <1>2, <1>6, <2>1, <2>2, Told0
  <1>7. CASE Known(p) /\ c \in DOMAIN P.member /\ Put(p, None) /\ Answer(s, all1, none)
    <2>1. P \in Parties
      BY <1>7, KnownFacts, Zenon
    <2>2. S \subseteq Chars /\ IsFiniteSet(S)
      <3>1. DOMAIN P.member \subseteq Chars
        BY <2>1, RosterFacts DEF Parties
      <3> QED BY <3>1, FS_Subset DEF ConstantsOK
    <2> HIDE DEF S
    <2>3. others \in Seq(Chars)
      <3>1. SetToSeq(S) \in Seq(S)
        BY <2>2, Listed
      <3>2. SetToSeq(S) \in Seq(Chars)
        BY <2>2, <3>1, SeqMonotonic
      <3> QED BY <3>2
    <2> HIDE DEF others
    <2> DEFINE N == Truths(p, None)
    <2>4. \A d \in Chars : Withdraw(p, d) \in N
      <3> TAKE d \in Chars
      <3> DEFINE x == Withdraw(p, d)
      <3>1. x \in ToMapMsg /\ x.kind = "withdraw" /\ x.party = p
        BY <1>5
      <3> HIDE DEF x
      <3>2. x \in N
        BY <3>1 DEF Truths, Honest, InfosOf, OutsOf, MovedOf, Members
      <3> QED BY <3>2 DEF x
    <2>5. end \in N /\ end \in EndsOf(p)
      <3>1. end \in ToMapMsg /\ end.kind = "broken" /\ end.party = p
        BY <1>2, ToMapMade DEF Broken
      <3> HIDE DEF end
      <3> QED BY <3>1 DEF Truths, Honest, InfosOf, OutsOf, MovedOf, EndsOf
    <2>6. Known(p) /\ Put(p, None) /\ Answer(s, all1, none) /\ P = party_db_[p] /\ toChar[s] # <<>>
      BY <1>1, <1>7
    <2> HIDE DEF N, end, P, p, m, c
    <2>7. each \in Seq(N)
      <3>1. \A i \in DOMAIN others : others[i] \in Chars
        BY <2>3
      <3>2. \A i \in DOMAIN others : Withdraw(p, others[i]) \in N
        BY <2>4, <3>1
      <3>3. DOMAIN others = 1 .. Len(others) /\ Len(others) \in Nat
        BY <2>3, LenProperties
      <3> QED BY <3>2, <3>3
    <2>8. <<out>> \in Seq(N) /\ <<end>> \in Seq(N)
      BY <1>2, <2>4, <2>5
    <2> DEFINE start == <<out>> \o each
    <2>9. start \in Seq(N)
      <3> HIDE DEF each, out
      <3> QED BY <2>7, <2>8, ConcatProperties, Zenon
    <2>10. all1 = start \o <<end>>
      OBVIOUS
    <2> HIDE DEF all1, start
    <2>11. all1 \in Seq(N) /\ all1 \in Seq(ToMapMsg) /\ start \in Seq(ToMapMsg)
      <3>1. all1 \in Seq(N)
        BY <2>8, <2>9, <2>10, ConcatProperties, Zenon
      <3> QED BY <2>9, <3>1, TruthsAre, SeqMonotonic DEF N
    <2>12. Announced(P, None, all1, p)
      <3>1. end \in ToMapMsg
        BY <2>5 DEF EndsOf
      <3> DEFINE B == {}
      <3>3. end \notin B
        OBVIOUS
      <3> HIDE DEF B
      <3>2. Says(start \o <<end>>, EndsOf(p))
        BY <2>5, <2>11, <3>1, <3>3, Lasts
      <3> QED BY <2>10, <3>2 DEF Announced
    <2> QED BY <1>4, <2>6, <2>11, <2>12, KnownTurns, Zenon DEF N
  <1>8. CASE Known(p) /\ c \in DOMAIN P.member /\ Put(p, Q) /\ Answer(s, all2, none)
    <2>1. P \in Parties
      BY <1>8, KnownFacts
    <2>2. Q \in Parties /\ Q # None /\ DOMAIN Q.member = DOMAIN P.member \ {c}
      <3> HIDE DEF P, c
      <3>1. Without(P, c) \in Parties /\ DOMAIN Without(P, c).member = DOMAIN P.member \ {c}
        BY <1>8, <2>1, WithoutFacts
      <3> QED BY <3>1 DEF ConstantsOK
    <2> HIDE DEF Q
    <2>3. info \in Truths(p, Q) /\ info \in InfosOf(p) /\ info.exp = Q.exp
      <3> HIDE DEF p
      <3> QED BY <1>2, <2>2, InfoTrue
    <2>4. before \in Seq(Truths(p, Q))
      <3> HIDE DEF p, P
      <3> QED BY <1>2, <2>1, <2>2, DroppedFacts
    <2>5. out \in Truths(p, Q)
      <3>1. out \in ToMapMsg /\ out.kind = "withdraw" /\ out.party = p /\ out.who = c
        BY <1>2, <1>5
      <3> HIDE DEF out, p, c
      <3> QED BY <2>2, <3>1 DEF Truths, Honest, InfosOf, OutsOf, MovedOf, Members
    <2>6. Known(p) /\ Put(p, Q) /\ Answer(s, all2, none) /\ toChar[s] # <<>> /\ P = party_db_[p]
      BY <1>1, <1>8
    <2> HIDE DEF p, P, m, c, out, info, before
    <2> DEFINE start == <<out>> \o before
    <2>7. <<out>> \in Seq(Truths(p, Q)) /\ <<info>> \in Seq(Truths(p, Q))
      BY <2>3, <2>5, One
    <2>8. start \in Seq(Truths(p, Q))
      BY <2>4, <2>7, ConcatProperties, Zenon
    <2>9. all2 = start \o <<info>>
      OBVIOUS
    <2> HIDE DEF all2, start
    <2>10. all2 \in Seq(Truths(p, Q)) /\ all2 \in Seq(ToMapMsg) /\ start \in Seq(ToMapMsg)
      <3>1. all2 \in Seq(Truths(p, Q))
        BY <2>7, <2>8, <2>9, ConcatProperties, Zenon
      <3> QED BY <2>8, <3>1, TruthsAre, SeqMonotonic
    <2>11. Announced(P, Q, all2, p)
      BY <2>2, <2>3, <2>9, <2>10, AnnouncedByInfo
    <2> QED BY <1>4, <2>6, <2>10, <2>11, KnownTurns
  <1> HIDE DEF all1, all2, m, p, P, Q, c
  <1> QED BY <1>3, <1>6, <1>7, <1>8

LEMMA LeaderChangeTurns ==
  ASSUME ConstantsOK, Types, NEW s \in Servers, PartyLeaderChange(s)
  PROVE  Turns
  <1> DEFINE m == Head(toChar[s])
             p == m.party
             P == party_db_[p]
             led == [c \in DOMAIN P.member |-> [P.member[c] EXCEPT !.leader = c = m.who]]
             Q == [P EXCEPT !.member = led]
             none == <<>>
  <1>1. toChar[s] # <<>> /\ Answer(s, <<>>, none)
    BY HeardFacts DEF PartyLeaderChange
  <1>2. \/ Known(p) /\ Put(p, Q)
        \/ UNCHANGED party_db_
    BY DEF PartyLeaderChange
  <1>3. /\ \A q : none \in Seq(q)
        /\ DOMAIN none = {}
        /\ none \o none = none
    BY ConcatEmptySeq
  <1>4. CASE UNCHANGED party_db_
    <2>1. none \in Seq(Createds \cup RegMsgs)
      BY <1>3
    <2> HIDE DEF none
    <2> QED BY <1>1, <1>4, <2>1, NoPartyTurns
  <1>5. CASE Known(p) /\ Put(p, Q)
    <2>1. P \in Parties
      BY <1>5, KnownFacts
    <2>2. Known(p) /\ P = party_db_[p]
      BY <1>5
    <2> HIDE DEF P, p
    <2>3. P.member \in Rosters
      BY <2>1 DEF Parties
    <2>4. /\ DOMAIN led = DOMAIN P.member
          /\ \A c \in DOMAIN P.member : led[c].online = P.member[c].online
      <3>1. \A c \in DOMAIN P.member : P.member[c] \in Member
        BY <2>3, RosterFacts
      <3> QED BY <3>1 DEF Member
    <2> HIDE DEF led
    <2>5. Q # None /\ Q.member = led /\ Q.exp = P.exp
      <3>1. Q.member = led /\ Q.exp = P.exp
        BY <2>1 DEF Parties
      <3>2. Put(p, Q) /\ p \in Ids
        BY <1>5 DEF Known
      <3>3. led \in Rosters
        <4> SUFFICES led \in [DOMAIN led -> Member] /\ DOMAIN led \subseteq Chars
          BY RosterFacts
        <4>1. \A c \in DOMAIN P.member, b \in BOOLEAN : [P.member[c] EXCEPT !.leader = b] \in Member
          BY <2>3, RosterFacts DEF Member
        <4>2. \A c \in DOMAIN P.member : [P.member[c] EXCEPT !.leader = c = m.who] \in Member
          <5> TAKE c \in DOMAIN P.member
          <5>1. (c = m.who) \in BOOLEAN
            OBVIOUS
          <5> QED BY <4>1, <5>1, Zenon
        <4>3. DOMAIN led \subseteq Chars
          BY <2>3, <2>4, RosterFacts
        <4> QED BY <4>2, <4>3 DEF led
      <3>4. Q \in Parties
        BY <2>1, <3>3 DEF Parties
      <3> QED BY <3>1, <3>4 DEF ConstantsOK
    <2>6. Put(p, Q)
      BY <1>5
    <2> HIDE DEF Q, none
    <2>7. Announced(P, Q, none, p)
      <3>1. Calm(none, Wrong(p, Q.exp), Right(p, Q.exp))
        BY <1>3 DEF Calm
      <3> QED BY <2>4, <2>5, <3>1 DEF Announced
    <2>8. none \in Seq(Truths(p, Q))
      BY <1>3
    <2>9. Answer(s, none, none)
      BY <1>1 DEF none
    <2>10. Announced(party_db_[p], Q, none, p) /\ Announced(party_db_[p], Q, none \o none, p)
      BY <1>3, <2>2, <2>7
    <2> QED BY <1>1, <2>2, <2>6, <2>8, <2>9, <2>10, KnownTurns
  <1> QED BY <1>2, <1>4, <1>5

LEMMA ChangeMapTurns ==
  ASSUME ConstantsOK, Types, NEW s \in Servers, PartyChangeMap(s)
  PROVE  Turns
  <1> DEFINE m == Head(toChar[s])
             c == m.who
             p == m.party
             P == party_db_[p]
             Q == Shown(P, c, m.online, m.lv)
             R == Levelled(Q, c, m.lv)
             news == Moved(p, Q, c)
             change == IF P.member[c].online # m.online THEN <<news>> ELSE <<>>
             a == Dropped(p, P, Q)
             b == Dropped(p, Q, R)
             none == <<>>
             all == a \o change \o b
  <1>1. toChar[s] # <<>> /\ m \in MoveMsgs
    BY HeardFacts, ToCharKinds DEF PartyChangeMap
  <1>2. c \in Chars /\ p \in Ids /\ m.online \in BOOLEAN /\ m.lv \in 1 .. TopLevel
    BY <1>1 DEF MoveMsgs
  <1>3. \/ Known(p) /\ c \in DOMAIN P.member /\ Put(p, R) /\ Answer(s, all, none)
        \/ Answer(s, <<>>, none) /\ UNCHANGED party_db_
    BY DEF PartyChangeMap
  <1>4. /\ \A q : none \in Seq(q)
        /\ DOMAIN none = {}
        /\ \A q \in Seq(ToMapMsg) : q \o none = q
    BY ConcatEmptySeq
  <1>5. CASE Answer(s, <<>>, none) /\ UNCHANGED party_db_
    <2>1. none \in Seq(Createds \cup RegMsgs)
      BY <1>4
    <2> HIDE DEF none
    <2> QED BY <1>1, <1>5, <2>1, NoPartyTurns
  <1>6. CASE Known(p) /\ c \in DOMAIN P.member /\ Put(p, R) /\ Answer(s, all, none)
    <2>1. P \in Parties
      BY <1>6, KnownFacts, Zenon
    <2> DEFINE online == m.online
               lv == m.lv
    <2>2. /\ c \in DOMAIN P.member /\ c \in Chars /\ online \in BOOLEAN /\ lv \in 1 .. TopLevel
          /\ Q = Shown(P, c, online, lv) /\ R = Levelled(Q, c, lv)
          /\ change = IF P.member[c].online # online THEN <<news>> ELSE <<>>
      BY <1>2, <1>6, Zenon
    <2>3. /\ Known(p) /\ Put(p, R) /\ Answer(s, all, none) /\ toChar[s] # <<>> /\ P = party_db_[p]
          /\ p \in Ids
      BY <1>1, <1>2, <1>6, Zenon
    <2> HIDE DEF none, change, Q, R, P, p, c, online, lv, m
    <2>4. /\ Q \in Parties /\ DOMAIN Q.member = DOMAIN P.member /\ Q.member[c].online = online
          /\ \A d \in DOMAIN P.member \ {c} : Q.member[d] = P.member[d]
          /\ Q.exp => P.exp
      BY <2>1, <2>2, ShownFacts
    <2>5. /\ R \in Parties /\ DOMAIN R.member = DOMAIN P.member /\ R.member[c].online = online
          /\ \A d \in DOMAIN P.member \ {c} : R.member[d] = P.member[d]
          /\ R.exp => Q.exp
      <3>1. /\ R \in Parties /\ DOMAIN R.member = DOMAIN Q.member
            /\ R.member[c].online = Q.member[c].online
            /\ \A d \in DOMAIN Q.member \ {c} : R.member[d] = Q.member[d]
            /\ R.exp => Q.exp
        BY <2>2, <2>4, LevelledFacts
      <3> QED BY <2>4, <3>1
    <2>6. R # None
      BY <2>5 DEF ConstantsOK
    <2>7. /\ news \in ToMapMsg /\ news \in MovedOf(p, c) /\ news.kind = "moved"
          /\ news.party = p /\ news.who = c /\ news.online = online
      <3>1. news \in ToMapMsg
        BY <2>2, <2>3, <2>4, ToMapMade
      <3>2. news.kind = "moved" /\ news.party = p /\ news.who = c /\ news.online = online
        BY <2>4 DEF Moved
      <3> QED BY <3>1, <3>2 DEF MovedOf
    <2> HIDE DEF news
    <2>8. news \in Truths(p, R)
      <3>1. \A d \in Chars : news \in MovedOf(p, d) => d = c
        BY <2>7 DEF MovedOf
      <3>2. c \in Members(R) /\ R.member[c].online = online
        BY <2>2, <2>5, <2>6 DEF Members
      <3>3. news \notin InfosOf(p) /\ \A d \in Chars : news \notin OutsOf(p, d)
        BY <2>7 DEF InfosOf, OutsOf
      <3> QED BY <2>7, <3>1, <3>2, <3>3 DEF Truths, Honest
    <2>0. a = Dropped(p, P, Q) /\ b = Dropped(p, Q, R)
      OBVIOUS
    <2> HIDE DEF a, b
    <2>9. /\ a \in Seq(Truths(p, R))
          /\ \A i \in DOMAIN a : a[i] \in Right(p, FALSE)
          /\ P.exp /\ ~Q.exp => Says(a, Right(p, FALSE))
          /\ ~(P.exp /\ ~Q.exp) => DOMAIN a = {}
      BY <2>0, <2>1, <2>3, <2>4, DroppedFacts
    <2>10. /\ b \in Seq(Truths(p, R))
           /\ \A i \in DOMAIN b : b[i] \in Right(p, FALSE)
           /\ Q.exp /\ ~R.exp => Says(b, Right(p, FALSE))
           /\ ~(Q.exp /\ ~R.exp) => DOMAIN b = {}
      BY <2>0, <2>3, <2>4, <2>5, DroppedFacts
    <2>11. /\ change \in Seq(Truths(p, R))
           /\ \A i \in DOMAIN change : change[i].kind = "moved"
           /\ P.member[c].online # online => Says(change, MovedOf(p, c))
      <3>1. CASE P.member[c].online # online
        <4> DEFINE one == <<news>>
        <4>1. one \in Seq(Truths(p, R)) /\ (\A i \in DOMAIN one : one[i] = news) /\ 1 \in DOMAIN one
          BY <2>8
        <4>2. change = one
          BY <2>2, <3>1
        <4> HIDE DEF one
        <4> QED BY <2>7, <4>1, <4>2 DEF Says
      <3>2. CASE ~(P.member[c].online # online)
        <4>1. change = none
          BY <2>2, <3>2 DEF none
        <4> QED BY <1>4, <3>2, <4>1
      <3> QED BY <3>1, <3>2
    <2>12. a \in Seq(ToMapMsg) /\ b \in Seq(ToMapMsg) /\ change \in Seq(ToMapMsg)
      BY <2>9, <2>10, <2>11, TruthsAre, SeqMonotonic
    <2> DEFINE start == a \o change
    <2>13. start \in Seq(Truths(p, R)) /\ start \in Seq(ToMapMsg)
      <3>1. start \in Seq(Truths(p, R))
        BY <2>9, <2>11, ConcatProperties, Zenon
      <3> QED BY <3>1, TruthsAre, SeqMonotonic
    <2>14. \A G : /\ Says(a, G) => Says(start, G)
                  /\ Says(change, G) => Says(start, G)
      BY <2>12, SaysMore
    <2>15. all = start \o b
      OBVIOUS
    <2> HIDE DEF start, all
    <2>16. all \in Seq(Truths(p, R)) /\ all \in Seq(ToMapMsg)
      <3>1. all \in Seq(Truths(p, R))
        BY <2>10, <2>13, <2>15, ConcatProperties, Zenon
      <3> QED BY <3>1, TruthsAre, SeqMonotonic
    <2>17. \A G : /\ Says(start, G) => Says(all, G)
                  /\ Says(b, G) => Says(all, G)
      BY <2>12, <2>13, <2>15, SaysMore
    <2>18. \A d \in DOMAIN P.member \cap DOMAIN R.member :
             P.member[d].online # R.member[d].online => Says(all, InfosOf(p) \cup MovedOf(p, d))
      <3> TAKE d \in DOMAIN P.member \cap DOMAIN R.member
      <3> HAVE P.member[d].online # R.member[d].online
      <3>1. d = c
        BY <2>5
      <3>2. Says(change, MovedOf(p, c))
        BY <2>5, <2>11, <3>1
      <3>3. Says(all, MovedOf(p, c))
        BY <2>14, <2>17, <3>2
      <3>4. MovedOf(p, c) \subseteq InfosOf(p) \cup MovedOf(p, c)
        OBVIOUS
      <3>5. Says(all, InfosOf(p) \cup MovedOf(p, c))
        BY <3>3, <3>4, SaysWider
      <3> QED BY <3>1, <3>5
    <2>19. P.exp # R.exp => R.exp = FALSE /\ Says(all, Right(p, FALSE))
      <3> SUFFICES ASSUME P.exp # R.exp PROVE R.exp = FALSE /\ Says(all, Right(p, FALSE))
        OBVIOUS
      <3>1. P.exp /\ ~R.exp /\ R.exp = FALSE
        BY <2>1, <2>4, <2>5 DEF Parties
      <3>2. CASE ~Q.exp
        BY <2>9, <2>14, <2>17, <3>1, <3>2
      <3>3. CASE Q.exp
        BY <2>10, <2>17, <3>1, <3>3
      <3> QED BY <3>1, <3>2, <3>3
    <2>20. Calm(all, Wrong(p, R.exp), Right(p, R.exp))
      <3>1. CASE R.exp = FALSE
        <4> DEFINE B == Wrong(p, FALSE)
                   G == Right(p, FALSE)
        <4>1. /\ \A i \in DOMAIN a : a[i] \notin B
              /\ \A i \in DOMAIN b : b[i] \notin B
              /\ \A i \in DOMAIN change : change[i] \notin B
          BY <2>9, <2>10, <2>11 DEF Wrong, Right, InfosOf, OptionsOf
        <4> HIDE DEF B, G
        <4>2. Calm(a, B, G) /\ Calm(b, B, G) /\ Calm(change, B, G)
          BY <4>1, NoneSays
        <4>3. Calm(a \o change, B, G)
          BY <2>12, <4>2, CalmMore
        <4>4. Calm(start \o b, B, G)
          BY <2>12, <2>13, <4>2, <4>3, CalmMore DEF start
        <4> QED BY <2>15, <3>1, <4>4 DEF B, G
      <3>2. CASE R.exp = TRUE
        <4>1. P.exp /\ Q.exp /\ R.exp
          BY <2>4, <2>5, <3>2
        <4>2. DOMAIN a = {} /\ DOMAIN b = {}
          BY <2>9, <2>10, <4>1
        <4> DEFINE B == Wrong(p, R.exp)
                   G == Right(p, R.exp)
        <4>3. /\ \A i \in DOMAIN a : a[i] \notin B
              /\ \A i \in DOMAIN b : b[i] \notin B
              /\ \A i \in DOMAIN change : change[i] \notin B
          BY <1>4, <2>11, <4>2 DEF Wrong, InfosOf, OptionsOf
        <4> HIDE DEF B, G
        <4>4. Calm(a, B, G) /\ Calm(b, B, G) /\ Calm(change, B, G)
          BY <4>3, NoneSays
        <4>5. Calm(a \o change, B, G)
          BY <2>12, <4>4, CalmMore
        <4>6. Calm(start \o b, B, G)
          BY <2>12, <2>13, <4>4, <4>5, CalmMore DEF start
        <4> QED BY <2>15, <4>6 DEF B, G
      <3>3. R.exp \in BOOLEAN
        BY <2>5 DEF Parties
      <3> QED BY <3>1, <3>2, <3>3
    <2>21. Announced(P, R, all, p)
      BY <2>5, <2>6, <2>18, <2>19, <2>20 DEF Announced
    <2>22. Announced(party_db_[p], R, all, p) /\ Announced(party_db_[p], R, all \o none, p)
      BY <1>4, <2>3, <2>16, <2>21
    <2>23. none \in Seq(Truths(p, R))
      BY <1>4
    <2> QED BY <2>3, <2>16, <2>22, <2>23, KnownTurns
  <1> HIDE DEF all, none, m, p, P, Q, R, c
  <1> QED BY <1>3, <1>5, <1>6

LEMMA ChangeOptionTurns ==
  ASSUME ConstantsOK, Types, NEW s \in Servers, PartyChangeOption(s)
  PROVE  Turns
  <1> DEFINE m == Head(toChar[s])
             p == m.party
             P == party_db_[p]
             Q == IF Cardinality(DOMAIN P.member) \in {2, 3} THEN int_party_calc_state(P) ELSE P
             denied == m.exp /\ ~party_check_exp_share(Q)
             R == [Q EXCEPT !.exp = m.exp /\ ~denied]
             o == Option(p, R, denied)
             a == Dropped(p, P, Q)
             none == <<>>
             one == <<o>>
             all1 == a \o one
             all2 == a \o none
  <1>1. toChar[s] # <<>> /\ m \in OptionMsgs
    BY HeardFacts, ToCharKinds, Zenon DEF PartyChangeOption
  <1>2. p \in Ids /\ m.exp \in BOOLEAN
    BY <1>1 DEF OptionMsgs
  <1>0. \/ Known(p) /\ Put(p, R) /\ ~denied /\ Answer(s, all1, none)
        \/ Known(p) /\ Put(p, R) /\ denied /\ Answer(s, all2, one)
        \/ Answer(s, <<>>, none) /\ UNCHANGED party_db_
    BY Zenon DEF PartyChangeOption
  <1>3. \/ /\ Known(p) /\ Put(p, R)
           /\ (~denied /\ Answer(s, all1, none)) \/ (denied /\ Answer(s, all2, one))
        \/ Answer(s, <<>>, none) /\ UNCHANGED party_db_
    BY <1>0, Zenon
  <1>4. /\ \A q : none \in Seq(q)
        /\ DOMAIN none = {}
        /\ \A q \in Seq(ToMapMsg) : q \o none = q
    BY ConcatEmptySeq
  <1>5. CASE Answer(s, <<>>, none) /\ UNCHANGED party_db_
    <2>1. none \in Seq(Createds \cup RegMsgs)
      BY <1>4
    <2> HIDE DEF none
    <2> QED BY <1>1, <1>5, <2>1, NoPartyTurns
  <1>6. CASE /\ Known(p) /\ Put(p, R)
             /\ (~denied /\ Answer(s, all1, none)) \/ (denied /\ Answer(s, all2, one))
    <2>1. P \in Parties /\ Known(p) /\ P = party_db_[p] /\ p \in Ids /\ Put(p, R)
      BY <1>2, <1>6, KnownFacts, Zenon
    <2>2. Q \in Parties /\ Q.member = P.member /\ (Q.exp => P.exp) /\ (Sound(P) => Sound(Q))
      <3>1. CASE Cardinality(DOMAIN P.member) \in {2, 3}
        <4>1. Q = int_party_calc_state(P)
          BY <3>1
        <4> HIDE DEF P, Q
        <4> QED BY <2>1, <4>1, Calculated
      <3>2. CASE ~(Cardinality(DOMAIN P.member) \in {2, 3})
        BY <2>1, <3>2
      <3> QED BY <3>1, <3>2
    <2>3. denied \in BOOLEAN
      BY DEF party_check_exp_share
    <2>4. denied => ~party_check_exp_share(Q)
      OBVIOUS
    <2> HIDE DEF P, Q, denied
    <2> DEFINE e == m.exp /\ ~denied
    <2>5. e \in BOOLEAN
      BY <1>2, <2>3
    <2>6. denied => e = FALSE
      OBVIOUS
    <2>0. R = [Q EXCEPT !.exp = e]
      OBVIOUS
    <2> HIDE DEF e, m, p, R
    <2>7. R \in Parties /\ R.member = P.member /\ R.exp = e /\ R # None
      <3>1. R \in Parties /\ R.member = P.member /\ R.exp = e
        BY <2>0, <2>2, <2>5 DEF Parties
      <3> QED BY <3>1 DEF ConstantsOK
    <2>8. /\ o \in ToMapMsg /\ o.kind = "option" /\ o.party = p /\ o.denied = denied /\ o.exp = e
      <3>1. o = [kind |-> "option", party |-> p, exp |-> e, denied |-> denied]
        BY <2>7 DEF Option
      <3> HIDE DEF o
      <3>2. o \in Options
        BY <2>1, <2>3, <2>5, <3>1 DEF Options
      <3> QED BY <3>1, <3>2 DEF ToMapMsg
    <2>9. /\ denied => o \notin OptionsOf(p)
          /\ ~denied => o \in OptionsOf(p)
          /\ o \notin InfosOf(p)
          /\ \A c : o \notin OutsOf(p, c) /\ o \notin MovedOf(p, c)
      <3> HIDE DEF o
      <3> QED BY <2>8 DEF OptionsOf, InfosOf, OutsOf, MovedOf
    <2>10. a = Dropped(p, P, Q)
      OBVIOUS
    <2> HIDE DEF o, a, none
    <2>11. /\ a \in Seq(Truths(p, R))
           /\ \A i \in DOMAIN a : a[i] \in Right(p, FALSE)
           /\ P.exp /\ ~Q.exp => Says(a, Right(p, FALSE))
           /\ ~(P.exp /\ ~Q.exp) => DOMAIN a = {}
      BY <2>1, <2>2, <2>10, DroppedFacts
    <2>12. a \in Seq(ToMapMsg)
      BY <2>11, TruthsAre, SeqMonotonic
    <2>13. o \in Truths(p, R)
      BY <2>8, <2>9 DEF Truths, Honest
    <2>14. one \in Seq(Truths(p, R)) /\ one \in Seq(ToMapMsg) /\ \A i \in DOMAIN one : one[i] = o
      BY <2>8, <2>13
    <2>15. \A n : (Sound(P) => /\ Calm(n, Wrong(p, R.exp), Right(p, R.exp))
                               /\ P.exp # R.exp => Says(n, Right(p, R.exp)))
                  => Announced(P, R, n, p)
      BY <2>7 DEF Announced
    <2>16. CASE ~denied /\ Answer(s, all1, none)
      <3>1. o \in Right(p, R.exp) /\ o \notin Wrong(p, R.exp)
        BY <2>7, <2>8, <2>9, <2>16 DEF Right, Wrong
      <3>2. Says(all1, Right(p, R.exp)) /\ Calm(all1, Wrong(p, R.exp), Right(p, R.exp))
        BY <2>8, <2>12, <3>1, Lasts
      <3>3. all1 \in Seq(Truths(p, R))
        BY <2>11, <2>14, ConcatProperties, Zenon
      <3> HIDE DEF all1, one
      <3>4. Announced(P, R, all1, p)
        BY <2>15, <3>2
      <3>5. all1 \in Seq(ToMapMsg) /\ none \in Seq(Truths(p, R))
        BY <1>4, <3>3, TruthsAre, SeqMonotonic
      <3>6. Announced(party_db_[p], R, all1, p) /\ Announced(party_db_[p], R, all1 \o none, p)
        BY <1>4, <2>1, <3>4, <3>5
      <3>7. Answer(s, all1, none) /\ toChar[s] # <<>>
        BY <1>1, <2>16
      <3> QED BY <2>1, <3>3, <3>5, <3>6, <3>7, KnownTurns
    <2>17. CASE denied /\ Answer(s, all2, one)
      <3>1. R.exp = FALSE
        BY <2>6, <2>7, <2>17
      <3>2. all2 = a
        BY <1>4, <2>12
      <3>3. ASSUME Sound(P)
            PROVE  /\ Calm(a, Wrong(p, FALSE), Right(p, FALSE))
                   /\ P.exp # R.exp => Says(a, Right(p, FALSE))
        <4>1. \A i \in DOMAIN a : a[i] \notin Wrong(p, FALSE)
          BY <2>11 DEF Right, Wrong
        <4>2. ~Q.exp
          BY <2>2, <2>4, <2>17, <3>3 DEF Sound
        <4>3. P.exp # R.exp => P.exp
          BY <2>1, <3>1 DEF Parties
        <4> QED BY <2>11, <4>1, <4>2, <4>3, NoneSays
      <3>4. Announced(P, R, a, p)
        <4>1. R.exp = FALSE => Wrong(p, R.exp) = Wrong(p, FALSE) /\ Right(p, R.exp) = Right(p, FALSE)
          OBVIOUS
        <4>2. Sound(P) => (/\ Calm(a, Wrong(p, R.exp), Right(p, R.exp))
                           /\ P.exp # R.exp => Says(a, Right(p, R.exp)))
          BY <3>1, <3>3, <4>1
        <4> QED BY <2>15, <4>2
      <3>5. \A i \in DOMAIN one : one[i] \notin Wrong(p, R.exp)
        BY <2>9, <2>14, <2>17 DEF Wrong
      <3>6. Announced(P, R, a \o one, p)
        BY <2>12, <2>14, <3>4, <3>5, AnnouncedMore
      <3>7. Answer(s, a, one) /\ toChar[s] # <<>>
        BY <1>1, <2>17, <3>2
      <3> HIDE DEF one
      <3>8. Announced(party_db_[p], R, a, p) /\ Announced(party_db_[p], R, a \o one, p)
        BY <2>1, <3>4, <3>6
      <3> QED BY <2>1, <2>11, <2>14, <3>7, <3>8, KnownTurns
    <2> QED BY <1>6, <2>16, <2>17
  <1> HIDE DEF all1, all2, one, none, m, p, P, Q, R, denied
  <1> QED BY <1>3, <1>5, <1>6

-----------------------------------------------------------------------------
(* Every step is a turn: the map-servers'. *)
Telling == {"info", "noinfo", "broken", "option", "withdraw", "moved"}

LEMMA HeedsNot ==
  ASSUME NEW C, NEW m, NEW p, m.kind \in Telling => m.party # p
  PROVE  Heeds(C, C, m, p)
  <1>1. m \notin InfosOf(p) /\ m \notin EndsOf(p) /\ m \notin OptionsOf(p)
    BY DEF InfosOf, EndsOf, OptionsOf, Telling
  <1>2. \A c : m \notin OutsOf(p, c) /\ m \notin MovedOf(p, c)
    BY DEF OutsOf, MovedOf, Telling
  <1> QED BY <1>1, <1>2 DEF Heeds

LEMMA NoCopyTurns ==
  ASSUME Types, NEW s \in Servers, NEW packets, Handled(s, packets), UNCHANGED party_db,
         toMap[s] # <<>>, Head(toMap[s]).kind \notin Telling
  PROVE  Turns
  <1>1. toMap' = [toMap EXCEPT ![s] = Tail(toMap[s])] /\ UNCHANGED party_db_
    BY DEF Handled, charVars
  <1>2. \A p \in Ids : Heeds(party_db[s][p], party_db[s][p], Head(toMap[s]), p)
    BY HeedsNot
  <1>3. \A t \in Servers \ {s}, p \in Ids : SameCopy(party_db[t][p], party_db[t][p])
    BY SameSelf
  <1>4. party_db' = party_db
    OBVIOUS
  <1> QED BY <1>1, <1>2, <1>3, <1>4, HeardTurns

LEMMA OneCopyTurns ==
  ASSUME Types, NEW s \in Servers, NEW packets, Handled(s, packets),
         toMap[s] # <<>>, NEW p \in Ids, Head(toMap[s]).party = p,
         NEW C, party_db' = [party_db EXCEPT ![s][p] = C],
         Heeds(party_db[s][p], C, Head(toMap[s]), p)
  PROVE  Turns
  <1>1. toMap' = [toMap EXCEPT ![s] = Tail(toMap[s])] /\ UNCHANGED party_db_
    BY DEF Handled, charVars
  <1>2. /\ party_db'[s][p] = C
        /\ \A t \in Servers, q \in Ids : t # s \/ q # p => party_db'[t][q] = party_db[t][q]
    <2>1. party_db \in [Servers -> [Ids -> Copies \cup {None}]]
      BY DEF Types, Shape
    <2> QED BY <2>1
  <1>3. ASSUME NEW q \in Ids
        PROVE  Heeds(party_db[s][q], party_db'[s][q], Head(toMap[s]), q)
    <2>1. CASE q = p
      BY <1>2, <2>1
    <2>2. CASE q # p
      <3>1. Heeds(party_db[s][q], party_db[s][q], Head(toMap[s]), q)
        BY <2>2, HeedsNot
      <3> QED BY <1>2, <2>2, <3>1
    <2> QED BY <2>1, <2>2
  <1>4. \A t \in Servers \ {s}, q \in Ids : SameCopy(party_db[t][q], party_db'[t][q])
    BY <1>2, SameSelf
  <1> QED BY <1>1, <1>3, <1>4, HeardTurns

LEMMA BrokenTurns ==
  ASSUME ConstantsOK, Types, NEW s \in Servers, party_broken(s) \/ party_recv_noinfo(s)
  PROVE  Turns
  <1> DEFINE m == Head(toMap[s])
             p == m.party
  <1>1. /\ Handled(s, <<>>) /\ party_db' = [party_db EXCEPT ![s][p] = None]
        /\ Told(s, "broken") \/ Told(s, "noinfo")
    BY DEF party_broken, party_recv_noinfo
  <1>2. toMap[s] # <<>> /\ m \in Brokens \cup NoInfos
    BY <1>1, ToldFacts, ToMapKinds
  <1>3. p \in Ids
    BY <1>2 DEF Brokens, NoInfos
  <1>4. Heeds(party_db[s][p], None, m, p)
    BY <1>2, <1>3 DEF Heeds, EndsOf, InfosOf, Brokens, NoInfos, ToMapMsg
  <1> HIDE DEF p
  <1> QED BY <1>1, <1>2, <1>3, <1>4, OneCopyTurns DEF p

LEMMA OptionTurns ==
  ASSUME ConstantsOK, Types, NEW s \in Servers, party_optionchanged(s)
  PROVE  Turns
  <1> DEFINE m == Head(toMap[s])
             p == m.party
             old == party_db[s][p]
             C == IF old = None \/ m.denied THEN old ELSE [old EXCEPT !.exp = m.exp]
  <1>1. toMap[s] # <<>> /\ m \in Options
    BY ToldFacts, ToMapKinds DEF party_optionchanged
  <1>2. p \in Ids /\ m.kind = "option"
    BY <1>1 DEF Options
  <1>3. party_db' = [party_db EXCEPT ![s][p] = C] /\ Handled(s, <<>>)
    BY DEF party_optionchanged
  <1>4. old \in Copies \cup {None}
    BY <1>2 DEF Types, Shape
  <1>5. /\ m \notin InfosOf(p) /\ m \notin EndsOf(p)
        /\ \A c : m \notin OutsOf(p, c) /\ m \notin MovedOf(p, c)
        /\ m \in OptionsOf(p) <=> ~m.denied
    BY <1>1, <1>2 DEF InfosOf, EndsOf, OutsOf, MovedOf, OptionsOf, ToMapMsg
  <1>6. Heeds(old, C, m, p)
    <2> HIDE DEF m, p, old
    <2>1. CASE old = None
      BY <1>5, <2>1 DEF Heeds
    <2>2. CASE old # None /\ m.denied
      BY <1>5, <2>2 DEF Heeds
    <2>3. CASE old # None /\ ~m.denied
      <3>1. C.exp = m.exp /\ C.member = old.member /\ C # None
        BY <1>1, <1>4, <2>3 DEF Copies, ConstantsOK, Options
      <3> QED BY <1>5, <2>3, <3>1 DEF Heeds
    <2> QED BY <2>1, <2>2, <2>3
  <1> HIDE DEF C, p
  <1> QED BY <1>1, <1>2, <1>3, <1>6, OneCopyTurns DEF p

LEMMA RecvInfoTurns ==
  ASSUME ConstantsOK, Types, NEW s \in Servers, party_recv_info(s)
  PROVE  Turns
  <1> DEFINE m == Head(toMap[s])
             p == m.party
  <1>1. toMap[s] # <<>> /\ m \in Infos
    BY ToldFacts, ToMapKinds DEF party_recv_info
  <1>2. p \in Ids /\ m \in ToMapMsg /\ m.kind = "info"
    BY <1>1 DEF Infos, ToMapMsg
  <1>3. PICK d, packets : /\ Handled(s, packets)
                          /\ party_db' = [party_db EXCEPT ![s][p] =
                               [member |-> m.member, exp |-> m.exp, data |-> d]]
                          /\ d \subseteq DOMAIN m.member
    BY Zenon DEF party_recv_info, Belongs
  <1> DEFINE C == [member |-> m.member, exp |-> m.exp, data |-> d]
  <1>4. C # None /\ C.exp = m.exp /\ C.member = m.member
    <2>1. d \subseteq Chars
      BY <1>1, <1>3, RosterFacts DEF Infos
    <2>2. C \in Copies
      BY <1>1, <2>1 DEF Infos, Copies
    <2> QED BY <2>2 DEF ConstantsOK
  <1>5. Heeds(party_db[s][p], C, m, p)
    <2>1. m \in InfosOf(p) /\ m \notin EndsOf(p)
      BY <1>2 DEF InfosOf, EndsOf
    <2> HIDE DEF C
    <2> QED BY <1>4, <2>1 DEF Heeds
  <1>6. party_db' = [party_db EXCEPT ![s][p] = C]
    BY <1>3
  <1> HIDE DEF C, p
  <1> QED BY <1>1, <1>2, <1>3, <1>5, <1>6, OneCopyTurns, Zenon DEF p

LEMMA WithdrawTurns ==
  ASSUME ConstantsOK, Types, NEW s \in Servers, party_member_withdraw(s)
  PROVE  Turns
  <1> DEFINE m == Head(toMap[s])
             p == m.party
             old == party_db[s][p]
             C == IF old = None THEN old ELSE Forgotten(old, m.who)
  <1>1. toMap[s] # <<>> /\ m \in Withdraws
    BY ToldFacts, ToMapKinds DEF party_member_withdraw
  <1>2. p \in Ids /\ m.kind = "withdraw" /\ m.who \in Chars /\ m \in ToMapMsg
    BY <1>1 DEF Withdraws, ToMapMsg
  <1>3. party_db' = [party_db EXCEPT ![s][p] = C] /\ Handled(s, <<>>)
    BY DEF party_member_withdraw
  <1>4. old \in Copies \cup {None}
    BY <1>2 DEF Types, Shape
  <1>5. /\ m \notin InfosOf(p) /\ m \notin EndsOf(p) /\ m \notin OptionsOf(p)
        /\ \A c : m \notin MovedOf(p, c)
        /\ \A c \in Chars : m \in OutsOf(p, c) <=> c = m.who
    BY <1>2 DEF InfosOf, EndsOf, OutsOf, MovedOf, OptionsOf
  <1>6. Heeds(old, C, m, p)
    <2> HIDE DEF m, p, old
    <2>1. CASE old = None
      BY <1>5, <2>1 DEF Heeds
    <2>2. CASE old # None
      <3>1. C = Forgotten(old, m.who) /\ old \in Copies
        BY <1>4, <2>2
      <3> HIDE DEF C
      <3>2. /\ C \in Copies /\ C.exp = old.exp /\ DOMAIN C.member = DOMAIN old.member \ {m.who}
            /\ \A d \in DOMAIN old.member \ {m.who} : C.member[d] = old.member[d]
        BY <3>1, ForgottenFacts
      <3>3. C # None
        BY <3>2 DEF ConstantsOK
      <3> QED BY <1>5, <2>2, <3>2, <3>3 DEF Heeds
    <2> QED BY <2>1, <2>2
  <1> HIDE DEF C, p
  <1> QED BY <1>1, <1>2, <1>3, <1>6, OneCopyTurns DEF p

LEMMA MovemapTurns ==
  ASSUME ConstantsOK, Types, NEW s \in Servers, party_recv_movemap(s)
  PROVE  Turns
  <1> DEFINE m == Head(toMap[s])
             p == m.party
             c == m.who
             old == party_db[s][p]
             sds == Belongs(player, s, p, {c})
             D == Retold(old, m, sds)
  <1>1. toMap[s] # <<>> /\ m \in Moveds
    BY ToldFacts, ToMapKinds DEF party_recv_movemap
  <1>2. p \in Ids /\ c \in Chars /\ m.kind = "moved" /\ m \in ToMapMsg
    BY <1>1 DEF Moveds, ToMapMsg
  <1>3. PICK packets :
          /\ Handled(s, packets)
          /\ \/ /\ old = None \/ c \notin DOMAIN old.member
                /\ UNCHANGED party_db
             \/ /\ old # None /\ c \in DOMAIN old.member
                /\ party_db' = [party_db EXCEPT ![s][p] = D]
    BY DEF party_recv_movemap, Copy
  <1>4. old \in Copies \cup {None} /\ party_db \in [Servers -> [Ids -> Copies \cup {None}]]
    BY <1>2 DEF Types, Shape
  <1>5. /\ m \notin InfosOf(p) /\ m \notin EndsOf(p) /\ m \notin OptionsOf(p)
        /\ \A d : m \notin OutsOf(p, d)
        /\ \A d : m \in MovedOf(p, d) <=> d = c
    BY <1>2 DEF InfosOf, EndsOf, OutsOf, MovedOf, OptionsOf
  <1>6. CASE (old = None \/ c \notin DOMAIN old.member) /\ UNCHANGED party_db
    <2>1. party_db' = [party_db EXCEPT ![s][p] = old]
      BY <1>2, <1>4, <1>6
    <2>2. Heeds(old, old, m, p)
      <3> HIDE DEF m, p, old, c
      <3> QED BY <1>5, <1>6 DEF Heeds
    <2> HIDE DEF p
    <2> QED BY <1>1, <1>2, <1>3, <2>1, <2>2, OneCopyTurns, Zenon DEF p
  <1>7. CASE old # None /\ c \in DOMAIN old.member /\ party_db' = [party_db EXCEPT ![s][p] = D]
    <2>1. old \in Copies
      BY <1>4, <1>7
    <2>2. Heeds(old, D, m, p)
      <3> HIDE DEF old, m, p
      <3>1. sds \in SUBSET Chars
        BY <1>2 DEF Belongs
      <3> HIDE DEF sds
      <3>2. /\ D \in Copies /\ D.exp = old.exp
            /\ DOMAIN D.member = DOMAIN old.member
            /\ D.member[m.who].online = m.online
            /\ \A d \in DOMAIN old.member \ {m.who} : D.member[d] = old.member[d]
        BY <1>1, <1>7, <2>1, <3>1, RetoldFacts
      <3>3. D # None
        BY <3>2 DEF ConstantsOK
      <3> HIDE DEF D
      <3> QED BY <1>5, <1>7, <3>2, <3>3 DEF Heeds
    <2> HIDE DEF p, D
    <2> QED BY <1>1, <1>2, <1>3, <1>7, <2>2, OneCopyTurns DEF p
  <1> QED BY <1>3, <1>6, <1>7

LEMMA TidingTurns ==
  ASSUME ConstantsOK, Types, NEW s \in Servers,
         auth_ok(s) \/ pc_reg_received(s) \/ party_created(s) \/ party_member_added(s)
  PROVE  Turns
  <1>1. \E packets : Handled(s, packets)
    BY Zenon DEF auth_ok, pc_reg_received, party_created, party_member_added
  <1>2. /\ UNCHANGED party_db
        /\ Told(s, "auth") \/ Told(s, "reg") \/ Told(s, "created") \/ Told(s, "added")
    BY Zenon DEF auth_ok, pc_reg_received, party_created, party_member_added
  <1>3. toMap[s] # <<>> /\ Head(toMap[s]).kind \notin Telling
    BY <1>2 DEF Told, Telling
  <1> QED BY <1>1, <1>2, <1>3, NoCopyTurns

LEMMA CrashTurns ==
  ASSUME ConstantsOK, Types, NEW s \in Servers, Crash(s)
  PROVE  Turns
  <1>1. /\ party_db' = [party_db EXCEPT ![s] = [p \in Ids |-> None]]
        /\ toMap' = [toMap EXCEPT ![s] = <<>>] /\ party_db_' = party_db_
    BY DEF Crash, charVars
  <1>2. /\ toMap'[s] = <<>> /\ \A p \in Ids : party_db'[s][p] = None
        /\ \A t \in Servers : t # s => toMap'[t] = toMap[t] /\ party_db'[t] = party_db[t]
    BY <1>1 DEF Types, Shape
  <1> SUFFICES ASSUME NEW t \in Servers, NEW p \in Ids
               PROVE  Turn(party_db[t][p], toMap[t], party_db_[p], party_db'[t][p], toMap'[t],
                           party_db_'[p], p)
    BY DEF Turns
  <1>3. CASE t = s
    BY <1>1, <1>2, <1>3 DEF Turn
  <1>4. CASE t # s
    <2>1. toMap[t] \in Seq(ToMapMsg)
      BY DEF Types, Shape
    <2>2. toMap'[t] = toMap[t] \o <<>>
      BY <1>2, <1>4, <2>1, ConcatEmptySeq
    <2>3. <<>> \in Seq(ToMapMsg) /\ DOMAIN <<>> = {}
      OBVIOUS
    <2> DEFINE n == <<>>
    <2> HIDE DEF n
    <2>4. SameCopy(party_db[t][p], party_db'[t][p])
      BY <1>2, <1>4, SameSelf
    <2> QED BY <1>1, <2>2, <2>3, <2>4, NothingNew DEF n
  <1> QED BY <1>3, <1>4

-----------------------------------------------------------------------------
(* Every step is a turn: the players'. *)
LEMMA RequestTurns ==
  ASSUME Types, NEW s, NEW packets, Request(s, packets) \/ UNCHANGED <<charVars, toMap>>,
         party_db' = party_db
  PROVE  Turns
  <1>1. UNCHANGED <<party_db_, toMap>>
    BY DEF Request, charVars
  <1>2. \A t \in Servers, p \in Ids : SameCopy(party_db[t][p], party_db'[t][p])
    BY SameSelf
  <1> QED BY <1>1, <1>2, ActTurns2

LEMMA RedoneTurns ==
  ASSUME Types, NEW s \in Servers, NEW packets, Request(s, packets), NEW p \in Ids, NEW D,
         SameCopy(party_db[s][p], D), party_db' = [party_db EXCEPT ![s][p] = D]
  PROVE  Turns
  <1>1. UNCHANGED <<party_db_, toMap>>
    BY DEF Request, charVars
  <1>2. /\ party_db'[s][p] = D
        /\ \A t \in Servers, q \in Ids : t # s \/ q # p => party_db'[t][q] = party_db[t][q]
    <2>1. party_db \in [Servers -> [Ids -> Copies \cup {None}]]
      BY DEF Types, Shape
    <2> QED BY <2>1
  <1>3. \A t \in Servers, q \in Ids : SameCopy(party_db[t][q], party_db'[t][q])
    BY <1>2, SameSelf
  <1> QED BY <1>1, <1>3, ActTurns2

LEMMA RelinkedTurns ==
  ASSUME ConstantsOK, Types, NEW c \in Chars, party_member_joined(c) \/ map_quit(c)
  PROVE  Turns
  <1> DEFINE s == player[c].at
             p == player[c].party_id
             C == party_db[s][p]
  <1>1. player[c].state \in {"reg", "map"}
    BY DEF party_member_joined, map_quit
  <1>2. PICK packets : Request(s, packets)
    BY DEF party_member_joined, map_quit
  <1>3. \/ party_db' = party_db
        \/ Mine(c) # None /\ \E d \in SUBSET Chars : party_db' = [party_db EXCEPT ![s][p].data = d]
    <2>1. Mine(c) # None => Mine(c) = C /\ Mine(c) \in Copies
      BY <1>1, MineFacts
    <2>2. Mine(c) # None => C.data \cup {c} \in SUBSET Chars /\ C.data \ {c} \in SUBSET Chars
      BY <2>1 DEF Copies
    <2> QED BY <2>2, Zenon DEF party_member_joined, map_quit, Unlinked
  <1>4. CASE party_db' = party_db
    BY <1>2, <1>4, RequestTurns
  <1>5. CASE Mine(c) # None /\ \E d \in SUBSET Chars : party_db' = [party_db EXCEPT ![s][p].data = d]
    <2>1. PICK d \in SUBSET Chars : party_db' = [party_db EXCEPT ![s][p].data = d]
      BY <1>5
    <2> DEFINE D == [C EXCEPT !.data = d]
    <2>2. s \in Servers /\ p \in Ids /\ C \in Copies
      BY <1>1, <1>5, InGame, MineFacts
    <2>3. SameCopy(C, D)
      <3> HIDE DEF C
      <3>1. D.exp = C.exp /\ D.member = C.member /\ D \in Copies
        BY <2>1, <2>2 DEF Copies
      <3> QED BY <2>2, <3>1 DEF SameCopy, ConstantsOK
    <2>4. party_db' = [party_db EXCEPT ![s][p] = D]
      BY <2>1
    <2> HIDE DEF D, s, p
    <2> QED BY <1>2, <2>2, <2>3, <2>4, RedoneTurns DEF s, p
  <1> QED BY <1>3, <1>4, <1>5

LEMMA RelabelledTurns ==
  ASSUME ConstantsOK, Types, NEW c \in Chars, NEW t \in Chars, party_changeleader(c, t)
  PROVE  Turns
  <1> DEFINE s == player[c].at
             p == player[c].party_id
             C == party_db[s][p]
             D == Relabelled(C, c, t)
  <1>1. \E packets : Request(s, packets)
    BY Zenon DEF party_changeleader
  <1>2. /\ s \in Servers /\ p \in Ids /\ C \in Copies /\ c \in DOMAIN C.member
        /\ party_db' = [party_db EXCEPT ![s][p] = D]
    BY LeaderCopy
  <1>3. SameCopy(C, D)
    <2> HIDE DEF C
    <2>1. D = Relabelled(C, c, t)
      OBVIOUS
    <2> HIDE DEF D
    <2>2. /\ D \in Copies /\ D.exp = C.exp /\ DOMAIN D.member = DOMAIN C.member
          /\ \A d \in DOMAIN C.member : D.member[d].online = C.member[d].online
      BY <1>2, <2>1, RelabelFacts
    <2> QED BY <1>2, <2>2 DEF SameCopy, ConstantsOK
  <1> HIDE DEF D, s, p
  <1> QED BY <1>1, <1>2, <1>3, RedoneTurns, Zenon DEF s, p

LEMMA ReqAuthTurns ==
  ASSUME ConstantsOK, Types, NEW c \in Chars, NEW s \in Servers, chmapif_parse_reqauth(c, s)
  PROVE  Turns
  <1> DEFINE m == [kind |-> "auth", who |-> c, party |-> row[c]]
  <1>1. /\ toMap' = [toMap EXCEPT ![s] = Append(toMap[s], m)]
        /\ UNCHANGED <<party_db_, party_db>>
    BY DEF chmapif_parse_reqauth, charVars, mapVars
  <1>2. m \in Auths
    BY DEF Auths, Types, Shape
  <1> HIDE DEF m
  <1>3. ASSUME NEW t \in Servers PROVE \E n \in Seq(Auths) : toMap'[t] = toMap[t] \o n
    <2> DEFINE q == toMap[t]
    <2>1. q \in Seq(ToMapMsg) /\ toMap \in [Servers -> Seq(ToMapMsg)]
      BY DEF Types, Shape
    <2>2. CASE t = s
      <3>1. toMap'[t] = Append(q, m)
        BY <1>1, <2>1, <2>2
      <3>2. m \in ToMapMsg
        BY <1>2 DEF ToMapMsg
      <3> HIDE DEF q
      <3>3. Append(q, m) = q \o <<m>>
        BY <2>1, <3>2
      <3>4. <<m>> \in Seq(Auths)
        BY <1>2, One
      <3> QED BY <3>1, <3>3, <3>4 DEF q
    <2>3. CASE t # s
      <3>1. toMap'[t] = q
        BY <1>1, <2>1, <2>3
      <3> HIDE DEF q
      <3>2. q = q \o <<>> /\ <<>> \in Seq(Auths)
        BY <2>1, ConcatEmptySeq
      <3> QED BY <3>1, <3>2 DEF q
    <2> QED BY <2>2, <2>3
  <1>4. \A t \in Servers, p \in Ids : SameCopy(party_db[t][p], party_db'[t][p])
    BY <1>1, SameSelf
  <1> QED BY <1>1, <1>3, <1>4, ActTurns

LEMMA AskTurns ==
  ASSUME Types, NEW c \in Chars, NEW t \in Chars,
         \/ clif_parse_LoadEndAck(c) \/ party_create(c) \/ party_leave(c) \/ pc_autosave(c)
         \/ \E accepts \in BOOLEAN : party_reply_invite(c, accepts)
         \/ \E exp \in BOOLEAN : party_changeoption(c, exp)
         \/ \E n \in Leap : party_send_levelup(c, n)
         \/ party_invite(c, t) \/ party_removemember(c, t)
  PROVE  Turns
  <1> DEFINE s == player[c].at
  <1>1. party_db' = party_db
    BY DEF clif_parse_LoadEndAck, party_create, party_leave, pc_autosave, party_reply_invite,
           party_changeoption, party_send_levelup, party_invite, party_removemember, mapVars
  <1>2. (\E packets : Request(s, packets)) \/ UNCHANGED <<charVars, toMap>>
    BY DEF clif_parse_LoadEndAck, party_create, party_leave, pc_autosave, party_reply_invite,
           party_changeoption, party_send_levelup, party_invite, party_removemember
  <1> QED BY <1>1, <1>2, RequestTurns

LEMMA EveryTurn ==
  ASSUME ConstantsOK, Types, [Next]_vars
  PROVE  Turns
  <1>1. ASSUME NEW s \in Servers, CharServer(s) PROVE Turns
    BY <1>1, CreateTurns, PartyInfoTurns, AddMemberTurns, ChangeOptionTurns, LeaveTurns,
       ChangeMapTurns, LeaderChangeTurns, SaveTurns, RegistryTurns DEF CharServer
  <1>2. ASSUME NEW s \in Servers, MapServer(s) PROVE Turns
    BY <1>2, TidingTurns, RecvInfoTurns, BrokenTurns, WithdrawTurns, CrashTurns, OptionTurns,
       MovemapTurns DEF MapServer
  <1>3. ASSUME NEW c \in Chars, Client(c) PROVE Turns
    BY <1>3, ReqAuthTurns, RelinkedTurns, RelabelledTurns, AskTurns DEF Client
  <1>4. CASE UNCHANGED vars
    <2>1. UNCHANGED <<charVars, toMap>> /\ party_db' = party_db
      BY <1>4 DEF vars, mapVars
    <2> QED BY <2>1, RequestTurns
  <1> QED BY <1>1, <1>2, <1>3, <1>4 DEF Next

-----------------------------------------------------------------------------
(* The copies show the members of a party and who of them is in the game,  *)
(* or will: by the time all messages are handled.                          *)
Agreed == \A s \in Servers, p \in Ids :
  /\ AgreeThere(party_db[s][p], toMap[s], party_db_[p], p)
  /\ \A c \in Chars : /\ AgreeIn(party_db[s][p], toMap[s], party_db_[p], p, c)
                      /\ AgreeOut(party_db[s][p], toMap[s], party_db_[p], p, c)
                      /\ AgreeOnline(party_db[s][p], toMap[s], party_db_[p], p, c)

AgreedExp == \A s \in Servers, p \in Ids :
  AgreeExp(party_db[s][p], toMap[s], party_db_[p], p)

(* How it all begins. *)
LEMMA InitFacts ==
  ASSUME ConstantsOK, Init
  PROVE  /\ \A s \in Servers : toMap[s] = <<>> /\ toChar[s] = <<>>
         /\ \A p \in Ids : party_db_[p] # None =>
              Sound(party_db_[p])
         /\ \A s \in Servers, p \in Ids : party_db[s][p] # None =>
              /\ party_db_[p] # None /\ party_db[s][p].exp = party_db_[p].exp
              /\ party_db[s][p].member = party_db_[p].member
         /\ \A c \in Chars : player[c].invite = 0 /\ player[c].joining = FALSE
  <1> DEFINE ros(place, founders) ==
           [c \in founders |-> [leader |-> c = Chief, online |-> place[c] # None,
                                lv |-> StartLevel[c]]]
  <1>1. PICK place \in Places, founders \in Founders :
          LET P == Founded(ros(place, founders))
              here(s) == {c \in founders : place[c] = s}
              copy(s) == [member |-> P.member, exp |-> P.exp, data |-> here(s)]
              home(c) == IF c \in founders THEN 1 ELSE 0
          IN  /\ party_db_ = [p \in Ids |-> IF p = 1 THEN P ELSE None]
              /\ party_db = [s \in Servers |->
                              [p \in Ids |-> IF p = 1 /\ here(s) # {} THEN copy(s) ELSE None]]
              /\ player = [c \in Chars |->
                            IF place[c] = None THEN Away
                            ELSE [Away EXCEPT !.at = place[c], !.state = "map", !.told = TRUE,
                                              !.party_id = home(c)]]
              /\ toChar = [s \in Servers |-> <<>>]
              /\ toMap = [s \in Servers |-> <<>>]
    BY DEF Init
  <1> DEFINE members == ros(place, founders)
             P == Founded(members)
  <1>2. members \in Rosters
    <2>0. founders \subseteq Chars /\ StartLevel \in [Chars -> 1 .. TopLevel]
      BY DEF ConstantsOK
    <2>1. \A c \in founders : members[c] \in Member
      <3> TAKE c \in founders
      <3>1. StartLevel[c] \in 1 .. TopLevel
        BY <2>0
      <3>2. \A x, y \in BOOLEAN : [leader |-> x, online |-> y, lv |-> StartLevel[c]] \in Member
        BY <3>1 DEF Member
      <3>3. (c = Chief) \in BOOLEAN /\ (place[c] # None) \in BOOLEAN
        OBVIOUS
      <3>4. [leader |-> c = Chief, online |-> place[c] # None, lv |-> StartLevel[c]] \in Member
        BY <3>2, <3>3, Zenon
      <3> QED BY <3>4
    <2>2. DOMAIN members \subseteq Chars /\ DOMAIN members = founders
      BY <2>0
    <2>3. members = [c \in founders |-> members[c]]
      OBVIOUS
    <2> HIDE DEF members
    <2>4. members \in [DOMAIN members -> Member]
      BY <2>1, <2>2, <2>3
    <2> QED BY <2>1, <2>2, <2>4, RosterFacts
  <1>3. P.member = members /\ Sound(P)
    <2> HIDE DEF members
    <2> QED BY <1>2, FoundedFacts
  <1> HIDE DEF members
  <1>5. /\ \A p \in Ids : party_db_[p] # None => party_db_[p] = P
        /\ \A s \in Servers, p \in Ids : party_db[s][p] # None =>
             /\ p = 1 /\ party_db_[p] = P
             /\ party_db[s][p].exp = P.exp /\ party_db[s][p].member = P.member
    BY <1>1 DEF members
  <1>6. P # None
    <2> P \in Parties
      BY <1>2, FoundedFacts
    <2> QED BY DEF ConstantsOK
  <1>7. \A c \in Chars : player[c].invite = 0 /\ player[c].joining = FALSE
    BY <1>1 DEF Away
  <1>8. \A s \in Servers : toMap[s] = <<>> /\ toChar[s] = <<>>
    BY <1>1
  <1> QED BY <1>3, <1>5, <1>6, <1>7, <1>8

LEMMA AgreedFirst ==
  ASSUME NEW C, NEW q, q = <<>>, NEW P, NEW p,
         C # None => P # None /\ C.exp = P.exp /\ C.member = P.member
  PROVE  /\ AgreeThere(C, q, P, p) /\ AgreeExp(C, q, P, p)
         /\ \A c \in Chars : /\ AgreeIn(C, q, P, p, c) /\ AgreeOut(C, q, P, p, c)
                             /\ AgreeOnline(C, q, P, p, c)
  <1>1. \A B, G : Calm(q, B, G)
    BY DEF Calm
  <1> QED BY <1>1 DEF AgreeThere, AgreeExp, AgreeIn, AgreeOut, AgreeOnline, Members

LEMMA AgreedInit ==
  ASSUME ConstantsOK, Init
  PROVE  Agreed /\ AgreedExp
  <1> SUFFICES ASSUME NEW s \in Servers, NEW p \in Ids
               PROVE  /\ AgreeThere(party_db[s][p], toMap[s], party_db_[p], p)
                      /\ AgreeExp(party_db[s][p], toMap[s], party_db_[p], p)
                      /\ \A c \in Chars :
                           /\ AgreeIn(party_db[s][p], toMap[s], party_db_[p], p, c)
                           /\ AgreeOut(party_db[s][p], toMap[s], party_db_[p], p, c)
                           /\ AgreeOnline(party_db[s][p], toMap[s], party_db_[p], p, c)
    BY DEF Agreed, AgreedExp
  <1> DEFINE C == party_db[s][p]
             P == party_db_[p]
             q == toMap[s]
  <1>1. q = <<>> /\ (C # None => P # None /\ C.exp = P.exp /\ C.member = P.member)
    BY InitFacts
  <1> HIDE DEF C, P, q
  <1>2. /\ AgreeThere(C, q, P, p) /\ AgreeExp(C, q, P, p)
        /\ \A c \in Chars : /\ AgreeIn(C, q, P, p, c) /\ AgreeOut(C, q, P, p, c)
                            /\ AgreeOnline(C, q, P, p, c)
    BY <1>1, AgreedFirst
  <1> QED BY <1>2 DEF C, P, q

LEMMA AgreedKept ==
  ASSUME ConstantsOK, Types, Agreed, [Next]_vars
  PROVE  Agreed'
  <1> SUFFICES ASSUME NEW s \in Servers, NEW p \in Ids
               PROVE  /\ AgreeThere(party_db'[s][p], toMap'[s], party_db_'[p], p)
                      /\ \A c \in Chars :
                           /\ AgreeIn(party_db'[s][p], toMap'[s], party_db_'[p], p, c)
                           /\ AgreeOut(party_db'[s][p], toMap'[s], party_db_'[p], p, c)
                           /\ AgreeOnline(party_db'[s][p], toMap'[s], party_db_'[p], p, c)
    BY DEF Agreed
  <1> DEFINE C == party_db[s][p]
             P == party_db_[p]
             q == toMap[s]
  <1>1. PICK D, Q, r : D = party_db'[s][p] /\ Q = party_db_'[p] /\ r = toMap'[s]
    OBVIOUS
  <1>2. Turn(C, q, P, D, r, Q, p)
    BY <1>1, EveryTurn DEF Turns
  <1>3. C \in Copies \cup {None} /\ q \in Seq(ToMapMsg)
    BY DEF Types, Shape
  <1>4. /\ AgreeThere(C, q, P, p)
        /\ \A c \in Chars : /\ AgreeIn(C, q, P, p, c) /\ AgreeOut(C, q, P, p, c)
                            /\ AgreeOnline(C, q, P, p, c)
    BY DEF Agreed
  <1> HIDE DEF C, P, q
  <1>5. AgreeThere(D, r, Q, p)
    BY <1>2, <1>3, <1>4, ThereKept
  <1>6. ASSUME NEW c \in Chars
        PROVE  AgreeIn(D, r, Q, p, c) /\ AgreeOut(D, r, Q, p, c) /\ AgreeOnline(D, r, Q, p, c)
    <2>0. AgreeIn(C, q, P, p, c) /\ AgreeOut(C, q, P, p, c) /\ AgreeOnline(C, q, P, p, c)
      BY <1>4
    <2>1. AgreeIn(D, r, Q, p, c)
      BY <1>2, <1>3, <2>0, InKept
    <2>2. AgreeOut(D, r, Q, p, c)
      BY <1>2, <1>3, <2>0, OutKept
    <2>3. AgreeOnline(D, r, Q, p, c)
      BY <1>2, <1>3, <2>0, OnlineKept
    <2> QED BY <2>1, <2>2, <2>3
  <1> QED BY <1>1, <1>5, <1>6

LEMMA AgreedQuiet ==
  ASSUME Types, Agreed, Quiet, NEW s \in Servers, NEW p \in Ids, Copy(s, p) # None
  PROVE  /\ Known(p)
         /\ DOMAIN Copy(s, p).member = DOMAIN party_db_[p].member
         /\ \A c \in DOMAIN Copy(s, p).member :
              Copy(s, p).member[c].online = party_db_[p].member[c].online
  <1> DEFINE C == party_db[s][p]
             P == party_db_[p]
             q == toMap[s]
  <1>1. /\ C # None /\ \A G : ~Says(q, G)
        /\ C \in Copies /\ (P # None => P \in Parties)
    BY DEF Copy, Quiet, Says, Types, Shape
  <1>2. /\ AgreeThere(C, q, P, p)
        /\ \A c \in Chars : /\ AgreeIn(C, q, P, p, c) /\ AgreeOut(C, q, P, p, c)
                            /\ AgreeOnline(C, q, P, p, c)
    BY DEF Agreed
  <1> HIDE DEF C, P, q
  <1>3. P # None
    BY <1>1, <1>2 DEF AgreeThere
  <1>4. \A c \in Chars : c \in DOMAIN C.member <=> c \in DOMAIN P.member
    BY <1>1, <1>2, <1>3 DEF AgreeIn, AgreeOut, Members
  <1>5. DOMAIN C.member \subseteq Chars /\ DOMAIN P.member \subseteq Chars
    BY <1>1, <1>3, RosterFacts DEF Copies, Parties
  <1>6. \A c \in DOMAIN C.member : C.member[c].online = P.member[c].online
    BY <1>1, <1>2, <1>3, <1>4, <1>5 DEF AgreeOnline, Members
  <1> QED BY <1>3, <1>4, <1>5, <1>6 DEF C, P, Copy, Known

-----------------------------------------------------------------------------
(* The order of the messages in a link that moves on. *)
Once(q, A) == \A i, j \in DOMAIN q : q[i] \in A /\ q[j] \in A => i = j
Before(q, A, B) == \A i, j \in DOMAIN q : q[i] \in A /\ q[j] \in B => i < j
Then(q, G, K) == \E g, k \in DOMAIN q : g < k /\ q[g] \in G /\ q[k] \in K
CalmThen(q, B, G, K) == \A b \in DOMAIN q : q[b] \in B =>
  \E g, k \in DOMAIN q : b < g /\ g < k /\ q[g] \in G /\ q[k] \in K

LEMMA NoNewLess ==
  ASSUME NEW q, NEW r, NEW A, NoNew(q, r, A), NEW B, B \subseteq A
  PROVE  NoNew(q, r, B)
  BY DEF NoNew

LEMMA NoNewFacts ==
  ASSUME NEW T, NEW q \in Seq(T), NEW r \in Seq(T), NEW A, NoNew(q, r, A)
  PROVE  /\ Says(r, A) => Says(q, A)
         /\ Once(q, A) => Once(r, A)
         /\ \A G : Calm(q, A, G) => Calm(r, A, G)
         /\ \A B : Before(q, A, B) => Before(r, A, B)
  <1>0. CASE r = <<>>
    BY <1>0 DEF Says, Once, Calm, Before
  <1>1. CASE r # <<>>
    <2>1. PICK k \in {0, 1} :
            /\ \A i \in DOMAIN q : i > k => i - k \in DOMAIN r /\ r[i - k] = q[i]
            /\ \A i \in DOMAIN r : IF i + k \in DOMAIN q THEN r[i] = q[i + k] ELSE r[i] \notin A
      BY <1>1 DEF NoNew
    <2>2. /\ DOMAIN q = 1 .. Len(q) /\ DOMAIN r = 1 .. Len(r)
          /\ Len(q) \in Nat /\ Len(r) \in Nat /\ k \in Int
      BY LenProperties
    <2>3. \A i \in DOMAIN r : r[i] \in A => i + k \in DOMAIN q /\ r[i] = q[i + k]
      BY <2>1
    <2>4. Says(r, A) => Says(q, A)
      BY <2>3 DEF Says
    <2>5. ASSUME Once(q, A) PROVE Once(r, A)
      <3> SUFFICES ASSUME NEW i \in DOMAIN r, NEW j \in DOMAIN r, r[i] \in A, r[j] \in A
                   PROVE  i = j
        BY DEF Once
      <3>1. i + k = j + k
        BY <2>3, <2>5 DEF Once
      <3> QED BY <2>2, <3>1
    <2>6. ASSUME NEW G, Calm(q, A, G) PROVE Calm(r, A, G)
      <3> SUFFICES ASSUME NEW b \in DOMAIN r, r[b] \in A
                   PROVE  \E g \in DOMAIN r : g > b /\ r[g] \in G
        BY DEF Calm
      <3>1. b + k \in DOMAIN q /\ q[b + k] \in A
        BY <2>3
      <3>2. PICK g \in DOMAIN q : g > b + k /\ q[g] \in G
        BY <2>6, <3>1 DEF Calm
      <3>3. g > k /\ g - k > b
        BY <2>2, <3>2
      <3> QED BY <2>1, <3>2, <3>3
    <2>7. ASSUME NEW B, Before(q, A, B) PROVE Before(r, A, B)
      <3> SUFFICES ASSUME NEW i \in DOMAIN r, NEW j \in DOMAIN r, r[i] \in A, r[j] \in B
                   PROVE  i < j
        BY DEF Before
      <3>1. i + k \in DOMAIN q /\ q[i + k] \in A
        BY <2>3
      <3>2. CASE j + k \in DOMAIN q
        <4>1. q[j + k] \in B
          BY <2>1, <3>2
        <4>2. i + k < j + k
          BY <2>7, <3>1, <3>2, <4>1 DEF Before
        <4> QED BY <2>2, <4>2
      <3>3. CASE j + k \notin DOMAIN q
        BY <2>2, <3>1, <3>3
      <3> QED BY <3>2, <3>3
    <2> QED BY <2>4, <2>5, <2>6, <2>7
  <1> QED BY <1>0, <1>1

LEMMA TailOnce ==
  ASSUME NEW T, NEW q \in Seq(T), q # <<>>, NEW A, Once(q, A), Head(q) \in A
  PROVE  ~Says(Tail(q), A)
  <1>1. /\ 1 \in DOMAIN q /\ Head(q) = q[1]
        /\ \A i \in DOMAIN Tail(q) : i + 1 \in DOMAIN q /\ Tail(q)[i] = q[i + 1]
    BY Taken
  <1>2. \A i \in DOMAIN Tail(q) : i \in Nat /\ i >= 1
    BY EmptySeq, HeadTailProperties, LenProperties
  <1> SUFFICES ASSUME NEW i \in DOMAIN Tail(q), Tail(q)[i] \in A PROVE FALSE
    BY DEF Says
  <1>3. i + 1 = 1
    BY <1>1 DEF Once
  <1> QED BY <1>2, <1>3

LEMMA OnceMore ==
  ASSUME NEW T, NEW q \in Seq(T), NEW n \in Seq(T), NEW A, ~Says(q, A)
  PROVE  /\ Once(n, A) => Once(q \o n, A)
         /\ ~Says(n, A) => ~Says(q \o n, A)
  <1> DEFINE u == q \o n
  <1>1. \A i \in DOMAIN u : i \in DOMAIN q \/ (i - Len(q) \in DOMAIN n /\ u[i] = n[i - Len(q)])
    BY Added2
  <1>2. \A i \in DOMAIN q : u[i] = q[i]
    BY Added2
  <1>3. \A i \in DOMAIN u : u[i] \in A => i - Len(q) \in DOMAIN n /\ n[i - Len(q)] \in A
    BY <1>1, <1>2 DEF Says
  <1>4. Len(q) \in Nat /\ \A i \in DOMAIN u : i \in Int
    BY LenProperties, ConcatProperties
  <1> HIDE DEF u
  <1>5. ASSUME Once(n, A) PROVE Once(u, A)
    <2> SUFFICES ASSUME NEW i \in DOMAIN u, NEW j \in DOMAIN u, u[i] \in A, u[j] \in A
                 PROVE  i = j
      BY DEF Once
    <2>1. i - Len(q) = j - Len(q)
      BY <1>3, <1>5 DEF Once
    <2> QED BY <1>4, <2>1
  <1>6. ASSUME ~Says(n, A) PROVE ~Says(u, A)
    BY <1>3, <1>6 DEF Says
  <1> QED BY <1>5, <1>6 DEF u

LEMMA OneSays ==
  ASSUME NEW x, NEW A
  PROVE  /\ Once(<<x>>, A)
         /\ Says(<<x>>, A) <=> x \in A
         /\ ~Says(<<>>, A)
  <1>1. DOMAIN <<x>> = {1} /\ <<x>>[1] = x /\ DOMAIN <<>> = {}
    OBVIOUS
  <1> QED BY <1>1 DEF Says, Once

LEMMA ThenMore ==
  ASSUME NEW T, NEW q \in Seq(T), NEW n \in Seq(T), NEW B, NEW G, NEW K,
         \A i \in DOMAIN n : n[i] \notin B
  PROVE  /\ Then(q, G, K) => Then(q \o n, G, K)
         /\ CalmThen(q, B, G, K) => CalmThen(q \o n, B, G, K)
         /\ Says(n, K) /\ Says(q, G) => Then(q \o n, G, K)
         /\ Says(n, K) /\ Calm(q, B, G) => CalmThen(q \o n, B, G, K)
  <1> DEFINE u == q \o n
  <1>1. /\ \A i \in DOMAIN q : i \in DOMAIN u /\ u[i] = q[i]
        /\ \A j \in DOMAIN n : Len(q) + j \in DOMAIN u /\ u[Len(q) + j] = n[j]
        /\ \A i \in DOMAIN u : i \in DOMAIN q \/ (i - Len(q) \in DOMAIN n /\ u[i] = n[i - Len(q)])
    BY Added2
  <1>2. DOMAIN q = 1 .. Len(q) /\ Len(q) \in Nat /\ DOMAIN n = 1 .. Len(n) /\ Len(n) \in Nat
    BY LenProperties
  <1> HIDE DEF u
  <1>3. \A b \in DOMAIN u : u[b] \in B => b \in DOMAIN q /\ q[b] \in B
    BY <1>1
  <1>4. Then(q, G, K) => Then(u, G, K)
    BY <1>1 DEF Then
  <1>5. ASSUME CalmThen(q, B, G, K) PROVE CalmThen(u, B, G, K)
    <2> SUFFICES ASSUME NEW b \in DOMAIN u, u[b] \in B
                 PROVE  \E g, k \in DOMAIN u : b < g /\ g < k /\ u[g] \in G /\ u[k] \in K
      BY DEF CalmThen
    <2>1. PICK g, k \in DOMAIN q : b < g /\ g < k /\ q[g] \in G /\ q[k] \in K
      BY <1>3, <1>5 DEF CalmThen
    <2> QED BY <1>1, <2>1
  <1>6. ASSUME Says(n, K) PROVE \E k \in DOMAIN u : u[k] \in K /\ \A g \in DOMAIN q : g < k
    <2>1. PICK j \in DOMAIN n : n[j] \in K
      BY <1>6 DEF Says
    <2>2. \A g \in DOMAIN q : g < Len(q) + j
      BY <1>2
    <2> QED BY <1>1, <2>1, <2>2
  <1>7. ASSUME Says(n, K), Says(q, G) PROVE Then(u, G, K)
    <2>1. PICK k \in DOMAIN u : u[k] \in K /\ \A g \in DOMAIN q : g < k
      BY <1>6, <1>7
    <2> QED BY <1>1, <1>7, <2>1 DEF Says, Then
  <1>8. ASSUME Says(n, K), Calm(q, B, G) PROVE CalmThen(u, B, G, K)
    <2>1. PICK k \in DOMAIN u : u[k] \in K /\ \A g \in DOMAIN q : g < k
      BY <1>6, <1>8
    <2> SUFFICES ASSUME NEW b \in DOMAIN u, u[b] \in B
                 PROVE  \E g, h \in DOMAIN u : b < g /\ g < h /\ u[g] \in G /\ u[h] \in K
      BY DEF CalmThen
    <2>2. PICK g \in DOMAIN q : g > b /\ q[g] \in G
      BY <1>3, <1>8 DEF Calm
    <2>3. b < g
      BY <1>2, <1>3, <2>2
    <2> QED BY <1>1, <2>1, <2>2, <2>3
  <1> QED BY <1>4, <1>5, <1>7, <1>8 DEF u

LEMMA ThenTail ==
  ASSUME NEW T, NEW q \in Seq(T), q # <<>>, NEW B, NEW G, NEW K
  PROVE  /\ CalmThen(q, B, G, K) => CalmThen(Tail(q), B, G, K)
         /\ CalmThen(q, B, G, K) /\ Head(q) \in B => Then(Tail(q), G, K)
         /\ Then(q, G, K) /\ Head(q) \notin G => Then(Tail(q), G, K)
  <1>1. /\ 1 \in DOMAIN q /\ Head(q) = q[1]
        /\ \A i \in DOMAIN q : i > 1 => i - 1 \in DOMAIN Tail(q) /\ Tail(q)[i - 1] = q[i]
        /\ \A i \in DOMAIN Tail(q) : i + 1 \in DOMAIN q /\ Tail(q)[i] = q[i + 1]
    BY Taken
  <1>2. (\A i \in DOMAIN q : i \in Nat /\ i >= 1) /\ \A i \in DOMAIN Tail(q) : i \in Nat /\ i >= 1
    BY EmptySeq, HeadTailProperties, LenProperties
  <1>3. ASSUME NEW g \in DOMAIN q, NEW k \in DOMAIN q, g < k, g > 1, q[g] \in G, q[k] \in K
        PROVE  /\ g - 1 \in DOMAIN Tail(q) /\ k - 1 \in DOMAIN Tail(q) /\ g - 1 < k - 1
               /\ Tail(q)[g - 1] \in G /\ Tail(q)[k - 1] \in K
    <2>1. k > 1 /\ g - 1 < k - 1
      BY <1>2, <1>3
    <2> QED BY <1>1, <1>3, <2>1
  <1>4. ASSUME CalmThen(q, B, G, K) PROVE CalmThen(Tail(q), B, G, K)
    <2> SUFFICES ASSUME NEW b \in DOMAIN Tail(q), Tail(q)[b] \in B
                 PROVE  \E g, k \in DOMAIN Tail(q) :
                          b < g /\ g < k /\ Tail(q)[g] \in G /\ Tail(q)[k] \in K
      BY DEF CalmThen
    <2>1. PICK g, k \in DOMAIN q : b + 1 < g /\ g < k /\ q[g] \in G /\ q[k] \in K
      BY <1>1, <1>4 DEF CalmThen
    <2>2. g > 1 /\ b < g - 1
      BY <1>2, <2>1
    <2> QED BY <1>3, <2>1, <2>2
  <1>5. ASSUME CalmThen(q, B, G, K), Head(q) \in B PROVE Then(Tail(q), G, K)
    <2>1. PICK g, k \in DOMAIN q : 1 < g /\ g < k /\ q[g] \in G /\ q[k] \in K
      BY <1>1, <1>5 DEF CalmThen
    <2> QED BY <1>3, <2>1 DEF Then
  <1>6. ASSUME Then(q, G, K), Head(q) \notin G PROVE Then(Tail(q), G, K)
    <2>1. PICK g, k \in DOMAIN q : g < k /\ q[g] \in G /\ q[k] \in K
      BY <1>6 DEF Then
    <2>2. g > 1
      BY <1>1, <1>2, <1>6, <2>1
    <2> QED BY <1>3, <2>1, <2>2 DEF Then
  <1> QED BY <1>4, <1>5, <1>6

-----------------------------------------------------------------------------
(* What follows c from map-server to map-server: what is said of it.       *)
FinalsOf(c)   == {m \in ToCharMsg : m.kind = "save" /\ m.who = c /\ m.final = TRUE}
YesOf(p, c)   == {m \in AddedsOf(c) : m.party = p /\ m.flag = FALSE}
Answers(p, c) == AuthsOf(c) \cup YesOf(p, c)
Cures(p, c)   == Lists(p, c) \cup EndsOf(p)

LEMMA Within ==
  ASSUME NEW c
  PROVE  /\ \A p : JoinsTo(p, c) \subseteq JoinsOf(c)
         /\ \A p : YesOf(p, c) \subseteq AddedsOf(c)
  BY DEF JoinsOf, JoinsTo, YesOf

(* A character whose final save is under way is out of the game and is let *)
(* in nowhere; whatever it sent when it joined a party comes before that.  *)
Saved(c) == \A s \in Servers : Says(toChar[s], FinalsOf(c)) =>
  player[c] = Away /\ \A t \in Servers : ~Says(toMap[t], AuthsOf(c))
Sent(c) == \A s \in Servers : \/ player[c].at = s /\ player[c].joining = TRUE
                              \/ Calm(toChar[s], JoinsOf(c), FinalsOf(c))

(* An answer to who wants to join finds it waiting, once; what answers an  *)
(* earlier stay comes before the character is let in again.                *)
Awaiting(c) == \A s \in Servers :
  /\ player[c].at = s /\ Says(toMap[s], AddedsOf(c)) =>
       /\ player[c].joining = TRUE
       /\ Once(toMap[s], AddedsOf(c)) /\ ~Says(toChar[s], JoinsOf(c))
  /\ Before(toMap[s], AddedsOf(c), AuthsOf(c))

(* Who is invited to its own party is about to hear that it has joined.    *)
Invited(c) == \A p \in Ids : player[c].invite = p /\ c \in Members(party_db_[p]) =>
  player[c].joining = TRUE

(* One join at a time, and no member joins.                                *)
JoinsOnce(c) ==
  /\ \A s \in Servers : Once(toChar[s], JoinsOf(c))
  /\ \A s, t \in Servers : Says(toChar[s], JoinsOf(c)) /\ Says(toChar[t], JoinsOf(c)) => s = t
  /\ \A s \in Servers, p \in Ids : Says(toChar[s], JoinsTo(p, c)) => c \notin Members(party_db_[p])

(* Where a member is, or will be, the copy of the party lists it before    *)
(* the member is let in or hears that it has joined.                       *)
Close(C, q, p, c) ==
  /\ C # None /\ c \notin DOMAIN C.member => Then(q, Cures(p, c), Answers(p, c))
  /\ CalmThen(q, Skips(p, c), Cures(p, c), Answers(p, c))

Near(c) == \A s \in Servers, p \in Ids :
  /\ c \in Members(party_db_[p])
  /\ player[c].at = s \/ Says(toMap[s], AuthsOf(c))
  => Close(party_db[s][p], toMap[s], p, c)

-----------------------------------------------------------------------------
(* What of that a step keeps. *)
LEMMA LinkTypes ==
  ASSUME Shape, NEW s \in Servers
  PROVE  toChar[s] \in Seq(ToCharMsg) /\ toMap[s] \in Seq(ToMapMsg)
  BY DEF Shape

LEMMA LinkTypes2 ==
  ASSUME Shape', NEW s \in Servers
  PROVE  toChar'[s] \in Seq(ToCharMsg) /\ toMap'[s] \in Seq(ToMapMsg)
  BY DEF Shape

LEMMA NoNewHere ==
  ASSUME Shape, Shape', NEW s \in Servers, NEW A, NoNew(toChar[s], toChar'[s], A)
  PROVE  /\ Says(toChar'[s], A) => Says(toChar[s], A)
         /\ Once(toChar[s], A) => Once(toChar'[s], A)
         /\ \A G : Calm(toChar[s], A, G) => Calm(toChar'[s], A, G)
         /\ \A B : Before(toChar[s], A, B) => Before(toChar'[s], A, B)
  BY LinkTypes, LinkTypes2, NoNewFacts

LEMMA NoNewThere ==
  ASSUME Shape, Shape', NEW s \in Servers, NEW A, NoNew(toMap[s], toMap'[s], A)
  PROVE  /\ Says(toMap'[s], A) => Says(toMap[s], A)
         /\ Once(toMap[s], A) => Once(toMap'[s], A)
         /\ \A G : Calm(toMap[s], A, G) => Calm(toMap'[s], A, G)
         /\ \A B : Before(toMap[s], A, B) => Before(toMap'[s], A, B)
  BY LinkTypes, LinkTypes2, NoNewFacts

LEMMA SavedKept ==
  ASSUME Shape, Shape', NEW c \in Chars, Saved(c),
         \A t \in Servers : NoNew(toChar[t], toChar'[t], FinalsOf(c)),
         \A t \in Servers : NoNew(toMap[t], toMap'[t], AuthsOf(c)),
         player[c] = Away /\ (\A t \in Servers : ~Says(toMap[t], AuthsOf(c))) => player'[c] = Away
  PROVE  Saved(c)'
  <1> SUFFICES ASSUME NEW s \in Servers, Says(toChar'[s], FinalsOf(c))
               PROVE  player'[c] = Away /\ \A t \in Servers : ~Says(toMap'[t], AuthsOf(c))
    BY DEF Saved
  <1>1. Says(toChar[s], FinalsOf(c))
    BY NoNewHere
  <1>2. player[c] = Away /\ \A t \in Servers : ~Says(toMap[t], AuthsOf(c))
    BY <1>1 DEF Saved
  <1>3. \A t \in Servers : ~Says(toMap'[t], AuthsOf(c))
    BY <1>2, NoNewThere
  <1> QED BY <1>2, <1>3

LEMMA SentKept ==
  ASSUME Shape, Shape', NEW c \in Chars, Sent(c),
         \A t \in Servers : NoNew(toChar[t], toChar'[t], JoinsOf(c)),
         \A t \in Servers : player[c].at = t /\ player[c].joining = TRUE =>
           \/ player'[c].at = t /\ player'[c].joining = TRUE
           \/ Calm(toChar'[t], JoinsOf(c), FinalsOf(c))
  PROVE  Sent(c)'
  <1> SUFFICES ASSUME NEW s \in Servers
               PROVE  \/ player'[c].at = s /\ player'[c].joining = TRUE
                      \/ Calm(toChar'[s], JoinsOf(c), FinalsOf(c))
    BY DEF Sent
  <1>1. Calm(toChar[s], JoinsOf(c), FinalsOf(c)) => Calm(toChar'[s], JoinsOf(c), FinalsOf(c))
    BY NoNewHere
  <1> QED BY <1>1 DEF Sent

LEMMA AwaitingKept ==
  ASSUME Shape, Shape', NEW c \in Chars, Awaiting(c),
         \A t \in Servers : NoNew(toChar[t], toChar'[t], JoinsOf(c)),
         \A t \in Servers : NoNew(toMap[t], toMap'[t], AddedsOf(c)),
         \A t \in Servers : player'[c].at = t /\ Says(toMap'[t], AddedsOf(c)) =>
           /\ player[c].at = t
           /\ player[c].joining = TRUE => player'[c].joining = TRUE
  PROVE  Awaiting(c)'
  <1> SUFFICES ASSUME NEW s \in Servers
               PROVE  /\ player'[c].at = s /\ Says(toMap'[s], AddedsOf(c)) =>
                           /\ player'[c].joining = TRUE
                           /\ Once(toMap'[s], AddedsOf(c)) /\ ~Says(toChar'[s], JoinsOf(c))
                      /\ Before(toMap'[s], AddedsOf(c), AuthsOf(c))
    BY DEF Awaiting
  <1>1. /\ player[c].at = s /\ Says(toMap[s], AddedsOf(c)) =>
             /\ player[c].joining = TRUE
             /\ Once(toMap[s], AddedsOf(c)) /\ ~Says(toChar[s], JoinsOf(c))
        /\ Before(toMap[s], AddedsOf(c), AuthsOf(c))
    BY DEF Awaiting
  <1>2. Says(toChar'[s], JoinsOf(c)) => Says(toChar[s], JoinsOf(c))
    BY NoNewHere
  <1>3. /\ Says(toMap'[s], AddedsOf(c)) => Says(toMap[s], AddedsOf(c))
        /\ Once(toMap[s], AddedsOf(c)) => Once(toMap'[s], AddedsOf(c))
        /\ \A B : Before(toMap[s], AddedsOf(c), B) => Before(toMap'[s], AddedsOf(c), B)
    BY NoNewThere
  <1> QED BY <1>1, <1>2, <1>3

(* c becomes a member of no party, but of one that is founded.             *)
NoMore(c) == \A p \in Ids : c \in Members(party_db_'[p]) =>
  c \in Members(party_db_[p]) \/ p > lastId

LEMMA InvitedKept ==
  ASSUME Types, NEW c \in Chars, Invited(c), NoMore(c),
         player'[c].invite \in {0, player[c].invite},
         player'[c].invite # 0 /\ player[c].joining = TRUE => player'[c].joining = TRUE
  PROVE  Invited(c)'
  <1> SUFFICES ASSUME NEW p \in Ids, player'[c].invite = p, c \in Members(party_db_'[p])
               PROVE  player'[c].joining = TRUE
    BY DEF Invited
  <1>1. p # 0 /\ p \in Int /\ lastId \in Int
    BY DEF Ids, Types, Shape
  <1>2. player[c].invite = p /\ p <= lastId
    BY <1>1 DEF Types, Fresh
  <1>3. c \in Members(party_db_[p])
    BY <1>1, <1>2 DEF NoMore
  <1> QED BY <1>1, <1>2, <1>3 DEF Invited

LEMMA JoinsOnceKept ==
  ASSUME Types, Shape', NEW c \in Chars, JoinsOnce(c), NoMore(c),
         \A t \in Servers : NoNew(toChar[t], toChar'[t], JoinsOf(c))
  PROVE  JoinsOnce(c)'
  <1>1. \A s \in Servers : Once(toChar'[s], JoinsOf(c))
    BY NoNewHere DEF JoinsOnce, Types
  <1>2. \A s, t \in Servers : Says(toChar'[s], JoinsOf(c)) /\ Says(toChar'[t], JoinsOf(c)) => s = t
    <2>1. \A s \in Servers : Says(toChar'[s], JoinsOf(c)) => Says(toChar[s], JoinsOf(c))
      BY NoNewHere DEF Types
    <2> QED BY <2>1 DEF JoinsOnce
  <1>3. ASSUME NEW s \in Servers, NEW p \in Ids, Says(toChar'[s], JoinsTo(p, c))
        PROVE  c \notin Members(party_db_'[p])
    <2>1. NoNew(toChar[s], toChar'[s], JoinsTo(p, c))
      BY Within, NoNewLess
    <2>2. Says(toChar[s], JoinsTo(p, c))
      BY <1>3, <2>1, NoNewHere DEF Types
    <2>3. c \notin Members(party_db_[p])
      BY <2>2 DEF JoinsOnce
    <2>4. p <= lastId /\ p \in Int /\ lastId \in Int
      BY <2>2 DEF Says, JoinsTo, Types, Shape, Fresh, About, Ids
    <2> QED BY <2>3, <2>4 DEF NoMore
  <1> QED BY <1>1, <1>2, <1>3 DEF JoinsOnce

LEMMA CloseKept ==
  ASSUME NEW C \in Copies \cup {None}, NEW q \in Seq(ToMapMsg), NEW P, NEW D, NEW r, NEW Q, NEW p,
         NEW c \in Chars, Turn(C, q, P, D, r, Q, p), c \in Members(Q),
         P # None => Close(C, q, p, c)
  PROVE  Close(D, r, p, c)
  <1> DEFINE G == Cures(p, c)
             B == Skips(p, c)
             K == Answers(p, c)
             bad(X) == X # None /\ c \notin DOMAIN X.member
  <1> SUFFICES (bad(D) => Then(r, G, K)) /\ CalmThen(r, B, G, K)
    BY DEF Close
  <1>0. P # None => (bad(C) => Then(q, G, K)) /\ CalmThen(q, B, G, K)
    BY DEF Close
  <1>e. \A n : (\A i \in DOMAIN n : n[i] \notin B) => CalmThen(n, B, G, K)
    BY DEF CalmThen
  <1>1. CASE Told2(C, q, P, D, r, Q, p)
    <2>1. PICK n \in Seq(ToMapMsg) : /\ r = q \o n
                                     /\ \A i \in DOMAIN n : Honest(n[i], p, Q)
                                     /\ P # None => Announced(P, Q, n, p)
      BY <1>1 DEF Told2
    <2>2. \A i \in DOMAIN n : n[i] \notin B
      BY <2>1 DEF Honest, Skips, Members
    <2>3. P # None
      BY <1>1 DEF Told2, Members
    <2>4. bad(D) => bad(C)
      BY <1>1 DEF Told2, SameCopy
    <2> HIDE DEF G, B, K, bad
    <2>5. /\ Then(q, G, K) => Then(q \o n, G, K)
          /\ CalmThen(q, B, G, K) => CalmThen(q \o n, B, G, K)
      BY <2>2, ThenMore
    <2> QED BY <1>0, <2>1, <2>3, <2>4, <2>5
  <1>2. CASE Founded2(C, P, D, r, Q, p)
    <2>1. \A i \in DOMAIN r : r[i] \notin B
      BY <1>2 DEF Founded2, Honest, Skips, Members
    <2>2. ~bad(D)
      BY <1>2 DEF Founded2
    <2> QED BY <1>e, <2>1, <2>2
  <1>3. CASE Heard2(C, q, P, D, r, Q, p)
    <2>1. q # <<>> /\ r = Tail(q) /\ Q = P /\ Heeds(C, D, Head(q), p)
      BY <1>3 DEF Heard2
    <2>2. bad(D) => Head(q) \in B \/ (bad(C) /\ Head(q) \notin G)
      BY <2>1 DEF Heeds, Skips, Lists, Cures
    <2>3. P # None
      BY <2>1 DEF Members
    <2> HIDE DEF B, G, K, bad
    <2>4. /\ CalmThen(q, B, G, K) => CalmThen(Tail(q), B, G, K)
          /\ CalmThen(q, B, G, K) /\ Head(q) \in B => Then(Tail(q), G, K)
          /\ Then(q, G, K) /\ Head(q) \notin G => Then(Tail(q), G, K)
      BY <2>1, ThenTail
    <2> QED BY <1>0, <2>1, <2>2, <2>3, <2>4
  <1>4. CASE D = None /\ r = <<>>
    <2>1. \A i \in DOMAIN r : r[i] \notin B
      BY <1>4
    <2> QED BY <1>4, <1>e, <2>1
  <1> QED BY <1>1, <1>2, <1>3, <1>4 DEF Turn

(* Who is, or will be, at s; and c becomes a member only of a new party.   *)
Nearby(c, s) == player[c].at = s \/ Says(toMap[s], AuthsOf(c))

LEMMA NearKept ==
  ASSUME Types, Turns, NEW c \in Chars, Near(c), NoMore(c),
         NEW s \in Servers, Nearby(c, s), NEW p \in Ids, c \in Members(party_db_'[p])
  PROVE  Close(party_db'[s][p], toMap'[s], p, c)
  <1> DEFINE C == party_db[s][p]
             D == party_db'[s][p]
             P == party_db_[p]
             Q == party_db_'[p]
             q == toMap[s]
             r == toMap'[s]
  <1>1. Turn(C, q, P, D, r, Q, p)
    BY DEF Turns
  <1>2. C \in Copies \cup {None} /\ q \in Seq(ToMapMsg)
    BY DEF Types, Shape
  <1>3. P # None => c \in Members(P)
    BY DEF NoMore, Types, Fresh
  <1>4. P # None => Close(C, q, p, c)
    BY <1>3 DEF Near, Nearby
  <1> HIDE DEF C, D, P, Q, q, r
  <1>5. c \in Members(Q)
    BY DEF Q
  <1>6. Close(D, r, p, c)
    BY <1>1, <1>2, <1>4, <1>5, CloseKept
  <1> QED BY <1>6 DEF D, r

-----------------------------------------------------------------------------
(* All that follows c. *)
Follows(c) == Saved(c) /\ Sent(c) /\ Awaiting(c) /\ Invited(c) /\ JoinsOnce(c) /\ Near(c)
Chain == \A c \in Chars : Follows(c)

(* A step that lets c in nowhere, adds it to no party and answers nothing  *)
(* to it.                                                                  *)
Calmly(c) ==
  /\ NoMore(c)
  /\ \A t \in Servers :
       /\ NoNew(toMap[t], toMap'[t], AuthsOf(c)) /\ NoNew(toMap[t], toMap'[t], AddedsOf(c))
       /\ NoNew(toChar[t], toChar'[t], JoinsOf(c)) /\ NoNew(toChar[t], toChar'[t], FinalsOf(c))
  /\ \/ /\ player'[c].at = player[c].at /\ player'[c].joining = player[c].joining
        /\ player'[c].invite \in {0, player[c].invite}
     \/ player'[c] = Away /\ \A t \in Servers : player[c].at = t => toChar'[t] = <<>>

LEMMA PlayerFacts ==
  ASSUME ConstantsOK, NEW x \in Sessions \cup {Away}
  PROVE  /\ x = Away <=> x.at = None
         /\ x = Away => x.invite = 0 /\ x.joining # TRUE
         /\ x.joining \in BOOLEAN
  <1>1. x = Away => x.at = None /\ x.invite = 0 /\ ~x.joining
    BY SessionFacts
  <1>2. x.at = None => x = Away
    BY SessionFacts
  <1>3. x.joining \in BOOLEAN
    BY SessionFacts
  <1>4. x = Away => x.joining # TRUE
    BY <1>1
  <1> QED BY <1>1, <1>2, <1>3, <1>4

LEMMA NearFrom ==
  ASSUME Types, Turns, NEW c \in Chars, Near(c), NoMore(c),
         \A s \in Servers : Nearby(c, s)' => Nearby(c, s)
  PROVE  Near(c)'
  <1> SUFFICES ASSUME NEW s \in Servers, NEW p \in Ids, c \in Members(party_db_'[p]), Nearby(c, s)'
               PROVE  Close(party_db'[s][p], toMap'[s], p, c)
    BY DEF Near, Nearby
  <1>1. Nearby(c, s)
    OBVIOUS
  <1> QED BY <1>1, NearKept

LEMMA CalmlyKept ==
  ASSUME ConstantsOK, Types, Shape', Turns, NEW c \in Chars, Follows(c), Calmly(c)
  PROVE  Follows(c)'
  <1>0. /\ Saved(c) /\ Sent(c) /\ Awaiting(c) /\ Invited(c) /\ JoinsOnce(c) /\ Near(c)
        /\ Shape /\ NoMore(c)
    BY DEF Follows, Types, Calmly
  <1>1. \A t \in Servers :
          /\ NoNew(toMap[t], toMap'[t], AuthsOf(c)) /\ NoNew(toMap[t], toMap'[t], AddedsOf(c))
          /\ NoNew(toChar[t], toChar'[t], JoinsOf(c)) /\ NoNew(toChar[t], toChar'[t], FinalsOf(c))
    BY DEF Calmly
  <1>2. \/ /\ player'[c].at = player[c].at /\ player'[c].joining = player[c].joining
           /\ player'[c].invite \in {0, player[c].invite}
        \/ player'[c] = Away /\ \A t \in Servers : player[c].at = t => toChar'[t] = <<>>
    BY DEF Calmly
  <1>3. /\ player[c] = Away <=> player[c].at = None
        /\ player'[c] = Away <=> player'[c].at = None
        /\ player'[c] = Away => player'[c].invite = 0
    <2>1. player[c] \in Sessions \cup {Away} /\ player'[c] \in Sessions \cup {Away}
      BY <1>0 DEF Shape
    <2> QED BY <2>1, PlayerFacts
  <1>4. None \notin Servers
    BY DEF ConstantsOK
  <1>5. \A B, G : Calm(<<>>, B, G)
    BY NoneSays
  <1>6. Saved(c)'
    BY <1>0, <1>1, <1>2, <1>3, SavedKept
  <1>7. Sent(c)'
    <2>1. \A t \in Servers : player[c].at = t /\ player[c].joining = TRUE =>
            \/ player'[c].at = t /\ player'[c].joining = TRUE
            \/ Calm(toChar'[t], JoinsOf(c), FinalsOf(c))
      BY <1>2, <1>5
    <2> QED BY <1>0, <1>1, <2>1, SentKept
  <1>9. Awaiting(c)'
    <2>1. \A t \in Servers : player'[c].at = t /\ Says(toMap'[t], AddedsOf(c)) =>
            /\ player[c].at = t
            /\ player[c].joining = TRUE => player'[c].joining = TRUE
      BY <1>2, <1>3, <1>4
    <2> QED BY <1>0, <1>1, <2>1, AwaitingKept
  <1>10. Invited(c)'
    <2>1. /\ player'[c].invite \in {0, player[c].invite}
          /\ player'[c].invite # 0 /\ player[c].joining = TRUE => player'[c].joining = TRUE
      BY <1>2, <1>3
    <2> QED BY <1>0, <2>1, InvitedKept
  <1>11. JoinsOnce(c)'
    BY <1>0, <1>1, JoinsOnceKept
  <1>12. Near(c)'
    <2>1. \A s \in Servers : Says(toMap'[s], AuthsOf(c)) => Says(toMap[s], AuthsOf(c))
      BY <1>0, <1>1, NoNewThere
    <2>2. \A s \in Servers : player'[c].at = s => player[c].at = s
      BY <1>2, <1>3, <1>4
    <2>3. \A s \in Servers : Nearby(c, s)' => Nearby(c, s)
      BY <2>1, <2>2 DEF Nearby
    <2> QED BY <1>0, <2>3, NearFrom
  <1> QED BY <1>6, <1>7, <1>9, <1>10, <1>11, <1>12 DEF Follows

-----------------------------------------------------------------------------
(* The char-server keeps all of it: nobody is added. *)
LEMMA RegistrySteps ==
  ASSUME ConstantsOK, Types, NEW s \in Servers, RegistryRequest(s)
  PROVE  Types' /\ CharStep(s)
  <1> DEFINE m == Head(toChar[s])
             reg == [kind |-> "reg", who |-> m.who]
             one == <<reg>>
  <1>1. toChar[s] # <<>> /\ m \in RegMsgs
    BY HeardFacts, ToCharKinds DEF RegistryRequest
  <1>2. reg \in RegMsgs /\ RegMsgs \subseteq ToMapMsg /\ \A x \in RegMsgs : x.kind = "reg"
    BY <1>1 DEF RegMsgs, ToMapMsg
  <1>3. Answer(s, <<>>, one) /\ UNCHANGED charVars
    BY DEF RegistryRequest
  <1>4. one \in Seq(RegMsgs) /\ <<>> \in Seq(RegMsgs)
    BY <1>2
  <1>5. \A p \in Ids : Becomes(party_db_[p], party_db_'[p], Head(toChar[s]), p)
    <2>1. UNCHANGED party_db_
      BY <1>3 DEF charVars
    <2> QED BY <2>1, BecomesSelf
  <1>6. Types'
    BY RegistryTypes
  <1> HIDE DEF one
  <1>7. \A x \in RegMsgs : x.kind \notin {"auth", "added"}
    BY <1>2
  <1> DEFINE N == RegMsgs
  <1> HIDE DEF N
  <1>8. /\ N \subseteq ToMapMsg /\ <<>> \in Seq(N) /\ one \in Seq(N)
        /\ \A x \in N : x.kind \notin {"auth", "added"}
    BY <1>2, <1>4, <1>7 DEF N
  <1>9. CharStep(s)
    BY <1>1, <1>3, <1>5, <1>8, AnswerStep
  <1> QED BY <1>6, <1>9

LEMMA HeardOnly ==
  ASSUME Types, NEW s \in Servers, CharStep(s), NEW A
  PROVE  \A t \in Servers : NoNew(toChar[t], toChar'[t], A)
  <1> TAKE t \in Servers
  <1>1. toChar[t] \in Seq(ToCharMsg)
    BY LinkTypes DEF Types
  <1>2. Moves(toChar[t], toChar'[t], {})
    <2> DEFINE N == {}
    <2> HIDE DEF N
    <2>1. toChar[t] # <<>> => Moves(toChar[t], Tail(toChar[t]), N)
      BY <1>1, Taken
    <2>2. Moves(toChar[t], toChar[t], N)
      BY <1>1, Same
    <2>3. Moves(toChar[t], toChar'[t], N)
      BY <2>1, <2>2 DEF CharStep
    <2> QED BY <2>3 DEF N
  <1> DEFINE N == {}
  <1>3. \A m \in N : m \notin A
    OBVIOUS
  <1> HIDE DEF N
  <1>4. Moves(toChar[t], toChar'[t], N)
    BY <1>2 DEF N
  <1> QED BY <1>3, <1>4, MovesNoNew

LEMMA CharStepCalm ==
  ASSUME Types, NEW s \in Servers, CharStep(s), NEW c \in Chars, Head(toChar[s]) \notin JoinsOf(c)
  PROVE  Calmly(c)
  <1>1. NoMore(c)
    <2>1. \A p \in Ids : Head(toChar[s]) \notin JoinsTo(p, c)
      BY Within
    <2> QED BY <2>1 DEF CharStep, NoMore, Becomes
  <1>2. player'[c] = player[c]
    BY DEF CharStep, mapVars
  <1> QED BY <1>1, <1>2, HeardOnly DEF CharStep, Calmly

(* The char-server says that c is added: what it said before lists it.     *)
LEMMA CloseJoined ==
  ASSUME NEW q \in Seq(ToMapMsg), NEW n \in Seq(ToMapMsg), NEW p, NEW c, NEW x \in ToMapMsg,
         x \in Answers(p, c), x \notin Skips(p, c), Says(n, Cures(p, c)),
         \A i \in DOMAIN n : n[i] \notin Skips(p, c), NEW C
  PROVE  Close(C, q \o (n \o <<x>>), p, c)
  <1> DEFINE G == Cures(p, c)
             B == Skips(p, c)
             K == Answers(p, c)
             o == <<x>>
             u == q \o n
  <1>1. o \in Seq(ToMapMsg) /\ Says(o, K) /\ \A i \in DOMAIN o : o[i] \notin B
    BY OneSays
  <1> HIDE DEF o
  <1>2. q \o (n \o o) = u \o o /\ u \in Seq(ToMapMsg)
    BY <1>1, Regrouped, ConcatProperties
  <1> HIDE DEF G, B, K
  <1>3. Says(n, G) /\ \A i \in DOMAIN n : n[i] \notin B
    BY DEF G, B
  <1>4. Calm(n, B, G)
    BY <1>3, NoneSays
  <1>5. Says(u, G)
    BY <1>3, SaysMore
  <1>6. Calm(u, B, G)
    BY <1>3, <1>4, CalmMore
  <1> HIDE DEF u
  <1>7. Then(u \o o, G, K) /\ CalmThen(u \o o, B, G, K)
    BY <1>1, <1>2, <1>5, <1>6, ThenMore
  <1> QED BY <1>2, <1>7 DEF Close, G, B, K, o

(* The char-server hears that c joins p: nobody else is added, and c hears *)
(* of it after what lists it.                                              *)
Welcomed(s, p, c) ==
  \E n \in Seq(ToMapMsg), x \in AddedsOf(c) :
    /\ toMap'[s] = toMap[s] \o (n \o <<x>>)
    /\ \A i \in DOMAIN n : n[i] \notin AddedsOf(c) \cup Skips(p, c)
    /\ \A t \in Servers \ {s} : NoNew(toMap[t], toMap'[t], AddedsOf(c))
    /\ \/ UNCHANGED party_db_
       \/ /\ x \in YesOf(p, c) /\ Says(n, Cures(p, c))
          /\ \A q \in Ids \ {p} : party_db_'[q] = party_db_[q]

LEMMA TruthNoSkip ==
  ASSUME NEW p, NEW Q, NEW c \in Chars, c \in Members(Q), NEW m \in Truths(p, Q)
  PROVE  m \notin Skips(p, c)
  BY DEF Truths, Honest, Skips, Members

LEMMA JoinSteps ==
  ASSUME ConstantsOK, Types, NEW s \in Servers, PartyAddMember(s)
  PROVE  /\ Types' /\ CharStep(s)
         /\ \E p \in Ids, c \in Chars : /\ Head(toChar[s]) \in JoinsTo(p, c) /\ p <= lastId
                                        /\ Welcomed(s, p, c)
  <1> DEFINE m == Head(toChar[s])
             p == m.party
             c == m.who
             P == party_db_[p]
             Q == Joined(P, c, m.as)
             info == Info(p, Q, None)
             before == Dropped(p, P, Q)
             all == before \o <<info>>
             yes == Added(p, c, FALSE)
             no == Added(p, c, TRUE)
             N == CharTells(lastId)
  <1>0. Types'
    BY AddMemberTypes
  <1>1. toChar[s] # <<>> /\ m \in JoinMsgs /\ m \in ToCharMsg
    BY HeardFacts, ToCharKinds DEF PartyAddMember
  <1>2. m.who \in Chars /\ m.as \in Member /\ p \in Ids
    BY <1>1 DEF JoinMsgs
  <1>3. lastId \in Int /\ p <= lastId
    <2>1. 1 \in DOMAIN toChar[s] /\ toChar[s][1] = m
      BY HeardFacts DEF PartyAddMember
    <2>2. m.kind = "join"
      BY <1>1 DEF JoinMsgs
    <2> QED BY <2>1, <2>2 DEF Types, Shape, Fresh, About, Ids
  <1>4. \/ Known(p) /\ Put(p, Q) /\ Answer(s, all, <<yes>>)
        \/ Answer(s, <<>>, <<no>>) /\ UNCHANGED charVars
    BY DEF PartyAddMember
  <1>5. /\ m \in JoinsTo(p, c) /\ m \in JoinsOf(c)
        /\ \A d \in Chars \ {c} : m \notin JoinsOf(d)
    BY <1>1 DEF JoinMsgs, JoinsTo, JoinsOf
  <1>6. /\ yes \in YesOf(p, c) /\ yes \in AddedsOf(c) /\ no \in AddedsOf(c)
        /\ yes \in ToMapMsg /\ no \in ToMapMsg
        /\ yes.kind = "added" /\ no.kind = "added" /\ yes.who = c /\ no.who = c
    <2>1. yes \in ToMapMsg /\ no \in ToMapMsg
      BY <1>2, ToMapMade
    <2> QED BY <2>1 DEF YesOf, AddedsOf, Added
  <1>7. N \subseteq ToMapMsg /\ \A x \in N : x.kind \notin {"added", "auth"}
    BY DEF CharTells, CharNews, CharAware
  <1> HIDE DEF yes, no, N
  (* What the answers leave alone. *)
  <1>8. ASSUME NEW al \in Seq(N), NEW x \in {yes, no}, Answer(s, al, <<x>>)
        PROVE  /\ toChar'[s] = Tail(toChar[s]) /\ UNCHANGED mapVars
               /\ \A t \in Servers \ {s} : toChar'[t] = toChar[t]
               /\ \A t \in Servers, d \in Chars :
                    /\ NoNew(toMap[t], toMap'[t], AuthsOf(d))
                    /\ d = c \/ NoNew(toMap[t], toMap'[t], AddedsOf(d))
               /\ toMap'[s] = toMap[s] \o (al \o <<x>>)
               /\ \A t \in Servers \ {s} : NoNew(toMap[t], toMap'[t], AddedsOf(c))
               /\ \A t \in Servers : Stays(toMap[t], toMap'[t])
    <2> DEFINE M == N \cup {x}
               one == <<x>>
    <2>1. /\ M \subseteq ToMapMsg /\ N \subseteq M /\ one \in Seq(M)
          /\ \A y \in M : y.kind # "auth" /\ (y.kind = "added" => y.who = c)
      BY <1>6, <1>7
    <2> HIDE DEF M, one
    <2>2. al \in Seq(M)
      BY <2>1, SeqMonotonic
    <2>3. Answer(s, al, one)
      BY <1>8 DEF one
    <2>4. /\ toChar'[s] = Tail(toChar[s]) /\ UNCHANGED <<mapVars, asked>>
          /\ \A t \in Servers : t # s => toChar'[t] = toChar[t]
          /\ \A t \in Servers : /\ Said(al, one, s, t) \in Seq(M)
                                /\ toMap'[t] = toMap[t] \o Said(al, one, s, t)
          /\ \A t \in Servers : Moves(toMap[t], toMap'[t], M) /\ Stays(toMap[t], toMap'[t])
      BY <1>1, <2>1, <2>2, <2>3, Answered
    <2>5. ASSUME NEW t \in Servers, NEW d \in Chars
          PROVE  /\ NoNew(toMap[t], toMap'[t], AuthsOf(d))
                 /\ d = c \/ NoNew(toMap[t], toMap'[t], AddedsOf(d))
      <3>1. /\ \A y \in M : y \notin AuthsOf(d)
            /\ d = c \/ \A y \in M : y \notin AddedsOf(d)
        BY <2>1 DEF AuthsOf, AddedsOf
      <3> QED BY <2>4, <3>1, MovesNoNew
    <2>6. toMap'[s] = toMap[s] \o (al \o one)
      BY <2>4 DEF Said
    <2>7. ASSUME NEW t \in Servers \ {s}
          PROVE  NoNew(toMap[t], toMap'[t], AddedsOf(c))
      <3>1. Said(al, one, s, t) = al
        <4>1. al \o <<>> = al
          BY ConcatEmptySeq
        <4> QED BY <2>7, <4>1 DEF Said
      <3>2. toMap[t] \in Seq(ToMapMsg) /\ al \in Seq(ToMapMsg)
        BY <1>7, LinkTypes, SeqMonotonic DEF Types
      <3>3. Moves(toMap[t], toMap[t] \o al, N)
        BY <3>2, Added2
      <3>4. toMap'[t] = toMap[t] \o al
        BY <2>4, <2>7, <3>1
      <3>5. \A y \in N : y \notin AddedsOf(c)
        BY <1>7 DEF AddedsOf
      <3> QED BY <3>3, <3>4, <3>5, MovesNoNew
    <2> QED BY <2>4, <2>5, <2>6, <2>7 DEF one
  <1>9. CASE Answer(s, <<>>, <<no>>) /\ UNCHANGED charVars
    <2> DEFINE al == <<>>
    <2>1. al \in Seq(N) /\ al \in Seq(ToMapMsg) /\ DOMAIN al = {} /\ Answer(s, al, <<no>>)
      BY <1>9
    <2>2. UNCHANGED party_db_
      BY <1>9 DEF charVars
    <2> HIDE DEF al, m, p, c
    <2>3. \A o \in Ids : Becomes(party_db_[o], party_db_'[o], m, o)
      BY <2>2, BecomesSelf
    <2>4. no \in {yes, no}
      OBVIOUS
    <2>5. /\ toChar'[s] = Tail(toChar[s]) /\ UNCHANGED mapVars
          /\ \A t \in Servers \ {s} : toChar'[t] = toChar[t]
          /\ \A t \in Servers, d \in Chars :
               /\ NoNew(toMap[t], toMap'[t], AuthsOf(d))
               /\ d = c \/ NoNew(toMap[t], toMap'[t], AddedsOf(d))
          /\ toMap'[s] = toMap[s] \o (al \o <<no>>)
          /\ \A t \in Servers \ {s} : NoNew(toMap[t], toMap'[t], AddedsOf(c))
          /\ \A t \in Servers : Stays(toMap[t], toMap'[t])
      BY <1>8, <2>1, <2>4
    <2>6. CharStep(s)
      BY <1>1, <1>5, <2>3, <2>5 DEF CharStep, m
    <2>7. Welcomed(s, p, c)
      BY <1>6, <2>1, <2>2, <2>5 DEF Welcomed
    <2> QED BY <1>0, <1>2, <1>3, <1>5, <2>6, <2>7 DEF m, c
  <1>10. CASE Known(p) /\ Put(p, Q) /\ Answer(s, all, <<yes>>)
    <2>1. P \in Parties
      BY <1>10, KnownFacts
    <2>2. /\ Q \in Parties /\ DOMAIN Q.member = DOMAIN P.member \cup {c}
          /\ Q.member[c].lv = m.as.lv
          /\ \A d \in DOMAIN P.member \ {c} : Q.member[d] = P.member[d]
          /\ Sound(P) /\ c \notin DOMAIN P.member => Sound(Q)
      <3> DEFINE a == m.as
                 R == Joined(P, c, a)
      <3>0. a \in Member /\ c \in Chars /\ R = Q
        BY <1>2
      <3> HIDE DEF P, a, c, R, Q
      <3>1. R = Joined(P, c, a)
        BY DEF R
      <3>2. /\ R \in Parties /\ DOMAIN R.member = DOMAIN P.member \cup {c}
            /\ R.member[c] = [a EXCEPT !.leader = FALSE]
            /\ \A d \in DOMAIN P.member \ {c} : R.member[d] = P.member[d]
            /\ Sound(P) /\ c \notin DOMAIN P.member => Sound(R)
        BY <2>1, <3>0, <3>1, JoinedFacts
      <3>3. [a EXCEPT !.leader = FALSE].lv = a.lv
        BY <3>0 DEF Member
      <3> QED BY <3>0, <3>2, <3>3 DEF a
    <2>3. Q # None /\ P # None /\ c \in Members(Q)
      BY <2>1, <2>2 DEF ConstantsOK, Members
    <2>4. info \in N /\ before \in Seq(N)
      <3>1. c \in Chars
        BY <1>2
      <3> HIDE DEF p, P, Q, c
      <3>2. Info(p, Q, None) \in CharTells(lastId) /\ Dropped(p, P, Q) \in Seq(CharTells(lastId))
        BY <1>2, <1>3, <2>1, <2>2, <3>1, CharTold
      <3> QED BY <3>2 DEF N
    <2>5. info \in Truths(p, Q) /\ info \in Lists(p, c)
      <3>1. info \in Truths(p, Q) /\ info \in InfosOf(p)
        <4> HIDE DEF p, Q
        <4> QED BY <1>2, <2>2, <2>3, InfoTrue
      <3>2. info.member = Q.member
        BY DEF Info
      <3> HIDE DEF info
      <3>3. c \in DOMAIN info.member
        BY <2>2, <3>2
      <3> QED BY <3>1, <3>3 DEF Lists
    <2>6. before \in Seq(Truths(p, Q))
      <3> HIDE DEF p, P, Q
      <3> QED BY <1>2, <2>1, <2>2, DroppedFacts
    <2>7. Put(p, Q) /\ Answer(s, all, <<yes>>)
      BY <1>10
    <2>8. P = party_db_[p] /\ c \in Chars
      BY <1>2
    <2> HIDE DEF Q, P, info, before, m, p, c
    <2> DEFINE o == <<info>>
    <2>9. o \in Seq(N) /\ o \in Seq(Truths(p, Q)) /\ Says(o, Lists(p, c))
      BY <2>4, <2>5, OneSays
    <2>10. all = before \o o
      OBVIOUS
    <2> HIDE DEF o, all
    <2>11. all \in Seq(N) /\ all \in Seq(Truths(p, Q))
      BY <2>4, <2>6, <2>9, <2>10, ConcatProperties, Zenon
    <2>12. all \in Seq(ToMapMsg) /\ before \in Seq(ToMapMsg) /\ o \in Seq(ToMapMsg)
      BY <1>7, <2>4, <2>9, <2>11, SeqMonotonic
    <2>13. Says(all, Lists(p, c))
      BY <2>9, <2>10, <2>12, SaysMore
    <2>14. Says(all, Cures(p, c))
      <3>1. Lists(p, c) \subseteq Cures(p, c)
        BY DEF Cures
      <3> QED BY <2>13, <3>1, SaysWider
    <2>15. \A i \in DOMAIN all : all[i] \notin AddedsOf(c) \cup Skips(p, c)
      <3> TAKE i \in DOMAIN all
      <3>1. all[i] \in N /\ all[i] \in Truths(p, Q)
        <4>1. Len(all) \in Nat /\ DOMAIN all = 1 .. Len(all)
          BY <2>12, LenProperties
        <4> QED BY <2>11, <4>1, ElementOfSeq
      <3>2. all[i] \notin Skips(p, c)
        BY <2>3, <2>8, <3>1, TruthNoSkip
      <3> QED BY <1>7, <3>1, <3>2 DEF AddedsOf
    <2>16. yes \in {yes, no}
      OBVIOUS
    <2>17. /\ toChar'[s] = Tail(toChar[s]) /\ UNCHANGED mapVars
           /\ \A t \in Servers \ {s} : toChar'[t] = toChar[t]
           /\ \A t \in Servers, d \in Chars :
                /\ NoNew(toMap[t], toMap'[t], AuthsOf(d))
                /\ d = c \/ NoNew(toMap[t], toMap'[t], AddedsOf(d))
           /\ toMap'[s] = toMap[s] \o (all \o <<yes>>)
           /\ \A t \in Servers \ {s} : NoNew(toMap[t], toMap'[t], AddedsOf(c))
           /\ \A t \in Servers : Stays(toMap[t], toMap'[t])
      BY <1>8, <2>7, <2>11, <2>16
    <2>18. \A q \in Ids \ {p} : party_db_'[q] = party_db_[q]
      BY <2>7 DEF Put, Types, Shape
    <2>19. Welcomed(s, p, c)
      BY <1>6, <2>12, <2>14, <2>15, <2>17, <2>18 DEF Welcomed
    <2>20. Becomes(party_db_[p], Q, m, p)
      <3>1. \A d \in Members(Q) : d \in Members(P) \/ m \in JoinsTo(p, d)
        BY <1>5, <2>2, <2>3 DEF Members
      <3>2. Sound(P) /\ Fits(P, m, p) => Sound(Q)
        BY <1>5, <2>2, <2>3 DEF Fits, Members
      <3> QED BY <2>3, <2>8, <3>1, <3>2 DEF Becomes
    <2>21. \A q \in Ids : Becomes(party_db_[q], party_db_'[q], m, q)
      BY <1>2, <2>7, <2>20, BecomesOne
    <2>22. CharStep(s)
      BY <1>1, <1>5, <2>17, <2>21 DEF CharStep, m
    <2> QED BY <1>0, <1>2, <1>3, <1>5, <2>19, <2>22 DEF m, c
  <1> QED BY <1>4, <1>9, <1>10

LEMMA HeadSaid ==
  ASSUME NEW T, NEW q \in Seq(T), q # <<>>, NEW A, Head(q) \in A
  PROVE  Says(q, A)
  <1> DEFINE N == {}
  <1> HIDE DEF N
  <1>1. 1 \in DOMAIN q /\ Head(q) = q[1]
    BY Taken
  <1> QED BY <1>1 DEF Says

(* Who is in the game is let in nowhere. *)
LEMMA NoAuths ==
  ASSUME ConstantsOK, Types, NEW c \in Chars, player[c].at # None, NEW s \in Servers
  PROVE  ~Says(toMap[s], AuthsOf(c))
  <1>1. player[c] # Away
    BY DEF Away
  <1> QED BY <1>1 DEF Types, LetIn, IsAuth, Says, AuthsOf

LEMMA JoinFollows ==
  ASSUME ConstantsOK, Types, Types', Turns, NEW s \in Servers, CharStep(s), NEW p \in Ids,
         NEW c \in Chars, Head(toChar[s]) \in JoinsTo(p, c), Welcomed(s, p, c), Follows(c)
  PROVE  Follows(c)'
  <1>0. /\ Saved(c) /\ Sent(c) /\ Awaiting(c) /\ Invited(c) /\ JoinsOnce(c) /\ Near(c)
        /\ Shape /\ Shape'
    BY DEF Follows, Types
  <1>1. /\ toChar[s] \in Seq(ToCharMsg) /\ toChar[s] # <<>> /\ Head(toChar[s]) \in JoinsOf(c)
        /\ toChar'[s] = Tail(toChar[s]) /\ player' = player
        /\ \A t \in Servers \ {s} : toChar'[t] = toChar[t]
        /\ \A t \in Servers : NoNew(toMap[t], toMap'[t], AuthsOf(c))
    BY <1>0, LinkTypes, Within DEF CharStep, mapVars
  <1>2. Says(toChar[s], JoinsOf(c))
    BY <1>1, HeadSaid
  <1>3. None \notin Servers
    BY DEF ConstantsOK
  <1>4. /\ (player[c].at = s /\ player[c].joining = TRUE) \/ player[c] = Away
        /\ \A t \in Servers : ~Says(toMap[t], AuthsOf(c))
    <2>1. CASE player[c].at = s /\ player[c].joining = TRUE
      BY <1>3, <2>1, NoAuths
    <2>2. CASE Calm(toChar[s], JoinsOf(c), FinalsOf(c))
      <3>1. Says(toChar[s], FinalsOf(c))
        BY <1>2, <2>2 DEF Calm, Says
      <3> QED BY <1>0, <3>1 DEF Saved
    <2> QED BY <1>0, <2>1, <2>2 DEF Sent
  <1>5. player[c] = Away => player[c].at = None /\ player[c].invite = 0
    BY DEF Away
  <1>6. \A t \in Servers : ~Says(toMap'[t], AuthsOf(c))
    BY <1>0, <1>1, <1>4, NoNewThere
  <1>7. \A t \in Servers : ~Says(toChar'[t], JoinsOf(c))
    <2>1. ~Says(toChar'[s], JoinsOf(c))
      BY <1>0, <1>1, TailOnce DEF JoinsOnce
    <2> QED BY <1>0, <1>1, <1>2, <2>1 DEF JoinsOnce
  <1>9. Saved(c)'
    <2>1. \A t \in Servers : NoNew(toChar[t], toChar'[t], FinalsOf(c))
      BY HeardOnly
    <2> QED BY <1>0, <1>1, <2>1, SavedKept
  <1>10. Sent(c)'
    <2>1. \A t \in Servers : NoNew(toChar[t], toChar'[t], JoinsOf(c))
      BY HeardOnly
    <2> QED BY <1>0, <1>1, <2>1, SentKept
  <1>12. JoinsOnce(c)'
    <2>1. \A t \in Servers, q \in Ids : ~Says(toChar'[t], JoinsTo(q, c))
      BY <1>7, Within, SaysWider
    <2> QED BY <1>7, <2>1 DEF JoinsOnce, Once, Says
  <1>13. Invited(c)'
    BY <1>1, <1>4, <1>5 DEF Invited, Ids
  <1>14. PICK n \in Seq(ToMapMsg), x \in AddedsOf(c) :
           /\ toMap'[s] = toMap[s] \o (n \o <<x>>)
           /\ \A i \in DOMAIN n : n[i] \notin AddedsOf(c) \cup Skips(p, c)
           /\ \A t \in Servers \ {s} : NoNew(toMap[t], toMap'[t], AddedsOf(c))
           /\ \/ UNCHANGED party_db_
              \/ /\ x \in YesOf(p, c) /\ Says(n, Cures(p, c))
                 /\ \A q \in Ids \ {p} : party_db_'[q] = party_db_[q]
    BY DEF Welcomed
  <1>15. toMap[s] \in Seq(ToMapMsg) /\ x \in ToMapMsg /\ x \notin Skips(p, c)
    BY <1>0, LinkTypes DEF AddedsOf, Skips, InfosOf, OutsOf
  <1>16. Awaiting(c)'
    <2> DEFINE o == <<x>>
    <2>1. o \in Seq(ToMapMsg) /\ Once(o, AddedsOf(c))
      BY <1>15, OneSays
    <2> HIDE DEF o
    <2>2. n \o o \in Seq(ToMapMsg) /\ Once(n \o o, AddedsOf(c))
      <3>1. ~Says(n, AddedsOf(c))
        BY <1>14 DEF Says
      <3> QED BY <2>1, <3>1, OnceMore, ConcatProperties
    <2>3. player[c].at = s => Once(toMap[s] \o (n \o o), AddedsOf(c))
      <3>1. player[c].at = s => ~Says(toMap[s], AddedsOf(c))
        BY <1>0, <1>2 DEF Awaiting
      <3> QED BY <1>15, <2>2, <3>1, OnceMore
    <2>4. \A t \in Servers : Before(toMap'[t], AddedsOf(c), AuthsOf(c))
      BY <1>6 DEF Before, Says
    <2>5. player[c].at = s => Once(toMap'[s], AddedsOf(c))
      BY <1>14, <2>3 DEF o
    <2>6. \A t \in Servers : player'[c].at = t => player[c].at = s /\ t = s /\ player'[c].joining = TRUE
      BY <1>1, <1>3, <1>4, <1>5
    <2> QED BY <1>7, <2>4, <2>5, <2>6 DEF Awaiting
  <1>17. Near(c)'
    <2> SUFFICES ASSUME NEW t \in Servers, NEW q \in Ids, c \in Members(party_db_'[q]),
                        player'[c].at = t \/ Says(toMap'[t], AuthsOf(c))
                 PROVE  Close(party_db'[t][q], toMap'[t], q, c)
      BY DEF Near
    <2>1. t = s /\ player[c].at = s
      BY <1>1, <1>3, <1>4, <1>5, <1>6
    <2>2. CASE party_db_'[q] = party_db_[q]
      <3> DEFINE C == party_db[s][q]
                 D == party_db'[s][q]
                 P == party_db_[q]
                 Q == party_db_'[q]
                 r == toMap'[s]
      <3>1. C \in Copies \cup {None} /\ Turn(C, toMap[s], P, D, r, Q, q)
        BY <1>0 DEF Shape, Turns
      <3>2. Close(C, toMap[s], q, c) /\ c \in Members(Q)
        BY <1>0, <2>1, <2>2 DEF Near
      <3> HIDE DEF C, D, P, Q, r
      <3>3. Close(D, r, q, c)
        BY <1>15, <3>1, <3>2, CloseKept
      <3> QED BY <2>1, <3>3 DEF D, r
    <2>3. CASE q = p /\ x \in YesOf(p, c) /\ Says(n, Cures(p, c))
      <3>1. x \in Answers(p, c)
        BY <2>3 DEF Answers
      <3>2. \A i \in DOMAIN n : n[i] \notin Skips(p, c)
        BY <1>14
      <3>3. \A D : Close(D, toMap[s] \o (n \o <<x>>), p, c)
        BY <1>15, <2>3, <3>1, <3>2, CloseJoined
      <3> QED BY <1>14, <2>1, <2>3, <3>3
    <2> QED BY <1>14, <2>2, <2>3
  <1> QED BY <1>9, <1>10, <1>12, <1>13, <1>16, <1>17 DEF Follows

(* A step of the char-server. *)
LEMMA CharChain ==
  ASSUME ConstantsOK, Types, Turns, Chain, NEW s \in Servers, CharServer(s)
  PROVE  Chain' /\ CharStep(s)
  <1>1. /\ Types' /\ CharStep(s)
        /\ \A c \in Chars : Head(toChar[s]) \in JoinsOf(c) =>
             \E p \in Ids : Head(toChar[s]) \in JoinsTo(p, c) /\ Welcomed(s, p, c)
    <2> DEFINE G == \A c \in Chars : Head(toChar[s]) \in JoinsOf(c) =>
                      \E p \in Ids : Head(toChar[s]) \in JoinsTo(p, c) /\ Welcomed(s, p, c)
    <2>0. \/ CreateParty(s) \/ PartyInfo(s) \/ PartyChangeOption(s) \/ PartyLeave(s)
          \/ PartyChangeMap(s) \/ PartyLeaderChange(s) \/ char_mmo_char_tosql(s)
          \/ RegistryRequest(s) \/ PartyAddMember(s)
      BY DEF CharServer
    <2>1. Head(toChar[s]).kind # "join" => G
      BY DEF JoinsOf
    <2> HIDE DEF G
    <2>2. CASE PartyAddMember(s)
      <3>1. /\ Types' /\ CharStep(s)
            /\ \E p \in Ids, c \in Chars : /\ Head(toChar[s]) \in JoinsTo(p, c) /\ p <= lastId
                                           /\ Welcomed(s, p, c)
        BY <2>2, JoinSteps
      <3> QED BY <3>1 DEF G, JoinsTo, JoinsOf
    <2>3. CASE CreateParty(s)
      <3>1. Head(toChar[s]).kind # "join"
        BY <2>3, Zenon DEF CreateParty, Heard
      <3> QED BY <2>1, <2>3, <3>1, CreateSteps DEF G
    <2>4. CASE PartyInfo(s)
      <3>1. Head(toChar[s]).kind # "join"
        BY <2>4 DEF PartyInfo, Heard
      <3> QED BY <2>1, <2>4, <3>1, PartyInfoSteps DEF G
    <2>5. CASE PartyChangeOption(s)
      <3>1. Head(toChar[s]).kind # "join"
        BY <2>5, HeardFacts, Zenon DEF PartyChangeOption, Heard
      <3> QED BY <2>1, <2>5, <3>1, ChangeOptionSteps DEF G
    <2>6. CASE PartyLeave(s)
      <3>1. Head(toChar[s]).kind # "join"
        BY <2>6, Zenon DEF PartyLeave, Heard
      <3> QED BY <2>1, <2>6, <3>1, LeaveSteps DEF G
    <2>7. CASE PartyChangeMap(s)
      <3>1. Head(toChar[s]).kind # "join"
        BY <2>7, Zenon DEF PartyChangeMap, Heard
      <3> QED BY <2>1, <2>7, <3>1, ChangeMapSteps DEF G
    <2>8. CASE PartyLeaderChange(s)
      <3>1. Head(toChar[s]).kind # "join"
        BY <2>8, Zenon DEF PartyLeaderChange, Heard
      <3> QED BY <2>1, <2>8, <3>1, LeaderChangeSteps DEF G
    <2>9. CASE char_mmo_char_tosql(s)
      <3>1. Head(toChar[s]).kind # "join"
        BY <2>9 DEF char_mmo_char_tosql, Heard
      <3> QED BY <2>1, <2>9, <3>1, SaveSteps DEF G
    <2>10. CASE RegistryRequest(s)
      <3>1. Head(toChar[s]).kind # "join"
        BY <2>10 DEF RegistryRequest, Heard
      <3> QED BY <2>1, <2>10, <3>1, RegistrySteps DEF G
    <2> QED BY <2>0, <2>2, <2>3, <2>4, <2>5, <2>6, <2>7, <2>8, <2>9, <2>10 DEF G
  <1> SUFFICES ASSUME NEW c \in Chars PROVE Follows(c)'
    BY <1>1 DEF Chain
  <1>2. Follows(c) /\ Shape'
    BY <1>1 DEF Chain, Types
  <1>3. Follows(c)'
    <2>1. CASE Head(toChar[s]) \in JoinsOf(c)
      BY <1>1, <1>2, <2>1, JoinFollows
    <2>2. CASE Head(toChar[s]) \notin JoinsOf(c)
      <3>1. Calmly(c)
        BY <1>1, <2>2, CharStepCalm
      <3> QED BY <1>2, <3>1, CalmlyKept
    <2> QED BY <2>1, <2>2
  <1> QED BY <1>3

-----------------------------------------------------------------------------
(* What a map-server does keeps all of it. *)
LEMMA HandledQuiet ==
  ASSUME Types, NEW s \in Servers, NEW packets, Handled(s, packets), toMap[s] # <<>>,
         NEW N, N \subseteq ToCharMsg, packets \in Seq(N), \A x \in N : x.kind \in {"leave", "reg"}
  PROVE  /\ toMap'[s] = Tail(toMap[s]) /\ UNCHANGED <<party_db_, lastId>>
         /\ \A c \in Chars :
              /\ NoMore(c)
              /\ \A t \in Servers :
                   /\ NoNew(toMap[t], toMap'[t], AuthsOf(c)) /\ NoNew(toMap[t], toMap'[t], AddedsOf(c))
                   /\ NoNew(toChar[t], toChar'[t], JoinsOf(c)) /\ NoNew(toChar[t], toChar'[t], FinalsOf(c))
  <1> DEFINE Z == {}
  <1>1. /\ toMap'[s] = Tail(toMap[s])
        /\ \A t \in Servers : Moves(toMap[t], toMap'[t], Z)
        /\ \A t \in Servers : Moves(toChar[t], toChar'[t], N)
        /\ UNCHANGED <<charVars, level, asked>>
    BY HandledLinks
  <1>2. \A x \in Z : FALSE
    OBVIOUS
  <1> HIDE DEF Z
  <1>3. UNCHANGED <<party_db_, lastId>>
    BY <1>1 DEF charVars
  <1>4. \A A : \A t \in Servers : NoNew(toMap[t], toMap'[t], A)
    BY <1>1, <1>2, MovesNoNew
  <1>5. ASSUME NEW c \in Chars, NEW t \in Servers
        PROVE  NoNew(toChar[t], toChar'[t], JoinsOf(c)) /\ NoNew(toChar[t], toChar'[t], FinalsOf(c))
    <2>1. \A x \in N : x \notin JoinsOf(c) /\ x \notin FinalsOf(c)
      BY DEF JoinsOf, FinalsOf
    <2> QED BY <1>1, <2>1, MovesNoNew
  <1>6. \A c \in Chars : NoMore(c)
    BY <1>3 DEF NoMore
  <1> QED BY <1>1, <1>3, <1>4, <1>5, <1>6

LEMMA CalmerChain ==
  ASSUME ConstantsOK, Types, Types', Turns, Chain, NEW s \in Servers, Calmer(s)
  PROVE  Chain'
  <1> SUFFICES ASSUME NEW c \in Chars PROVE Follows(c)'
    BY DEF Chain
  <1> DEFINE N == LeaveMsgs
  <1>1. N \subseteq ToCharMsg /\ \A x \in N : x.kind \in {"leave", "reg"}
    BY DEF LeaveMsgs, ToCharMsg
  <1>2. PICK packets \in Seq(N) : Handled(s, packets) /\ toMap[s] # <<>>
    BY DEF Calmer
  <1> HIDE DEF N
  <1>3. /\ UNCHANGED <<party_db_, lastId>> /\ NoMore(c)
        /\ \A t \in Servers :
             /\ NoNew(toMap[t], toMap'[t], AuthsOf(c)) /\ NoNew(toMap[t], toMap'[t], AddedsOf(c))
             /\ NoNew(toChar[t], toChar'[t], JoinsOf(c)) /\ NoNew(toChar[t], toChar'[t], FinalsOf(c))
    BY <1>1, <1>2, HandledQuiet
  <1>4. Calmly(c)
    BY <1>3 DEF Calmer, Settled, Calmly
  <1>5. Follows(c) /\ Shape'
    BY DEF Chain, Types
  <1> QED BY <1>4, <1>5, CalmlyKept

LEMMA RegReceivedSteps ==
  ASSUME ConstantsOK, Types, NEW s \in Servers, pc_reg_received(s)
  PROVE  Types' /\ Calmer(s)
  <1> DEFINE c == Head(toMap[s]).who
  <1>1. toMap[s] # <<>> /\ c \in Chars
    <2>1. toMap[s] # <<>> /\ Head(toMap[s]) \in RegMsgs
      BY ToldFacts, ToMapKinds DEF pc_reg_received
    <2> QED BY <2>1 DEF RegMsgs
  <1>2. player' = [player EXCEPT ![c].state = "reg"] /\ Handled(s, <<>>)
    BY DEF pc_reg_received
  <1>3. <<>> \in Seq(LeaveMsgs) /\ Types'
    BY RegReceivedTypes
  <1> HIDE DEF c
  <1>4. player \in [Chars -> Sessions \cup {Away}]
    BY DEF Types, Shape
  <1>5. ASSUME NEW d \in Chars PROVE Settled(d) /\ Waitless(d, Head(toMap[s]))
    <2>1. CASE d # c
      BY <1>2, <1>4, <2>1 DEF Settled, Waitless
    <2>2. CASE d = c
      <3>1. player'[c] = [player[c] EXCEPT !.state = "reg"]
        BY <1>1, <1>2, <1>4
      <3>2. player[c] \in Sessions \cup {Away}
        BY <1>1, <1>4
      <3>3. /\ player'[c].at = player[c].at /\ player'[c].joining = player[c].joining
            /\ player'[c].invite = player[c].invite /\ player'[c].state = "reg"
            /\ player'[c].creating = player[c].creating
        BY <3>1, <3>2 DEF Sessions, Away
      <3> QED BY <2>2, <3>3 DEF Settled, Waitless
    <2> QED BY <2>1, <2>2
  <1> QED BY <1>1, <1>2, <1>3, <1>5 DEF Calmer

LEMMA SameNew ==
  ASSUME NEW T, NEW q \in Seq(T), NEW A
  PROVE  NoNew(q, q, A)
  <1> DEFINE N == {}
  <1>1. \A m \in N : m \notin A
    OBVIOUS
  <1> HIDE DEF N
  <1>2. Moves(q, q, N)
    BY Same
  <1> QED BY <1>1, <1>2, MovesNoNew

LEMMA CrashChain ==
  ASSUME ConstantsOK, Types, Turns, Chain, NEW s \in Servers, Crash(s)
  PROVE  Chain'
  <1>1. /\ player' = [c \in Chars |-> IF player[c].at = s THEN Away ELSE player[c]]
        /\ toMap' = [toMap EXCEPT ![s] = <<>>]
        /\ toChar' = [toChar EXCEPT ![s] = <<>>]
        /\ party_db_' = party_db_
    BY DEF Crash, charVars
  <1>2. Types' /\ Shape' /\ Shape
    <2>1. Types'
      BY CrashTypes
    <2> QED BY <2>1 DEF Types
  <1> SUFFICES ASSUME NEW c \in Chars PROVE Follows(c)'
    BY DEF Chain
  <1>3. /\ toChar'[s] = <<>> /\ toMap'[s] = <<>>
        /\ \A t \in Servers \ {s} : toChar'[t] = toChar[t] /\ toMap'[t] = toMap[t]
    BY <1>1, <1>2 DEF Shape
  <1>4. \A A : \A t \in Servers : NoNew(toChar[t], toChar'[t], A) /\ NoNew(toMap[t], toMap'[t], A)
    <2> TAKE A
    <2> TAKE t \in Servers
    <2>1. CASE t = s
      BY <1>3, <2>1 DEF NoNew
    <2>2. CASE t # s
      BY <1>2, <1>3, <2>2, LinkTypes, SameNew
    <2> QED BY <2>1, <2>2
  <1>5. \/ /\ player'[c].at = player[c].at /\ player'[c].joining = player[c].joining
           /\ player'[c].invite \in {0, player[c].invite}
        \/ player'[c] = Away /\ \A t \in Servers : player[c].at = t => toChar'[t] = <<>>
    BY <1>1, <1>3
  <1>6. Calmly(c)
    BY <1>1, <1>4, <1>5 DEF Calmly, NoMore
  <1>7. Follows(c)
    BY DEF Chain
  <1> QED BY <1>2, <1>6, <1>7, CalmlyKept

-----------------------------------------------------------------------------
(* Who hears that it has joined, or that it has not. *)
LEMMA GreetedFollows ==
  ASSUME ConstantsOK, Types, Types', Turns, NEW s \in Servers, NEW c \in Chars, Greeted(s, c),
         Follows(c), NoMore(c), toMap'[s] = Tail(toMap[s]),
         \A t \in Servers :
           /\ NoNew(toMap[t], toMap'[t], AuthsOf(c)) /\ NoNew(toMap[t], toMap'[t], AddedsOf(c))
           /\ NoNew(toChar[t], toChar'[t], JoinsOf(c)) /\ NoNew(toChar[t], toChar'[t], FinalsOf(c))
  PROVE  Follows(c)'
  <1>0. /\ Saved(c) /\ Sent(c) /\ Awaiting(c) /\ Invited(c) /\ JoinsOnce(c) /\ Near(c)
        /\ Shape /\ Shape' /\ toMap[s] \in Seq(ToMapMsg)
    BY LinkTypes DEF Follows, Types
  <1>1. /\ toMap[s] # <<>> /\ Head(toMap[s]) \in AddedsOf(c)
        /\ player[c].at = s /\ player'[c].at = s /\ player'[c].invite = 0
    BY DEF Greeted
  <1>2. Says(toMap[s], AddedsOf(c))
    BY <1>0, <1>1, HeadSaid
  <1>3. Once(toMap[s], AddedsOf(c)) /\ ~Says(toChar[s], JoinsOf(c))
    BY <1>0, <1>1, <1>2 DEF Awaiting
  <1>4. ~Says(toMap'[s], AddedsOf(c)) /\ ~Says(toChar'[s], JoinsOf(c))
    <2>1. ~Says(Tail(toMap[s]), AddedsOf(c))
      BY <1>0, <1>1, <1>3, TailOnce
    <2> QED BY <1>0, <1>3, <2>1, NoNewHere
  <1>5. player[c] # Away
    BY <1>1 DEF Away, ConstantsOK
  <1>6. Saved(c)'
    BY <1>0, <1>5, SavedKept
  <1>7. Sent(c)'
    <2>1. Calm(toChar'[s], JoinsOf(c), FinalsOf(c))
      BY <1>4 DEF Calm, Says
    <2> QED BY <1>0, <1>1, <2>1, SentKept
  <1>9. Awaiting(c)'
    BY <1>0, <1>1, <1>4, AwaitingKept
  <1>10. Invited(c)'
    BY <1>0, <1>1, InvitedKept
  <1>11. JoinsOnce(c)'
    BY <1>0, JoinsOnceKept
  <1>12. Near(c)'
    <2>1. \A t \in Servers : Nearby(c, t)' => Nearby(c, t)
      BY <1>0, <1>1, NoNewThere DEF Nearby
    <2> QED BY <1>0, <2>1, NearFrom
  <1> QED BY <1>6, <1>7, <1>9, <1>10, <1>11, <1>12 DEF Follows

(* One character changes in a message that is handled. *)
LEMMA OneChain ==
  ASSUME ConstantsOK, Types, Types', Turns, Chain, NEW s \in Servers, toMap[s] # <<>>,
         NEW N, N \subseteq ToCharMsg, NEW packets \in Seq(N), Handled(s, packets),
         \A x \in N : x.kind \in {"leave", "reg"},
         NEW c \in Chars, \A d \in Chars \ {c} : player'[d] = player[d], Follows(c)'
  PROVE  Chain'
  <1>1. ASSUME NEW d \in Chars
        PROVE  /\ NoMore(d)
               /\ \A t \in Servers :
                    /\ NoNew(toMap[t], toMap'[t], AuthsOf(d)) /\ NoNew(toMap[t], toMap'[t], AddedsOf(d))
                    /\ NoNew(toChar[t], toChar'[t], JoinsOf(d)) /\ NoNew(toChar[t], toChar'[t], FinalsOf(d))
    BY HandledQuiet
  <1>2. ASSUME NEW d \in Chars PROVE Follows(d)'
    <2>1. CASE d = c
      BY <2>1
    <2>2. CASE d # c
      <3>1. Calmly(d)
        BY <1>1, <2>2 DEF Calmly
      <3>2. Follows(d) /\ Shape'
        BY DEF Chain, Types
      <3> QED BY <3>1, <3>2, CalmlyKept
    <2> QED BY <2>1, <2>2
  <1> QED BY <1>2 DEF Chain

LEMMA GreetedChain ==
  ASSUME ConstantsOK, Types, Types', Turns, Chain, NEW s \in Servers, NEW c \in Chars, Greeted(s, c)
  PROVE  Chain'
  <1> DEFINE N == LeaveMsgs
  <1>1. N \subseteq ToCharMsg /\ \A x \in N : x.kind \in {"leave", "reg"}
    BY DEF LeaveMsgs, ToCharMsg
  <1>2. PICK packets \in Seq(N) : Handled(s, packets) /\ toMap[s] # <<>>
    BY DEF Greeted
  <1> HIDE DEF N
  <1>3. /\ NoMore(c) /\ toMap'[s] = Tail(toMap[s])
        /\ \A t \in Servers :
             /\ NoNew(toMap[t], toMap'[t], AuthsOf(c)) /\ NoNew(toMap[t], toMap'[t], AddedsOf(c))
             /\ NoNew(toChar[t], toChar'[t], JoinsOf(c)) /\ NoNew(toChar[t], toChar'[t], FinalsOf(c))
    BY <1>1, <1>2, HandledQuiet
  <1>4. Follows(c)
    BY DEF Chain
  <1>5. Follows(c)'
    BY <1>3, <1>4, GreetedFollows
  <1>6. \A d \in Chars \ {c} : player'[d] = player[d]
    BY DEF Greeted
  <1> QED BY <1>1, <1>2, <1>5, <1>6, OneChain

(* c enters the game. *)
LEMMA EnteredFollows ==
  ASSUME ConstantsOK, Types, Types', Turns, NEW s \in Servers, NEW c \in Chars,
         Follows(c), NoMore(c), toMap'[s] = Tail(toMap[s]), toMap[s] # <<>>,
         Head(toMap[s]) \in AuthsOf(c), player'[c].at = s, player'[c].invite = 0,
         \A t \in Servers :
           /\ NoNew(toMap[t], toMap'[t], AuthsOf(c)) /\ NoNew(toMap[t], toMap'[t], AddedsOf(c))
           /\ NoNew(toChar[t], toChar'[t], JoinsOf(c)) /\ NoNew(toChar[t], toChar'[t], FinalsOf(c))
  PROVE  Follows(c)'
  <1>0. /\ Saved(c) /\ Sent(c) /\ Awaiting(c) /\ Invited(c) /\ JoinsOnce(c) /\ Near(c)
        /\ Shape /\ Shape' /\ toMap[s] \in Seq(ToMapMsg) /\ None \notin Servers
    BY LinkTypes DEF Follows, Types, ConstantsOK
  <1>1. Says(toMap[s], AuthsOf(c))
    BY <1>0, HeadSaid
  <1>2. player[c] = Away /\ player[c].at = None
    <2>1. player[c] = Away
      BY <1>1 DEF Types, LetIn, IsAuth, Says, AuthsOf
    <2> QED BY <2>1 DEF Away
  <1>3. \A t \in Servers : ~Says(toChar[t], FinalsOf(c))
    BY <1>0, <1>1 DEF Saved
  <1>4. \A t \in Servers : ~Says(toChar[t], JoinsOf(c))
    <2>1. \A t \in Servers : Calm(toChar[t], JoinsOf(c), FinalsOf(c))
      BY <1>0, <1>2 DEF Sent
    <2> QED BY <1>3, <2>1 DEF Calm, Says
  <1>5. ~Says(toMap[s], AddedsOf(c))
    <2> SUFFICES ASSUME NEW i \in DOMAIN toMap[s], toMap[s][i] \in AddedsOf(c) PROVE FALSE
      BY DEF Says
    <2>1. 1 \in DOMAIN toMap[s] /\ toMap[s][1] \in AuthsOf(c)
      <3> DEFINE Z == {}
      <3> HIDE DEF Z
      <3>1. 1 \in DOMAIN toMap[s] /\ Head(toMap[s]) = toMap[s][1]
        BY <1>0, Taken
      <3> QED BY <3>1
    <2>2. i < 1
      BY <1>0, <2>1 DEF Awaiting, Before
    <2>3. i \in Nat /\ i >= 1
      BY <1>0, LenProperties
    <2> QED BY <2>2, <2>3
  <1>6. \A t \in Servers : ~Says(toChar'[t], FinalsOf(c)) /\ ~Says(toChar'[t], JoinsOf(c))
    BY <1>0, <1>3, <1>4, NoNewHere
  <1>7. ~Says(toMap'[s], AddedsOf(c))
    BY <1>0, <1>5, NoNewThere
  <1>8. \A t \in Servers : ~Says(toMap'[t], AuthsOf(c))
    <2>1. player'[c] # Away
      BY <1>0 DEF Away
    <2>2. LetIn'
      BY DEF Types
    <2> QED BY <2>1, <2>2 DEF LetIn, IsAuth, Says, AuthsOf
  <1>9. Saved(c)'
    BY <1>6 DEF Saved
  <1>10. Sent(c)'
    BY <1>6 DEF Sent, Calm, Says
  <1>11. Awaiting(c)'
    BY <1>7, <1>8 DEF Awaiting, Before, Says
  <1>12. Invited(c)'
    BY DEF Invited, Ids
  <1>13. JoinsOnce(c)'
    <2>1. \A t \in Servers, q \in Ids : ~Says(toChar'[t], JoinsTo(q, c))
      BY <1>6, Within, SaysWider
    <2> QED BY <1>6, <2>1 DEF JoinsOnce, Once, Says
  <1>14. Near(c)'
    <2>1. \A t \in Servers : Nearby(c, t)' => Nearby(c, t)
      BY <1>1, <1>8 DEF Nearby
    <2> QED BY <1>0, <2>1, NearFrom
  <1> QED BY <1>9, <1>10, <1>11, <1>12, <1>13, <1>14 DEF Follows

LEMMA AuthChain ==
  ASSUME ConstantsOK, Types, Turns, Chain, NEW s \in Servers, auth_ok(s)
  PROVE  Chain'
  <1>0. Types'
    BY AuthTypes
  <1>1. /\ toMap[s] # <<>>
        /\ \E c \in Chars : c = Head(toMap[s]).who /\ Head(toMap[s]) \in AuthsOf(c)
    <2>1. toMap[s] # <<>> /\ Head(toMap[s]) \in Auths /\ Head(toMap[s]) \in ToMapMsg
      BY ToldFacts, ToMapKinds DEF auth_ok
    <2> QED BY <2>1 DEF Auths, AuthsOf
  <1>c. PICK c \in Chars : c = Head(toMap[s]).who /\ Head(toMap[s]) \in AuthsOf(c)
    BY <1>1
  <1> DEFINE y == [Away EXCEPT !.at = s, !.state = "auth", !.party_id = Head(toMap[s]).party]
             reg == [kind |-> "reg", who |-> c]
             packets == <<reg>>
             N == RegMsgs
  <1>2. player' = [player EXCEPT ![c] = y] /\ Handled(s, packets)
    BY <1>c DEF auth_ok
  <1>3. reg \in N /\ N \subseteq ToCharMsg /\ \A x \in N : x.kind \in {"leave", "reg"}
    BY DEF RegMsgs, ToCharMsg
  <1>4. y.at = s /\ y.invite = 0
    BY DEF Away
  <1>5. player \in [Chars -> Sessions \cup {Away}]
    BY DEF Types, Shape
  <1> HIDE DEF reg, N, y
  <1>6. packets \in Seq(N)
    BY <1>3
  <1>7. player'[c] = y /\ \A d \in Chars \ {c} : player'[d] = player[d]
    BY <1>1, <1>2, <1>5
  <1> HIDE DEF packets
  <1>8. /\ NoMore(c) /\ toMap'[s] = Tail(toMap[s])
        /\ \A t \in Servers :
             /\ NoNew(toMap[t], toMap'[t], AuthsOf(c)) /\ NoNew(toMap[t], toMap'[t], AddedsOf(c))
             /\ NoNew(toChar[t], toChar'[t], JoinsOf(c)) /\ NoNew(toChar[t], toChar'[t], FinalsOf(c))
    BY <1>1, <1>2, <1>3, <1>6, HandledQuiet
  <1>9. Follows(c) /\ Head(toMap[s]) \in AuthsOf(c) /\ player'[c].at = s /\ player'[c].invite = 0
    BY <1>4, <1>7, <1>c DEF Chain
  <1>10. Follows(c)'
    BY <1>0, <1>1, <1>8, <1>9, EnteredFollows
  <1> QED BY <1>0, <1>1, <1>2, <1>3, <1>6, <1>7, <1>10, OneChain

(* A step of a map-server. *)
LEMMA MapChain ==
  ASSUME ConstantsOK, Types, Types', Turns, Chain, NEW s \in Servers, MapServer(s)
  PROVE  Chain'
  <1>1. CASE auth_ok(s)
    BY <1>1, AuthChain
  <1>2. CASE Crash(s)
    BY <1>2, CrashChain
  <1>3. CASE party_member_added(s)
    BY <1>3, AddedSteps, CalmerChain, GreetedChain
  <1>4. CASE \/ pc_reg_received(s) \/ party_created(s) \/ party_recv_info(s) \/ party_recv_noinfo(s)
             \/ party_broken(s) \/ party_member_withdraw(s) \/ party_optionchanged(s)
             \/ party_recv_movemap(s)
    <2>1. Calmer(s)
      BY <1>4, RegReceivedSteps, CreatedSteps, RecvInfoSteps, NoInfoSteps, BrokenSteps,
         WithdrawSteps, OptionSteps, MovemapSteps
    <2> QED BY <2>1, CalmerChain
  <1> QED BY <1>1, <1>2, <1>3, <1>4 DEF MapServer

-----------------------------------------------------------------------------
(* What players do keeps all of it.  A player speaks for itself; mostly it *)
(* neither joins nor goes.                                                 *)
Own(c) == {x \in ToCharMsg : \A d \in Chars \ {c} : x \notin JoinsOf(d) /\ x \notin FinalsOf(d)}
Plain(c) == {x \in Own(c) : x \notin JoinsOf(c) /\ x \notin FinalsOf(c)}

LEMMA RequestQuiet ==
  ASSUME Types, NEW s \in Servers, NEW packets, Request(s, packets),
         NEW N, N \subseteq ToCharMsg, packets \in Seq(N)
  PROVE  /\ UNCHANGED <<party_db_, lastId, toMap>> /\ toChar'[s] = toChar[s] \o packets
         /\ \A t \in Servers \ {s} : toChar'[t] = toChar[t]
         /\ \A c \in Chars : NoMore(c)
         /\ \A A : \A t \in Servers : NoNew(toMap[t], toMap'[t], A)
         /\ \A A : \A t \in Servers \ {s} : NoNew(toChar[t], toChar'[t], A)
         /\ \A A : (\A x \in N : x \notin A) => \A t \in Servers : NoNew(toChar[t], toChar'[t], A)
  <1>1. /\ toMap' = toMap /\ toChar'[s] = toChar[s] \o packets
        /\ \A t \in Servers : t # s => toChar'[t] = toChar[t]
        /\ \A t \in Servers : Moves(toChar[t], toChar'[t], N)
        /\ UNCHANGED charVars
    BY RequestLinks
  <1>2. UNCHANGED <<party_db_, lastId>> /\ \A c \in Chars : NoMore(c)
    BY <1>1 DEF charVars, NoMore
  <1>3. \A t \in Servers : toMap[t] \in Seq(ToMapMsg) /\ toChar[t] \in Seq(ToCharMsg)
    BY LinkTypes DEF Types
  <1>4. /\ \A A : \A t \in Servers : NoNew(toMap[t], toMap'[t], A)
        /\ \A A : \A t \in Servers \ {s} : NoNew(toChar[t], toChar'[t], A)
    BY <1>1, <1>3, SameNew
  <1>5. \A A : (\A x \in N : x \notin A) => \A t \in Servers : NoNew(toChar[t], toChar'[t], A)
    BY <1>1, MovesNoNew
  <1> QED BY <1>1, <1>2, <1>4, <1>5

(* The char-server will hear more, and the map-servers hear what they did. *)
Grows == toMap' = toMap /\ \A t \in Servers : Stays(toChar[t], toChar'[t])

LEMMA StaysMore ==
  ASSUME NEW T, NEW q \in Seq(T), NEW n \in Seq(T)
  PROVE  Stays(q, q \o n)
  BY Added2 DEF Stays

LEMMA ActChain ==
  ASSUME ConstantsOK, Types, Types', Turns, Chain, NEW c \in Chars,
         NEW s \in Servers, player[c].at = s,
         NEW packets \in Seq(Own(c)), Request(s, packets),
         \A d \in Chars \ {c} : Settled(d), Follows(c)'
  PROVE  Chain' /\ Grows
  <1> DEFINE N == Own(c)
  <1>1. /\ N \subseteq ToCharMsg /\ packets \in Seq(N)
        /\ \A x \in N, d \in Chars \ {c} : x \notin JoinsOf(d) /\ x \notin FinalsOf(d)
    BY DEF Own
  <1> HIDE DEF N
  <1>2. /\ UNCHANGED <<party_db_, lastId, toMap>> /\ toChar'[s] = toChar[s] \o packets
        /\ \A t \in Servers \ {s} : toChar'[t] = toChar[t]
        /\ \A d \in Chars : NoMore(d)
        /\ \A A : \A t \in Servers : NoNew(toMap[t], toMap'[t], A)
        /\ \A A : (\A x \in N : x \notin A) => \A t \in Servers : NoNew(toChar[t], toChar'[t], A)
    BY <1>1, RequestQuiet
  <1>3. Shape' /\ \A d \in Chars : Follows(d)
    BY DEF Chain, Types
  <1>4. ASSUME NEW d \in Chars, d # c PROVE Follows(d)'
    <2>1. \A x \in N : x \notin FinalsOf(d) /\ x \notin JoinsOf(d)
      BY <1>1, <1>4
    <2>2. \A t \in Servers : /\ NoNew(toChar[t], toChar'[t], FinalsOf(d))
                             /\ NoNew(toChar[t], toChar'[t], JoinsOf(d))
      BY <1>2, <2>1
    <2>3. Settled(d)
      BY <1>4
    <2>4. Calmly(d)
      BY <1>2, <2>2, <2>3 DEF Calmly, Settled
    <2> QED BY <1>3, <2>4, CalmlyKept
  <1>6. Grows
    <2>1. packets \in Seq(ToCharMsg)
      BY <1>1, SeqMonotonic
    <2>2. \A t \in Servers : toChar[t] \in Seq(ToCharMsg)
      BY LinkTypes DEF Types
    <2>3. Stays(toChar[s], toChar'[s])
      BY <1>2, <2>1, <2>2, StaysMore
    <2>4. \A t \in Servers : Stays(toChar[t], toChar'[t])
      BY <1>2, <2>3 DEF Stays
    <2> QED BY <1>2, <2>4 DEF Grows
  <1> QED BY <1>4, <1>6 DEF Chain

LEMMA PlainChain ==
  ASSUME ConstantsOK, Types, Types', Turns, Chain, NEW c \in Chars,
         NEW s \in Servers, player[c].at = s,
         NEW packets \in Seq(Plain(c)), Request(s, packets), \A d \in Chars : Settled(d)
  PROVE  Chain' /\ Grows
  <1> DEFINE N == Plain(c)
  <1>1. /\ N \subseteq Own(c) /\ N \subseteq ToCharMsg /\ packets \in Seq(N)
        /\ \A x \in N : x \notin JoinsOf(c) /\ x \notin FinalsOf(c)
    BY DEF Plain, Own
  <1> HIDE DEF N
  <1>2. packets \in Seq(Own(c))
    BY <1>1, SeqMonotonic
  <1>3. /\ \A d \in Chars : NoMore(d)
        /\ \A A : \A t \in Servers : NoNew(toMap[t], toMap'[t], A)
        /\ \A A : \A t \in Servers \ {s} : NoNew(toChar[t], toChar'[t], A)
        /\ \A A : (\A x \in N : x \notin A) => \A t \in Servers : NoNew(toChar[t], toChar'[t], A)
    BY <1>1, RequestQuiet
  <1>4. Calmly(c)
    <2>1. \A t \in Servers : /\ NoNew(toChar[t], toChar'[t], JoinsOf(c))
                             /\ NoNew(toChar[t], toChar'[t], FinalsOf(c))
      BY <1>1, <1>3
    <2> QED BY <1>3, <2>1 DEF Calmly, Settled
  <1>5. Follows(c)'
    <2>1. Follows(c) /\ Shape'
      BY DEF Chain, Types
    <2> QED BY <1>4, <2>1, CalmlyKept
  <1> QED BY <1>2, <1>5, ActChain

-----------------------------------------------------------------------------
(* What a player asks for, in its turn. *)
LEMMA PlainSays ==
  ASSUME NEW c \in Chars
  PROVE  /\ \A p \in Ids, d \in Chars :
              /\ Leave(p, d) \in Plain(c)
              /\ [kind |-> "leader", party |-> p, who |-> d] \in Plain(c)
              /\ [kind |-> "info", party |-> p, who |-> d] \in Plain(c)
         /\ \A p \in Ids, e \in BOOLEAN : [kind |-> "option", party |-> p, exp |-> e] \in Plain(c)
         /\ \A p \in 0 .. LastParty :
              [kind |-> "save", who |-> c, party |-> p, final |-> FALSE] \in Plain(c)
         /\ \A m \in Member : [kind |-> "create", who |-> c, as |-> m] \in Plain(c)
         /\ \A p \in Ids, o \in BOOLEAN, l \in 1 .. TopLevel :
              [kind |-> "move", party |-> p, who |-> c, online |-> o, lv |-> l] \in Plain(c)
  <1> DEFINE Bare == {"leave", "leader", "info", "option"}
  <1>1. ASSUME NEW x \in ToCharMsg, x.kind \in Bare PROVE x \in Plain(c)
    BY <1>1 DEF Plain, Own, FinalsOf, JoinsOf
  <1>2. \A p \in Ids, d \in Chars :
          /\ Leave(p, d) \in Plain(c)
          /\ [kind |-> "leader", party |-> p, who |-> d] \in Plain(c)
          /\ [kind |-> "info", party |-> p, who |-> d] \in Plain(c)
    <2> TAKE p \in Ids, d \in Chars
    <2>1. /\ Leave(p, d) \in ToCharMsg
          /\ [kind |-> "leader", party |-> p, who |-> d] \in ToCharMsg
          /\ [kind |-> "info", party |-> p, who |-> d] \in ToCharMsg
      BY ToCharMade
    <2> QED BY <1>1, <2>1 DEF Leave
  <1>3. \A p \in Ids, e \in BOOLEAN : [kind |-> "option", party |-> p, exp |-> e] \in Plain(c)
    <2> TAKE p \in Ids, e \in BOOLEAN
    <2>1. [kind |-> "option", party |-> p, exp |-> e] \in ToCharMsg
      BY ToCharMade, Zenon
    <2> DEFINE x == [kind |-> "option", party |-> p, exp |-> e]
    <2>2. x \in ToCharMsg /\ x.kind \in Bare
      BY <2>1
    <2> HIDE DEF x
    <2>3. x \in Plain(c)
      BY <1>1, <2>2
    <2> QED BY <2>3 DEF x
  <1>4. \A p \in 0 .. LastParty :
          [kind |-> "save", who |-> c, party |-> p, final |-> FALSE] \in Plain(c)
    <2> TAKE p \in 0 .. LastParty
    <2> DEFINE x == [kind |-> "save", who |-> c, party |-> p, final |-> FALSE]
    <2>1. x \in ToCharMsg
      BY DEF ToCharMsg, SaveMsgs
    <2>2. x.kind = "save" /\ x.final # TRUE
      OBVIOUS
    <2> HIDE DEF x
    <2>3. x \in Plain(c)
      BY <2>1, <2>2 DEF Plain, Own, FinalsOf, JoinsOf
    <2> QED BY <2>3 DEF x
  <1>5. \A m \in Member : [kind |-> "create", who |-> c, as |-> m] \in Plain(c)
    <2> TAKE m \in Member
    <2> DEFINE x == [kind |-> "create", who |-> c, as |-> m]
    <2>1. x \in ToCharMsg
      BY ToCharMade
    <2>2. x.kind = "create"
      OBVIOUS
    <2> HIDE DEF x
    <2>3. x \in Plain(c)
      BY <2>1, <2>2 DEF Plain, Own, FinalsOf, JoinsOf
    <2> QED BY <2>3 DEF x
  <1>6. \A p \in Ids, o \in BOOLEAN, l \in 1 .. TopLevel :
          [kind |-> "move", party |-> p, who |-> c, online |-> o, lv |-> l] \in Plain(c)
    <2> TAKE p \in Ids, o \in BOOLEAN, l \in 1 .. TopLevel
    <2> DEFINE x == [kind |-> "move", party |-> p, who |-> c, online |-> o, lv |-> l]
    <2>1. x \in ToCharMsg
      BY DEF ToCharMsg, MoveMsgs
    <2>2. x.kind = "move"
      OBVIOUS
    <2> HIDE DEF x
    <2>3. x \in Plain(c)
      BY <2>1, <2>2 DEF Plain, Own, FinalsOf, JoinsOf
    <2> QED BY <2>3 DEF x
  <1> QED BY <1>2, <1>3, <1>4, <1>5, <1>6

LEMMA OneSettled ==
  ASSUME Types, NEW c \in Chars, NEW y, player' = [player EXCEPT ![c] = y],
         y.at = player[c].at, y.joining = player[c].joining, y.invite \in {0, player[c].invite}
  PROVE  \A d \in Chars : Settled(d)
  <1>1. player'[c] = y /\ \A d \in Chars \ {c} : player'[d] = player[d]
    BY DEF Types, Shape
  <1> QED BY <1>1 DEF Settled

LEMMA MovePlain ==
  ASSUME ConstantsOK, Types, NEW c \in Chars, player[c].state \in {"reg", "map"},
         player[c].party_id # 0
  PROVE  /\ ChangeMap(c, TRUE) \in Plain(c)
         /\ ChangeMap(c, FALSE) \in Plain(c)
         /\ \A l \in 1 .. TopLevel : [ChangeMap(c, TRUE) EXCEPT !.lv = l] \in Plain(c)
  <1> DEFINE p == player[c].party_id
             move(o, l) == [kind |-> "move", party |-> p, who |-> c, online |-> o, lv |-> l]
  <1>1. p \in Ids /\ level[c] \in 1 .. TopLevel
    BY InGame
  <1>2. \A o \in BOOLEAN : ChangeMap(c, o) = move(o, level[c])
    BY DEF ChangeMap
  <1>3. \A l \in 1 .. TopLevel, o \in BOOLEAN : [ChangeMap(c, o) EXCEPT !.lv = l] = move(o, l)
    BY DEF ChangeMap
  <1>4. \A l \in 1 .. TopLevel, o \in BOOLEAN : move(o, l) \in Plain(c)
    <2> TAKE l \in 1 .. TopLevel
    <2> HIDE DEF p
    <2> QED BY <1>1, PlainSays, Zenon
  <1> HIDE DEF move
  <1>5. \A o \in BOOLEAN : ChangeMap(c, o) \in Plain(c)
    BY <1>1, <1>2, <1>4
  <1>6. \A l \in 1 .. TopLevel, o \in BOOLEAN : [ChangeMap(c, o) EXCEPT !.lv = l] \in Plain(c)
    BY <1>3, <1>4
  <1>7. ChangeMap(c, TRUE) \in Plain(c) /\ ChangeMap(c, FALSE) \in Plain(c)
    BY <1>5, Zenon
  <1>8. \A l \in 1 .. TopLevel : [ChangeMap(c, TRUE) EXCEPT !.lv = l] \in Plain(c)
    BY <1>6, Zenon
  <1> QED BY <1>7, <1>8

LEMMA LoadedChain ==
  ASSUME ConstantsOK, Types, Turns, Chain, NEW c \in Chars, clif_parse_LoadEndAck(c)
  PROVE  Chain' /\ Grows
  <1> DEFINE packets == IF player[c].party_id = 0 THEN <<>> ELSE <<ChangeMap(c, TRUE)>>
             y == [player[c] EXCEPT !.state = "map"]
             s == player[c].at
  <1>1. /\ player[c].state \in {"reg", "map"} /\ player' = [player EXCEPT ![c] = y]
        /\ Request(s, packets)
    BY DEF clif_parse_LoadEndAck
  <1>2. player[c] \in Sessions /\ s \in Servers /\ (player[c].party_id # 0 => player[c].party_id \in Ids)
    BY <1>1, InGame
  <1>3. y.at = player[c].at /\ y.joining = player[c].joining /\ y.invite \in {0, player[c].invite}
    BY <1>2 DEF Sessions
  <1>5. packets \in Seq(Plain(c))
    <2>1. player[c].party_id # 0 => ChangeMap(c, TRUE) \in Plain(c)
      BY <1>1, MovePlain
    <2>2. player[c].party_id # 0 => <<ChangeMap(c, TRUE)>> \in Seq(Plain(c))
      BY <2>1, One
    <2>3. <<>> \in Seq(Plain(c))
      OBVIOUS
    <2> QED BY <2>2, <2>3
  <1>6. Types'
    BY LoadedTypes
  <1> HIDE DEF y, packets
  <1>7. \A d \in Chars : Settled(d)
    BY <1>1, <1>3, OneSettled
  <1> HIDE DEF s
  <1>8. player[c].at = s
    BY DEF s
  <1> QED BY <1>1, <1>2, <1>5, <1>6, <1>7, <1>8, PlainChain

LEMMA JoinedChain ==
  ASSUME ConstantsOK, Types, Turns, Chain, NEW c \in Chars, party_member_joined(c)
  PROVE  Chain' /\ Grows
  <1> DEFINE s == player[c].at
             p == player[c].party_id
             old == Mine(c)
             packets == IF p # 0 /\ old = None
                        THEN <<[kind |-> "info", party |-> p, who |-> c]>> ELSE <<>>
             id == IF old # None /\ c \notin DOMAIN old.member THEN 0 ELSE p
             y == [player[c] EXCEPT !.told = TRUE, !.party_id = id]
  <1>1. /\ player[c].state \in {"reg", "map"} /\ player' = [player EXCEPT ![c] = y]
        /\ Request(s, packets)
    BY Zenon DEF party_member_joined
  <1>2. player[c] \in Sessions /\ s \in Servers /\ (p # 0 => p \in Ids)
    BY <1>1, InGame
  <1>3. y.at = player[c].at /\ y.joining = player[c].joining /\ y.invite \in {0, player[c].invite}
    BY <1>2 DEF Sessions
  <1>5. packets \in Seq(Plain(c))
    <2>1. p # 0 => [kind |-> "info", party |-> p, who |-> c] \in Plain(c)
      <3> HIDE DEF p
      <3> QED BY <1>2, PlainSays
    <2>2. p # 0 => <<[kind |-> "info", party |-> p, who |-> c]>> \in Seq(Plain(c))
      <3> HIDE DEF p
      <3> QED BY <2>1, One
    <2>3. <<>> \in Seq(Plain(c))
      OBVIOUS
    <2> HIDE DEF p, old
    <2> QED BY <2>2, <2>3
  <1>6. Types'
    BY JoinedTypes
  <1> HIDE DEF y, packets
  <1>7. \A d \in Chars : Settled(d)
    BY <1>1, <1>3, OneSettled
  <1> HIDE DEF s
  <1>8. player[c].at = s
    BY DEF s
  <1> QED BY <1>1, <1>2, <1>5, <1>6, <1>7, <1>8, PlainChain

LEMMA CreateAskedChain ==
  ASSUME ConstantsOK, Types, Turns, Chain, NEW c \in Chars, party_create(c)
  PROVE  Chain' /\ Grows
  <1> DEFINE y == [player[c] EXCEPT !.creating = TRUE]
             m == [kind |-> "create", who |-> c, as |-> Filled(c, TRUE)]
             packets == <<m>>
             s == player[c].at
  <1>1. /\ player[c].state \in {"reg", "map"} /\ player' = [player EXCEPT ![c] = y]
        /\ Request(s, packets)
    BY DEF party_create, Asks
  <1>2. player[c] \in Sessions /\ s \in Servers
    BY <1>1, InGame
  <1>3. y.at = player[c].at /\ y.joining = player[c].joining /\ y.invite \in {0, player[c].invite}
    BY <1>2 DEF Sessions
  <1>5. packets \in Seq(Plain(c))
    <2>1. Filled(c, TRUE) \in Member
      BY DEF Filled, Member, Types, Shape
    <2>2. m \in Plain(c)
      BY <2>1, PlainSays
    <2> HIDE DEF m
    <2> QED BY <2>2, One
  <1>6. Types'
    BY CreateAskedTypes
  <1> HIDE DEF y, packets
  <1>7. \A d \in Chars : Settled(d)
    BY <1>1, <1>3, OneSettled
  <1> HIDE DEF s
  <1>8. player[c].at = s
    BY DEF s
  <1> QED BY <1>1, <1>2, <1>5, <1>6, <1>7, <1>8, PlainChain

LEMMA DeclineChain ==
  ASSUME ConstantsOK, Types, Turns, Chain, NEW c \in Chars, NEW accepts \in BOOLEAN,
         party_reply_invite(c, accepts), ~(accepts /\ Free(c))
  PROVE  Chain' /\ Grows
  <1> DEFINE z == [player[c] EXCEPT !.invite = 0]
             packets == <<>>
             s == player[c].at
  <1>1. /\ player[c].state \in {"reg", "map"} /\ player' = [player EXCEPT ![c] = z]
        /\ Request(s, packets)
    BY DEF party_reply_invite
  <1>2. player[c] \in Sessions /\ s \in Servers
    BY <1>1, InGame
  <1>3. z.at = player[c].at /\ z.joining = player[c].joining /\ z.invite \in {0, player[c].invite}
    BY <1>2 DEF Sessions
  <1>5. packets \in Seq(Plain(c))
    OBVIOUS
  <1>6. Types'
    BY ReplyTypes
  <1> HIDE DEF z, packets
  <1>7. \A d \in Chars : Settled(d)
    BY <1>1, <1>3, OneSettled
  <1> HIDE DEF s
  <1>8. player[c].at = s
    BY DEF s
  <1> QED BY <1>1, <1>2, <1>5, <1>6, <1>7, <1>8, PlainChain

LEMMA SamePlayers ==
  ASSUME Types, player' = player
  PROVE  \A d \in Chars : Settled(d)
  BY DEF Settled

LEMMA AskChain ==
  ASSUME ConstantsOK, Types, Turns, Chain, NEW c \in Chars,
         \/ party_leave(c) \/ pc_autosave(c)
         \/ \E exp \in BOOLEAN : party_changeoption(c, exp)
         \/ \E t \in Chars : party_removemember(c, t) \/ party_changeleader(c, t)
  PROVE  Chain' /\ Grows
  <1>1. \E m \in Plain(c) :
          /\ player[c].state \in {"reg", "map"} /\ Request(player[c].at, <<m>>)
          /\ player' = player
    <2>1. CASE party_leave(c)
      <3>1. /\ player[c].state \in {"reg", "map"} /\ Mine(c) # None
            /\ Request(player[c].at, <<Leave(player[c].party_id, c)>>)
            /\ UNCHANGED mapVars
        BY <2>1 DEF party_leave, Asks
      <3>2. player[c].party_id \in Ids
        BY <3>1, MineFacts
      <3>3. Leave(player[c].party_id, c) \in Plain(c)
        BY <3>2, PlainSays
      <3> QED BY <3>1, <3>3 DEF mapVars
    <2>2. CASE pc_autosave(c)
      <3>1. /\ player[c].state \in {"reg", "map"}
            /\ Request(player[c].at, <<Save(c, FALSE)>>)
            /\ UNCHANGED mapVars
        BY <2>2 DEF pc_autosave, Asks
      <3>2. Save(c, FALSE) \in Plain(c)
        <4> DEFINE p == player[c].party_id
        <4>1. p \in 0 .. LastParty
          BY <3>1, InGame
        <4> HIDE DEF p
        <4>2. [kind |-> "save", who |-> c, party |-> p, final |-> FALSE] \in Plain(c)
          BY <4>1, PlainSays, Zenon
        <4> QED BY <4>2, Zenon DEF Save, p
      <3> QED BY <3>1, <3>2 DEF mapVars
    <2>3. CASE \E exp \in BOOLEAN : party_changeoption(c, exp)
      <3> DEFINE m(e) == [kind |-> "option", party |-> player[c].party_id, exp |-> e]
      <3>1. PICK e \in BOOLEAN : party_changeoption(c, e)
        BY <2>3
      <3>2. /\ player[c].state \in {"reg", "map"} /\ Mine(c) # None
            /\ Request(player[c].at, <<m(e)>>)
            /\ UNCHANGED mapVars
        BY <3>1 DEF party_changeoption, Asks, Leads
      <3>3. player[c].party_id \in Ids
        BY <3>2, MineFacts
      <3>4. m(e) \in Plain(c)
        <4> DEFINE p == player[c].party_id
        <4> HIDE DEF p
        <4>1. p \in Ids
          BY <3>3 DEF p
        <4>2. [kind |-> "option", party |-> p, exp |-> e] \in Plain(c)
          BY <3>1, <4>1, PlainSays, Zenon
        <4> QED BY <4>2 DEF p
      <3> QED BY <3>2, <3>4 DEF mapVars
    <2>4. CASE \E t \in Chars : party_removemember(c, t)
      <3>1. PICK t \in Chars : party_removemember(c, t)
        BY <2>4
      <3>2. /\ player[c].state \in {"reg", "map"} /\ Mine(c) # None
            /\ Request(player[c].at, <<Leave(player[c].party_id, t)>>)
            /\ UNCHANGED mapVars
        BY <3>1 DEF party_removemember, Asks, Leads
      <3>3. player[c].party_id \in Ids
        BY <3>2, MineFacts
      <3>4. Leave(player[c].party_id, t) \in Plain(c)
        BY <3>3, PlainSays
      <3> QED BY <3>2, <3>4 DEF mapVars
    <2>5. CASE \E t \in Chars : party_changeleader(c, t)
      <3>1. PICK t \in Chars : party_changeleader(c, t)
        BY <2>5
      <3> DEFINE p == player[c].party_id
                 m == [kind |-> "leader", party |-> p, who |-> t]
      <3>2. /\ player[c].state \in {"reg", "map"} /\ Mine(c) # None
            /\ Request(player[c].at, <<m>>) /\ player' = player
        BY <3>1, Zenon DEF party_changeleader, Asks, Leads
      <3>3. p \in Ids
        BY <3>2, MineFacts
      <3>4. m \in Plain(c)
        <4> HIDE DEF p
        <4> QED BY <3>3, PlainSays
      <3> QED BY <3>2, <3>4
    <2> QED BY <2>1, <2>2, <2>3, <2>4, <2>5
  <1>2. PICK m \in Plain(c) :
          /\ player[c].state \in {"reg", "map"} /\ Request(player[c].at, <<m>>)
          /\ player' = player
    BY <1>1
  <1> DEFINE packets == <<m>>
             s == player[c].at
  <1>4. packets \in Seq(Plain(c)) /\ Request(s, packets) /\ s \in Servers
    BY <1>2, One, InGame
  <1>5. Types'
    <2>1. CASE \E t \in Chars : party_changeleader(c, t)
      BY <2>1, ChangeLeaderTypes
    <2>2. CASE ~\E t \in Chars : party_changeleader(c, t)
      BY <2>2, AskTypes
    <2> QED BY <2>1, <2>2
  <1>6. \A d \in Chars : Settled(d)
    BY <1>2, SamePlayers
  <1> HIDE DEF packets, s
  <1>7. player[c].at = s
    BY DEF s
  <1> QED BY <1>4, <1>5, <1>6, <1>7, PlainChain

LEMMA LevelupChain ==
  ASSUME ConstantsOK, Types, Turns, Chain, NEW c \in Chars, NEW n \in Leap, party_send_levelup(c, n)
  PROVE  Chain' /\ Grows
  <1> DEFINE lv == level[c] + n
             p == player[c].party_id
             packets == IF p = 0 THEN <<>> ELSE <<[ChangeMap(c, TRUE) EXCEPT !.lv = lv]>>
             s == player[c].at
  <1>1. /\ player[c].state \in {"reg", "map"} /\ player' = player
        /\ Request(s, packets)
        /\ lv \in 1 .. TopLevel
    BY DEF party_send_levelup, Asks
  <1> HIDE DEF lv
  <1>3. packets \in Seq(Plain(c))
    <2>1. p # 0 => [ChangeMap(c, TRUE) EXCEPT !.lv = lv] \in Plain(c)
      BY <1>1, MovePlain
    <2>2. p # 0 => <<[ChangeMap(c, TRUE) EXCEPT !.lv = lv]>> \in Seq(Plain(c))
      BY <2>1, One
    <2>3. <<>> \in Seq(Plain(c))
      OBVIOUS
    <2> QED BY <2>2, <2>3
  <1>4. Types'
    BY LevelupTypes
  <1>5. \A d \in Chars : Settled(d)
    BY <1>1, SamePlayers
  <1>6. s \in Servers
    BY <1>1, InGame
  <1> HIDE DEF packets, s
  <1>7. player[c].at = s
    BY DEF s
  <1> QED BY <1>1, <1>3, <1>4, <1>5, <1>6, <1>7, PlainChain

-----------------------------------------------------------------------------
(* Who is invited is no member, or is about to hear that it has joined.    *)
LEMMA InviteChain ==
  ASSUME ConstantsOK, Types, Turns, Chain, NEW c \in Chars, NEW t \in Chars, party_invite(c, t)
  PROVE  Chain' /\ Grows
  <1> DEFINE p == player[c].party_id
             s == player[c].at
             y == [player[t] EXCEPT !.invite = p]
             packets == <<>>
             N == {}
  <1>1. /\ player[c].state \in {"reg", "map"} /\ Mine(c) # None /\ Here(s, t)
        /\ t \notin DOMAIN Mine(c).member
        /\ player' = [player EXCEPT ![t] = y]
        /\ UNCHANGED <<charVars, party_db, toChar, toMap>>
    BY DEF party_invite, Asks
  <1>2. /\ s \in Servers /\ p \in Ids /\ Mine(c) = party_db[s][p] /\ Mine(c) # None
    BY <1>1, InGame, MineFacts
  <1>3. player[t] \in Sessions /\ player[t].at = s
    <2>1. player[t] \in Sessions \cup {Away} /\ player[t].at = s
      BY <1>1 DEF Here, Types, Shape
    <2> HIDE DEF s
    <2> QED BY <1>2, <2>1, SessionFacts
  <1> HIDE DEF p, s
  <1>4. y.at = s /\ y.joining = player[t].joining /\ y.invite = p
    BY <1>3 DEF Sessions
  <1> HIDE DEF y
  <1>5. player'[t] = y /\ \A d \in Chars \ {t} : player'[d] = player[d]
    BY <1>1 DEF Types, Shape
  <1>7. /\ packets \in Seq(Own(t)) /\ packets \in Seq(N) /\ N \subseteq ToCharMsg
        /\ Request(s, packets)
    BY <1>1, <1>2, Silent
  <1>8. Types'
    BY InviteTypes
  <1> HIDE DEF packets, N
  <1>9. /\ UNCHANGED <<party_db_, toMap>> /\ NoMore(t)
        /\ \A A : \A u \in Servers : NoNew(toMap[u], toMap'[u], A)
        /\ \A A : (\A x \in N : x \notin A) => \A u \in Servers : NoNew(toChar[u], toChar'[u], A)
    BY <1>2, <1>7, RequestQuiet
  <1>10. \A A : \A u \in Servers : NoNew(toChar[u], toChar'[u], A)
    BY <1>9 DEF N
  <1>11. Follows(t)'
    <2>0. /\ Saved(t) /\ Sent(t) /\ Awaiting(t) /\ Invited(t) /\ JoinsOnce(t) /\ Near(t)
          /\ Shape /\ Shape'
      BY <1>8 DEF Chain, Follows, Types
    <2>1. player[t].at # None /\ player[t] # Away
      BY <1>2, <1>3 DEF ConstantsOK, Away
    <2>2. /\ player'[t].at = player[t].at /\ player'[t].joining = player[t].joining
          /\ player'[t].invite = p
      BY <1>3, <1>4, <1>5
    <2>3. Saved(t)'
      BY <1>9, <1>10, <2>0, <2>1, SavedKept
    <2>4. Sent(t)'
      BY <1>10, <2>0, <2>2, SentKept
    <2>6. Awaiting(t)'
      BY <1>9, <1>10, <2>0, <2>2, AwaitingKept
    <2>7. JoinsOnce(t)'
      BY <1>9, <1>10, <2>0, JoinsOnceKept
    <2>8. Near(t)'
      <3>1. \A u \in Servers : Nearby(t, u)' => Nearby(t, u)
        BY <1>9, <2>2 DEF Nearby
      <3> QED BY <1>9, <2>0, <3>1, NearFrom
    <2>9. Invited(t)'
      <3> SUFFICES ASSUME t \in Members(party_db_[p]) PROVE player[t].joining = TRUE
        BY <1>9, <2>2 DEF Invited
      <3>1. Close(party_db[s][p], toMap[s], p, t)
        BY <1>2, <1>3, <2>0 DEF Near
      <3>2. Then(toMap[s], Cures(p, t), Answers(p, t))
        BY <1>1, <1>2, <3>1 DEF Close
      <3>3. Says(toMap[s], Answers(p, t))
        BY <3>2 DEF Then, Says
      <3>4. ~Says(toMap[s], AuthsOf(t))
        BY <1>2, <2>1, NoAuths
      <3>5. Says(toMap[s], AddedsOf(t))
        BY <3>3, <3>4, Within DEF Says, Answers
      <3> QED BY <1>2, <1>3, <2>0, <3>5 DEF Awaiting
    <2> QED BY <2>3, <2>4, <2>6, <2>7, <2>8, <2>9 DEF Follows
  <1>12. \A d \in Chars \ {t} : Settled(d)
    BY <1>5 DEF Settled
  <1> QED BY <1>2, <1>3, <1>7, <1>8, <1>11, <1>12, ActChain

(* Who joins is no member, and has no other answer to wait for. *)
LEMMA AcceptChain ==
  ASSUME ConstantsOK, Types, Turns, Chain, NEW c \in Chars, NEW accepts \in BOOLEAN,
         party_reply_invite(c, accepts), accepts /\ Free(c)
  PROVE  Chain' /\ Grows
  <1> DEFINE p == player[c].invite
             s == player[c].at
             m == [kind |-> "join", party |-> p, who |-> c, as |-> Filled(c, FALSE)]
             y == [player[c] EXCEPT !.joining = TRUE]
             packets == <<m>>
             N == {m}
  <1>1. /\ player[c].state \in {"reg", "map"} /\ p # 0
        /\ player' = [player EXCEPT ![c] = y] /\ Request(s, packets)
    BY DEF party_reply_invite
  <1>2. /\ player[c] \in Sessions /\ s \in Servers /\ p \in Ids /\ player[c] # Away
        /\ player[c].joining # TRUE
    BY <1>1, InGame DEF Free
  <1>3. y.at = s /\ y.joining = TRUE
    BY <1>2 DEF Sessions
  <1>5. m \in ToCharMsg /\ m.kind = "join" /\ m.who = c /\ m.party = p
    <2>1. Filled(c, FALSE) \in Member
      BY DEF Filled, Member, Types, Shape
    <2> HIDE DEF p
    <2>2. m \in ToCharMsg
      BY <1>2, <2>1, ToCharMade
    <2> QED BY <2>1, <2>2
  <1> HIDE DEF m, p
  <1>6. /\ m \in Own(c) /\ m \in JoinsTo(p, c) /\ m \in JoinsOf(c)
        /\ \A q : m \in JoinsTo(q, c) => q = p
        /\ m \notin FinalsOf(c)
    BY <1>5 DEF Own, FinalsOf, JoinsTo, JoinsOf
  <1>7. /\ packets \in Seq(Own(c)) /\ packets \in Seq(N) /\ N \subseteq ToCharMsg
    BY <1>5, <1>6, One
  <1>8. Types'
    BY ReplyTypes
  <1>9. player'[c].at = s /\ player'[c].joining = TRUE /\ \A d \in Chars \ {c} : player'[d] = player[d]
    BY <1>1, <1>3 DEF Types, Shape
  <1> HIDE DEF packets, N, y, s
  <1>10. /\ UNCHANGED <<party_db_, toMap>> /\ NoMore(c)
         /\ toChar'[s] = toChar[s] \o packets
         /\ \A t \in Servers \ {s} : toChar'[t] = toChar[t]
         /\ \A A : \A t \in Servers : NoNew(toMap[t], toMap'[t], A)
         /\ \A A : (\A x \in N : x \notin A) => \A t \in Servers : NoNew(toChar[t], toChar'[t], A)
    BY <1>1, <1>2, <1>7, RequestQuiet
  <1>11. \A t \in Servers : NoNew(toChar[t], toChar'[t], FinalsOf(c))
    BY <1>6, <1>10 DEF N
  <1>12. Follows(c)'
    <2>0. /\ Saved(c) /\ Sent(c) /\ Awaiting(c) /\ Invited(c) /\ JoinsOnce(c) /\ Near(c)
          /\ Shape /\ Shape' /\ player[c].at = s
      BY <1>8 DEF Chain, Follows, Types, s
    <2>1. \A t \in Servers : ~Says(toChar[t], JoinsOf(c))
      <3> SUFFICES ASSUME NEW t \in Servers, Says(toChar[t], JoinsOf(c)) PROVE FALSE
        OBVIOUS
      <3>1. Calm(toChar[t], JoinsOf(c), FinalsOf(c))
        BY <1>2, <2>0 DEF Sent
      <3>2. Says(toChar[t], FinalsOf(c))
        BY <3>1 DEF Calm, Says
      <3> QED BY <1>2, <2>0, <3>2 DEF Saved
    <2>2. Saved(c)'
      BY <1>2, <1>10, <1>11, <2>0, SavedKept
    <2>3. Sent(c)'
      <3>1. \A t \in Servers : t # s => Calm(toChar'[t], JoinsOf(c), FinalsOf(c))
        BY <1>10, <2>0 DEF Sent
      <3> QED BY <1>9, <3>1 DEF Sent
    <2>5. Awaiting(c)'
      BY <1>2, <1>9, <1>10, <2>0 DEF Awaiting
    <2>6. Invited(c)'
      BY <1>9 DEF Invited
    <2>7. JoinsOnce(c)'
      <3>1. toChar[s] \in Seq(ToCharMsg) /\ packets \in Seq(ToCharMsg)
        BY <1>2, <1>7, <2>0, LinkTypes, SeqMonotonic
      <3>2. Once(packets, JoinsOf(c))
        BY OneSays DEF packets
      <3>3. \A t \in Servers : Once(toChar'[t], JoinsOf(c))
        <4>1. Once(toChar[s] \o packets, JoinsOf(c))
          BY <1>2, <2>1, <3>1, <3>2, OnceMore
        <4>2. \A t \in Servers : Once(toChar[t], JoinsOf(c))
          BY <2>0 DEF JoinsOnce
        <4> QED BY <1>10, <4>1, <4>2
      <3>4. \A t \in Servers : Says(toChar'[t], JoinsOf(c)) => t = s
        BY <1>10, <2>1
      <3>5. ASSUME NEW t \in Servers, NEW q \in Ids, Says(toChar'[t], JoinsTo(q, c))
            PROVE  c \notin Members(party_db_'[q])
        <4>1. JoinsTo(q, c) \subseteq JoinsOf(c)
          BY Within
        <4>2. t = s /\ ~Says(toChar[s], JoinsTo(q, c))
          BY <1>2, <2>1, <3>4, <3>5, <4>1 DEF Says
        <4>3. Says(packets, JoinsTo(q, c))
          <5>1. /\ \A i \in DOMAIN (toChar[s] \o packets) :
                     \/ i \in DOMAIN toChar[s]
                     \/ /\ i - Len(toChar[s]) \in DOMAIN packets
                        /\ (toChar[s] \o packets)[i] = packets[i - Len(toChar[s])]
                /\ \A i \in DOMAIN toChar[s] : (toChar[s] \o packets)[i] = toChar[s][i]
            BY <3>1, Added2
          <5> QED BY <1>10, <3>5, <4>2, <5>1 DEF Says
        <4>4. m \in JoinsTo(q, c)
          BY <4>3, OneSays DEF packets
        <4>5. q = p
          BY <1>6, <4>4
        <4>6. c \notin Members(party_db_[p])
          BY <1>2, <2>0 DEF Invited, p
        <4> QED BY <1>10, <4>5, <4>6
      <3> QED BY <3>3, <3>4, <3>5 DEF JoinsOnce
    <2>8. Near(c)'
      <3>1. \A t \in Servers : Nearby(c, t)' => Nearby(c, t)
        BY <1>9, <1>10, <2>0 DEF Nearby
      <3> QED BY <1>10, <2>0, <3>1, NearFrom
    <2> QED BY <2>2, <2>3, <2>5, <2>6, <2>7, <2>8 DEF Follows
  <1>13. \A d \in Chars \ {c} : Settled(d)
    BY <1>9 DEF Settled
  <1>14. player[c].at = s
    BY DEF s
  <1> QED BY <1>1, <1>2, <1>7, <1>8, <1>12, <1>13, <1>14, ActChain

-----------------------------------------------------------------------------
(* Who logs out sends nothing after the final save but that it is gone.    *)
LEMMA QuitChain ==
  ASSUME ConstantsOK, Types, Turns, Chain, NEW c \in Chars, map_quit(c)
  PROVE  Chain' /\ Grows
  <1> DEFINE p == player[c].party_id
             s == player[c].at
             more == IF p = 0 THEN <<>> ELSE <<ChangeMap(c, FALSE)>>
             last == <<Save(c, TRUE)>>
             packets == last \o more
             Going == {x \in Own(c) : x \notin JoinsOf(c)}
  <1>1. /\ player[c].state \in {"reg", "map"} /\ player' = [player EXCEPT ![c] = Away]
        /\ Request(s, packets)
    BY DEF map_quit
  <1>2. player[c] \in Sessions /\ s \in Servers /\ player[c] # Away
    BY <1>1, InGame
  <1>4. Save(c, TRUE) \in Going /\ Save(c, TRUE) \in FinalsOf(c)
    <2> DEFINE q == player[c].party_id
               x(f) == [kind |-> "save", who |-> c, party |-> q, final |-> f]
    <2>1. q \in 0 .. LastParty
      BY <1>1, InGame
    <2> HIDE DEF q
    <2>2. x(TRUE) \in ToCharMsg
      BY <2>1 DEF ToCharMsg, SaveMsgs
    <2>3. x(TRUE).kind = "save" /\ x(TRUE).who = c /\ x(TRUE).final = TRUE
      OBVIOUS
    <2>4. Save(c, TRUE) = x(TRUE)
      BY Zenon DEF Save, q
    <2> HIDE DEF x
    <2> QED BY <2>2, <2>3, <2>4 DEF Own, FinalsOf, JoinsOf
  <1>5. p # 0 => ChangeMap(c, FALSE) \in Going
    <2> SUFFICES ASSUME p # 0 PROVE ChangeMap(c, FALSE) \in Going
      OBVIOUS
    <2> DEFINE x == ChangeMap(c, FALSE)
    <2>1. x \in Plain(c)
      BY <1>1, MovePlain
    <2> HIDE DEF x
    <2>2. x \in Going
      BY <2>1 DEF Plain
    <2> QED BY <2>2 DEF x
  <1>6. /\ Going \subseteq Own(c) /\ Going \subseteq ToCharMsg
        /\ \A x \in Going : x \notin JoinsOf(c)
    BY DEF Own
  <1> HIDE DEF Going, p
  <1>7. last \in Seq(Going) /\ more \in Seq(Going)
    <2>1. <<>> \in Seq(Going)
      OBVIOUS
    <2> QED BY <1>4, <1>5, <2>1, One
  <1>8. Says(last, FinalsOf(c))
    BY <1>4, OneSays
  <1> HIDE DEF last, more
  <1>9. packets \in Seq(Going) /\ Says(packets, FinalsOf(c))
    <2>1. packets \in Seq(Going)
      BY <1>7, ConcatProperties, Zenon
    <2> QED BY <1>7, <1>8, <2>1, SaysMore
  <1>10. packets \in Seq(Own(c)) /\ packets \in Seq(ToCharMsg)
    BY <1>6, <1>9, SeqMonotonic
  <1>11. Types'
    BY QuitTypes
  <1>12. player'[c] = Away /\ \A d \in Chars \ {c} : player'[d] = player[d]
    BY <1>1 DEF Types, Shape
  <1>13. Away.at = None /\ Away.invite = 0 /\ None \notin Servers
    BY DEF Away, ConstantsOK
  <1>14. player[c].at = s
    OBVIOUS
  <1> HIDE DEF packets, s
  <1>15. /\ UNCHANGED <<party_db_, toMap>> /\ NoMore(c)
         /\ toChar'[s] = toChar[s] \o packets
         /\ \A t \in Servers \ {s} : toChar'[t] = toChar[t]
         /\ \A A : \A t \in Servers : NoNew(toMap[t], toMap'[t], A)
         /\ \A A : (\A x \in Going : x \notin A) => \A t \in Servers : NoNew(toChar[t], toChar'[t], A)
    BY <1>1, <1>2, <1>6, <1>9, RequestQuiet
  <1>16. Follows(c)'
    <2>0. /\ Saved(c) /\ Sent(c) /\ Awaiting(c) /\ Invited(c) /\ JoinsOnce(c) /\ Near(c)
          /\ Shape /\ Shape'
      BY <1>11 DEF Chain, Follows, Types
    <2>1. \A t \in Servers : ~Says(toMap'[t], AuthsOf(c))
      BY <1>2, <1>13, <1>14, <1>15, NoAuths
    <2>2. Calm(packets, JoinsOf(c), FinalsOf(c))
      <3>1. \A i \in DOMAIN packets : packets[i] \in Going
        <4>1. Len(packets) \in Nat /\ DOMAIN packets = 1 .. Len(packets)
          BY <1>9, LenProperties
        <4> QED BY <1>9, <4>1, ElementOfSeq
      <3> QED BY <1>6, <3>1, NoneSays
    <2>3. toChar[s] \in Seq(ToCharMsg)
      BY <1>2, <2>0, LinkTypes
    <2>4. Calm(toChar'[s], JoinsOf(c), FinalsOf(c))
      BY <1>9, <1>10, <1>15, <2>2, <2>3, CalmMore
    <2>5. \A t \in Servers \ {s} : Calm(toChar'[t], JoinsOf(c), FinalsOf(c))
      BY <1>14, <1>15, <2>0 DEF Sent
    <2>6. Saved(c)'
      BY <1>12, <2>1 DEF Saved
    <2>7. Sent(c)'
      BY <2>4, <2>5 DEF Sent
    <2>9. Awaiting(c)'
      BY <1>12, <1>13, <1>15, <2>0 DEF Awaiting
    <2>10. Invited(c)'
      BY <1>12, <1>13 DEF Invited, Ids
    <2>11. JoinsOnce(c)'
      <3>1. \A t \in Servers : NoNew(toChar[t], toChar'[t], JoinsOf(c))
        BY <1>6, <1>15
      <3> QED BY <1>15, <2>0, <3>1, JoinsOnceKept
    <2>12. Near(c)'
      BY <1>12, <1>13, <2>1 DEF Near
    <2> QED BY <2>6, <2>7, <2>9, <2>10, <2>11, <2>12 DEF Follows
  <1>17. \A d \in Chars \ {c} : Settled(d)
    BY <1>12 DEF Settled
  <1> QED BY <1>1, <1>2, <1>10, <1>11, <1>14, <1>16, <1>17, ActChain

(* Who is let in has been saved; the map-server's copy of its party lists  *)
(* it, or will.                                                            *)
LEMMA ReqAuthChain ==
  ASSUME ConstantsOK, Types, Turns, Chain, Agreed, NEW c \in Chars, NEW s \in Servers,
         chmapif_parse_reqauth(c, s)
  PROVE  Chain'
  <1> DEFINE m == [kind |-> "auth", who |-> c, party |-> row[c]]
             New == {m}
             n == <<m>>
  <1>1. /\ player[c] = Away
        /\ toMap' = [toMap EXCEPT ![s] = Append(toMap[s], m)]
        /\ UNCHANGED <<charVars, mapVars, toChar>>
        /\ \A t \in Servers : ~Says(toChar[t], FinalsOf(c)) /\ ~Says(toMap[t], AuthsOf(c))
    BY DEF chmapif_parse_reqauth, Idle, Says, FinalsOf, AuthsOf
  <1>2. m \in ToMapMsg /\ m.kind = "auth" /\ m.who = c
    BY ToMapMade2 DEF Types, Shape
  <1> HIDE DEF m
  <1>3. /\ party_db_' = party_db_ /\ lastId' = lastId /\ toChar' = toChar
        /\ party_db' = party_db /\ player' = player
    BY <1>1 DEF charVars, mapVars
  <1>4. n \in Seq(ToMapMsg) /\ n \in Seq(New) /\ toMap[s] \in Seq(ToMapMsg)
        /\ Append(toMap[s], m) = toMap[s] \o n
    <2> DEFINE q == toMap[s]
    <2>1. q \in Seq(ToMapMsg)
      BY DEF Types, Shape
    <2>2. n \in Seq(ToMapMsg) /\ n \in Seq(New)
      BY <1>2, One
    <2> HIDE DEF q
    <2>3. Append(q, m) = q \o n
      BY <1>2, <2>1
    <2> QED BY <2>1, <2>2, <2>3 DEF q
  <1>5. toMap'[s] = toMap[s] \o n /\ \A t \in Servers \ {s} : toMap'[t] = toMap[t]
    BY <1>1, <1>4 DEF Types, Shape
  <1>6. /\ m \in AuthsOf(c) /\ \A d \in Chars : m \notin AddedsOf(d) /\ (m \in AuthsOf(d) => d = c)
        /\ \A p : m \notin Skips(p, c)
    BY <1>2 DEF AuthsOf, AddedsOf, Skips, InfosOf, OutsOf
  <1> HIDE DEF New, n
  <1>7. \A A : m \notin A => \A t \in Servers : NoNew(toMap[t], toMap'[t], A)
    <2>1. \A t \in Servers : toMap[t] \in Seq(ToMapMsg)
      BY DEF Types, Shape
    <2>2. Moves(toMap[s], toMap'[s], New)
      BY <1>4, <1>5, Added2
    <2>3. \A t \in Servers \ {s} : Moves(toMap[t], toMap'[t], New)
      BY <1>5, <2>1, Same
    <2>4. \A t \in Servers : Moves(toMap[t], toMap'[t], New)
      BY <2>2, <2>3
    <2>5. \A A : m \notin A => \A x \in New : x \notin A
      BY DEF New
    <2> QED BY <2>4, <2>5, MovesNoNew
  <1>8. Types'
    BY ReqAuthTypes
  <1>9. Shape /\ Shape' /\ \A d \in Chars : Follows(d) /\ NoMore(d)
    BY <1>3, <1>8 DEF Types, Chain, NoMore
  <1>10. \A A : \A t \in Servers : NoNew(toChar[t], toChar'[t], A)
    <2>1. \A t \in Servers : toChar[t] \in Seq(ToCharMsg) /\ toChar'[t] = toChar[t]
      BY <1>3, <1>9, LinkTypes
    <2> QED BY <2>1, SameNew
  <1>12. ASSUME NEW d \in Chars, d # c PROVE Follows(d)'
    <2>1. m \notin AuthsOf(d) /\ m \notin AddedsOf(d)
      BY <1>6, <1>12
    <2>2. Calmly(d)
      BY <1>3, <1>7, <1>9, <1>10, <2>1 DEF Calmly
    <2> QED BY <1>9, <2>2, CalmlyKept
  <1>13. Follows(c)'
    <2>0. /\ Saved(c) /\ Sent(c) /\ Awaiting(c) /\ Invited(c) /\ JoinsOnce(c) /\ Near(c)
          /\ Away.at = None /\ None \notin Servers
      BY <1>9 DEF Follows, Away, ConstantsOK
    <2>1. Saved(c)'
      BY <1>1, <1>3 DEF Saved
    <2>2. Sent(c)'
      BY <1>3, <2>0 DEF Sent
    <2>3. Invited(c)' /\ JoinsOnce(c)'
      BY <1>3, <2>0 DEF Invited, JoinsOnce
    <2>4. Awaiting(c)'
      <3>1. \A t \in Servers : player'[c].at # t
        BY <1>1, <1>3, <2>0
      <3>2. \A t \in Servers : Before(toMap[t], AddedsOf(c), AuthsOf(c))
        BY <2>0 DEF Awaiting
      <3>3. Before(toMap'[s], AddedsOf(c), AuthsOf(c))
        <4> DEFINE q == toMap[s]
                   u == q \o n
        <4>1. /\ \A i \in DOMAIN u : \/ i \in DOMAIN q
                                     \/ i - Len(q) \in DOMAIN n /\ u[i] = n[i - Len(q)]
              /\ \A i \in DOMAIN q : u[i] = q[i]
          BY <1>4, Added2
        <4>2. DOMAIN n = 1 .. 1 /\ n[1] = m
          BY DEF n
        <4>3. Len(q) \in Nat /\ DOMAIN q = 1 .. Len(q)
          BY <1>4, LenProperties
        <4> HIDE DEF q, u
        <4>4. \A i \in DOMAIN u : i \in DOMAIN q \/ (i - Len(q) = 1 /\ u[i] = m)
          BY <4>1, <4>2
        <4>5. \A i \in DOMAIN u : u[i] \in AddedsOf(c) => i \in DOMAIN q
          BY <1>6, <4>4
        <4>6. \A i \in DOMAIN q : u[i] \notin AuthsOf(c)
          BY <1>1, <4>1 DEF Says, q
        <4>7. \A i \in DOMAIN u : u[i] \in AuthsOf(c) => i - Len(q) = 1
          BY <4>4, <4>6
        <4>8. DOMAIN u \subseteq Int
          <5>1. u \in Seq(ToMapMsg)
            BY <1>4, Added2 DEF u, q
          <5> QED BY <5>1, LenProperties
        <4>9. Before(u, AddedsOf(c), AuthsOf(c))
          <5> SUFFICES ASSUME NEW i \in DOMAIN u, NEW j \in DOMAIN u,
                              u[i] \in AddedsOf(c), u[j] \in AuthsOf(c)
                       PROVE  i < j
            BY DEF Before
          <5>1. i \in 1 .. Len(q) /\ j - Len(q) = 1 /\ j \in Int
            BY <4>3, <4>5, <4>7, <4>8
          <5> QED BY <4>3, <5>1
        <4> QED BY <1>5, <4>9 DEF u, q
      <3> QED BY <1>5, <3>1, <3>2, <3>3 DEF Awaiting
    <2>5. Near(c)'
      <3> SUFFICES ASSUME NEW t \in Servers, NEW p \in Ids, c \in Members(party_db_[p]),
                          player'[c].at = t \/ Says(toMap'[t], AuthsOf(c))
                   PROVE  Close(party_db[t][p], toMap'[t], p, c)
        BY <1>3 DEF Near
      <3>1. t = s
        BY <1>1, <1>3, <1>5, <2>0
      <3>2. AgreeIn(party_db[s][p], toMap[s], party_db_[p], p, c)
        BY DEF Agreed
      <3>3. /\ party_db[s][p] # None /\ c \notin DOMAIN party_db[s][p].member => Says(toMap[s], Cures(p, c))
            /\ Calm(toMap[s], Skips(p, c), Cures(p, c))
        BY <3>2 DEF AgreeIn, Cures
      <3>4. Says(n, Answers(p, c))
        BY <1>6, OneSays DEF n, Answers
      <3>5. \A i \in DOMAIN n : n[i] \notin Skips(p, c)
        BY <1>6 DEF n
      <3>6. /\ Says(n, Answers(p, c)) /\ Says(toMap[s], Cures(p, c)) =>
                 Then(toMap[s] \o n, Cures(p, c), Answers(p, c))
            /\ Says(n, Answers(p, c)) /\ Calm(toMap[s], Skips(p, c), Cures(p, c)) =>
                 CalmThen(toMap[s] \o n, Skips(p, c), Cures(p, c), Answers(p, c))
        BY <1>4, <3>5, ThenMore
      <3> QED BY <1>5, <3>1, <3>3, <3>4, <3>6 DEF Close
    <2> QED BY <2>1, <2>2, <2>3, <2>4, <2>5 DEF Follows
  <1> QED BY <1>12, <1>13 DEF Chain

-----------------------------------------------------------------------------
(* All of it together. *)
LEMMA StillChain ==
  ASSUME ConstantsOK, Types, Chain, UNCHANGED vars
  PROVE  Chain'
  BY DEF vars, charVars, mapVars, Chain, Follows, Saved, Sent, Awaiting, Invited,
         JoinsOnce, Near

LEMMA ClientChain ==
  ASSUME ConstantsOK, Types, Turns, Agreed, Chain, NEW c \in Chars, Client(c)
  PROVE  Chain'
  <1>1. ASSUME NEW s \in Servers, chmapif_parse_reqauth(c, s) PROVE Chain'
    BY <1>1, ReqAuthChain
  <1>2. ASSUME NEW accepts \in BOOLEAN, party_reply_invite(c, accepts) PROVE Chain'
    BY <1>2, AcceptChain, DeclineChain
  <1>3. ASSUME NEW n \in Leap, party_send_levelup(c, n) PROVE Chain'
    BY <1>3, LevelupChain
  <1>4. ASSUME NEW t \in Chars, party_invite(c, t) PROVE Chain'
    BY <1>4, InviteChain
  <1>5. CASE \/ party_leave(c) \/ pc_autosave(c)
             \/ \E exp \in BOOLEAN : party_changeoption(c, exp)
             \/ \E t \in Chars : party_removemember(c, t) \/ party_changeleader(c, t)
    BY <1>5, AskChain
  <1>6. CASE clif_parse_LoadEndAck(c) \/ party_member_joined(c) \/ party_create(c) \/ map_quit(c)
    BY <1>6, LoadedChain, JoinedChain, CreateAskedChain, QuitChain
  <1> QED BY <1>1, <1>2, <1>3, <1>4, <1>5, <1>6 DEF Client

LEMMA ChainKept ==
  ASSUME ConstantsOK, Types, Agreed, Chain, [Next]_vars
  PROVE  Chain'
  <1>1. Turns /\ Types'
    BY EveryTurn, TypesInductive
  <1>2. ASSUME NEW s \in Servers, CharServer(s) PROVE Chain'
    BY <1>1, <1>2, CharChain
  <1>3. ASSUME NEW s \in Servers, MapServer(s) PROVE Chain'
    BY <1>1, <1>3, MapChain
  <1>4. ASSUME NEW c \in Chars, Client(c) PROVE Chain'
    BY <1>1, <1>4, ClientChain
  <1>5. CASE UNCHANGED vars
    BY <1>5, StillChain
  <1> QED BY <1>2, <1>3, <1>4, <1>5 DEF Next

(* The char-server's parties: the count, the range and the sharing of each. *)
Sounds == \A p \in Ids : party_db_[p] # None => Sound(party_db_[p])

LEMMA FitsHeard ==
  ASSUME ConstantsOK, Types, Chain, NEW s \in Servers, toChar[s] # <<>>, NEW p \in Ids,
         NEW P, P = party_db_[p]
  PROVE  Fits(P, Head(toChar[s]), p)
  <1> DEFINE m == Head(toChar[s])
  <1> SUFFICES ASSUME NEW c \in Members(P)
               PROVE  m \notin JoinsTo(p, c)
    BY DEF Fits
  <1>1. c \in Chars
    <2>1. P # None /\ P \in Parties \cup {None} /\ c \in DOMAIN P.member
      BY DEF Members, Types, Shape
    <2> QED BY <2>1, RosterFacts DEF Parties
  <1>2. toChar[s] \in Seq(ToCharMsg)
    BY LinkTypes DEF Types
  <1>3. \A A : m \in A => Says(toChar[s], A)
    BY <1>2, HeadSaid
  <1> HIDE DEF m
  <1>4. JoinsOnce(c)
    BY <1>1 DEF Chain, Follows
  <1> QED BY <1>3, <1>4 DEF JoinsOnce

LEMMA MapKeeps ==
  ASSUME NEW s \in Servers, MapServer(s)
  PROVE  UNCHANGED party_db_
  <1>1. CASE auth_ok(s) \/ pc_reg_received(s) \/ party_broken(s) \/ party_recv_noinfo(s)
    BY <1>1, Zenon DEF auth_ok, pc_reg_received, party_broken, party_recv_noinfo, Handled, charVars
  <1>2. CASE party_created(s) \/ party_member_added(s)
    BY <1>2, Zenon DEF party_created, party_member_added, Handled, charVars
  <1>3. CASE party_recv_info(s)
    BY <1>3, Zenon DEF party_recv_info, Handled, charVars
  <1>4. CASE party_member_withdraw(s) \/ party_optionchanged(s)
    BY <1>4, Zenon DEF party_member_withdraw, party_optionchanged, Handled, charVars
  <1>5. CASE Crash(s)
    BY <1>5 DEF Crash, charVars
  <1>6. CASE party_recv_movemap(s)
    BY <1>6, Zenon DEF party_recv_movemap, Handled, charVars
  <1> QED BY <1>1, <1>2, <1>3, <1>4, <1>5, <1>6 DEF MapServer

LEMMA ClientKeeps ==
  ASSUME NEW c \in Chars, Client(c)
  PROVE  UNCHANGED party_db_
  <1>1. ASSUME NEW s \in Servers, chmapif_parse_reqauth(c, s) PROVE UNCHANGED party_db_
    BY <1>1 DEF chmapif_parse_reqauth, charVars
  <1>2. ASSUME NEW accepts \in BOOLEAN, party_reply_invite(c, accepts) PROVE UNCHANGED party_db_
    BY <1>2, Zenon DEF party_reply_invite, Request, charVars
  <1>3. ASSUME NEW n \in Leap, party_send_levelup(c, n) PROVE UNCHANGED party_db_
    BY <1>3, Zenon DEF party_send_levelup, Request, charVars
  <1>4. ASSUME NEW t \in Chars,
               party_invite(c, t) \/ party_removemember(c, t) \/ party_changeleader(c, t)
        PROVE  UNCHANGED party_db_
    BY <1>4, Zenon DEF party_invite, party_removemember, party_changeleader, Request, charVars
  <1>5. ASSUME NEW e \in BOOLEAN, party_changeoption(c, e) PROVE UNCHANGED party_db_
    BY <1>5, Zenon DEF party_changeoption, Request, charVars
  <1>6. CASE clif_parse_LoadEndAck(c) \/ party_member_joined(c) \/ party_create(c)
    BY <1>6, Zenon DEF clif_parse_LoadEndAck, party_member_joined, party_create, Request, charVars
  <1>7. CASE party_leave(c) \/ map_quit(c) \/ pc_autosave(c)
    BY <1>7, Zenon DEF party_leave, map_quit, pc_autosave, Request, charVars
  <1> QED BY <1>1, <1>2, <1>3, <1>4, <1>5, <1>6, <1>7 DEF Client

LEMMA SoundsKept ==
  ASSUME ConstantsOK, Types, Agreed, Chain, Sounds, [Next]_vars
  PROVE  Sounds'
  <1>1. ASSUME NEW s \in Servers, CharServer(s) PROVE Sounds'
    <2> SUFFICES ASSUME NEW p \in Ids, party_db_'[p] # None PROVE Sound(party_db_'[p])
      BY DEF Sounds
    <2>1. PICK P, Q, m : P = party_db_[p] /\ Q = party_db_'[p] /\ m = Head(toChar[s])
      OBVIOUS
    <2>2. Turns
      BY EveryTurn
    <2>3. CharStep(s)
      BY <1>1, <2>2, CharChain
    <2>4. toChar[s] # <<>> /\ Becomes(P, Q, m, p)
      BY <2>1, <2>3 DEF CharStep
    <2>5. Fits(P, m, p)
      BY <2>1, <2>4, FitsHeard
    <2>6. P # None => Sound(P)
      BY <2>1 DEF Sounds
    <2> QED BY <2>1, <2>4, <2>5, <2>6 DEF Becomes
  <1>2. ASSUME UNCHANGED party_db_ PROVE Sounds'
    BY <1>2 DEF Sounds
  <1>3. CASE UNCHANGED vars
    BY <1>2, <1>3 DEF vars, charVars
  <1> QED BY <1>1, <1>2, <1>3, MapKeeps, ClientKeeps DEF Next

LEMMA ExpsKept ==
  ASSUME ConstantsOK, Types, AgreedExp, Sounds, [Next]_vars
  PROVE  AgreedExp'
  <1> SUFFICES ASSUME NEW s \in Servers, NEW p \in Ids
               PROVE  AgreeExp(party_db'[s][p], toMap'[s], party_db_'[p], p)
    BY DEF AgreedExp
  <1> DEFINE C == party_db[s][p]
             P == party_db_[p]
             q == toMap[s]
  <1>1. PICK D, Q, r : D = party_db'[s][p] /\ Q = party_db_'[p] /\ r = toMap'[s]
    OBVIOUS
  <1>2. Turn(C, q, P, D, r, Q, p)
    BY <1>1, EveryTurn DEF Turns
  <1>3. q \in Seq(ToMapMsg)
    BY DEF Types, Shape
  <1>4. AgreeExp(C, q, P, p) /\ (P # None => Sound(P))
    BY DEF AgreedExp, Sounds
  <1> HIDE DEF C, P, q
  <1>5. AgreeExp(D, r, Q, p)
    BY <1>2, <1>3, <1>4, ExpKept
  <1> QED BY <1>1, <1>5

LEMMA ChainFirst ==
  ASSUME ConstantsOK, Init
  PROVE  Chain
  <1> SUFFICES ASSUME NEW c \in Chars PROVE Follows(c)
    BY DEF Chain
  <1>1. \A s \in Servers : toMap[s] = <<>> /\ toChar[s] = <<>>
    BY InitFacts
  <1>2. player[c].invite = 0 /\ Types
    BY InitFacts, InitTypes
  <1>3. \A A, B, G : /\ ~Says(<<>>, A) /\ Calm(<<>>, B, G) /\ Once(<<>>, A) /\ Before(<<>>, A, B)
    BY DEF Says, Calm, Once, Before
  <1>4. Saved(c) /\ Sent(c) /\ Awaiting(c) /\ JoinsOnce(c)
    BY <1>1, <1>3 DEF Saved, Sent, Awaiting, JoinsOnce
  <1>5. Invited(c)
    BY <1>2 DEF Invited, Ids
  <1>6. Near(c)
    <2> SUFFICES ASSUME NEW s \in Servers, NEW p \in Ids, c \in Members(party_db_[p])
                 PROVE  Close(party_db[s][p], <<>>, p, c)
      BY <1>1 DEF Near
    <2>1. party_db[s][p] # None => c \in DOMAIN party_db[s][p].member
      BY InitFacts DEF Members
    <2>2. \A B, G, K : CalmThen(<<>>, B, G, K)
      BY DEF CalmThen
    <2> QED BY <2>1, <2>2 DEF Close
  <1> QED BY <1>4, <1>5, <1>6 DEF Follows

-----------------------------------------------------------------------------
(* Who waits for a party is answered: the request is under way to the      *)
(* char-server, or the answer is under way back.                           *)
CreatesOf(c)  == {m \in ToCharMsg : m.kind = "create" /\ m.who = c}
CreatedsOf(c) == {m \in ToMapMsg : m.kind = "created" /\ m.who = c}
Hears(s, Q, A) == Says(toChar[s], Q) \/ Says(toMap[s], A)
Served(c) ==
  /\ player[c].state = "auth" => player[c].creating # TRUE /\ player[c].joining # TRUE
  /\ \A s \in Servers : player[c].at = s =>
       /\ player[c].creating = TRUE => Hears(s, CreatesOf(c), CreatedsOf(c))
       /\ player[c].joining = TRUE => Hears(s, JoinsOf(c), AddedsOf(c))
AllServed == \A c \in Chars : Served(c)

(* c does not begin to wait, nor to play. *)
Bides(c) ==
  /\ player'[c].state = "auth" => player[c].state = "auth"
  /\ \A t \in Servers : player'[c].at = t => player[c].at = t
  /\ player'[c].creating = TRUE => player[c].creating = TRUE
  /\ player'[c].joining = TRUE => player[c].joining = TRUE
Keeps(c, t) ==
  /\ Hears(t, CreatesOf(c), CreatedsOf(c)) => Hears(t, CreatesOf(c), CreatedsOf(c))'
  /\ Hears(t, JoinsOf(c), AddedsOf(c)) => Hears(t, JoinsOf(c), AddedsOf(c))'

LEMMA ServedKept ==
  ASSUME NEW c \in Chars, Served(c), Bides(c),
         \A t \in Servers : player'[c].at = t => Keeps(c, t)
  PROVE  Served(c)'
  BY DEF Served, Bides, Keeps

LEMMA TailSays ==
  ASSUME NEW T, NEW q \in Seq(T), q # <<>>, NEW G, Says(q, G), Head(q) \notin G
  PROVE  Says(Tail(q), G)
  <1> DEFINE B == {}
  <1>1. Calm(q, B, G)
    BY DEF Calm
  <1> HIDE DEF B
  <1> QED BY <1>1, CalmTail

LEMMA StaysSay ==
  ASSUME NEW q, NEW r, NEW G, Stays(q, r), Says(q, G)
  PROVE  Says(r, G)
  BY DEF Stays, Says

(* The char-server answers the first message. *)
LEMMA CharHears ==
  ASSUME Types, NEW s \in Servers, CharStep(s), NEW Q, NEW A,
         Head(toChar[s]) \in Q => Says(toMap'[s], A), NEW t \in Servers, Hears(t, Q, A)
  PROVE  Hears(t, Q, A)'
  <1>1. /\ toChar[s] # <<>> /\ toChar'[s] = Tail(toChar[s])
        /\ \A u \in Servers \ {s} : toChar'[u] = toChar[u]
        /\ Stays(toMap[t], toMap'[t])
    BY DEF CharStep
  <1>2. CASE Says(toMap[t], A)
    BY <1>1, <1>2, StaysSay DEF Hears
  <1>3. CASE Says(toChar[t], Q)
    <2>1. CASE t # s
      BY <1>1, <1>3, <2>1 DEF Hears
    <2>2. CASE t = s /\ Head(toChar[s]) \in Q
      BY <2>2 DEF Hears
    <2>3. CASE t = s /\ Head(toChar[s]) \notin Q
      <3>1. toChar[s] \in Seq(ToCharMsg)
        BY DEF Types, Shape
      <3>2. Says(Tail(toChar[s]), Q)
        BY <1>1, <1>3, <2>3, <3>1, TailSays
      <3> QED BY <1>1, <2>3, <3>2 DEF Hears
    <2> QED BY <2>1, <2>2, <2>3
  <1> QED BY <1>2, <1>3 DEF Hears

(* A map-server handles the first message. *)
LEMMA MapHears ==
  ASSUME Types, NEW s \in Servers, NEW packets \in Seq(ToCharMsg), Handled(s, packets),
         toMap[s] # <<>>, NEW Q, NEW A, NEW t \in Servers, Hears(t, Q, A),
         t = s => Head(toMap[s]) \notin A
  PROVE  Hears(t, Q, A)'
  <1> DEFINE N == ToCharMsg
  <1>1. N \subseteq ToCharMsg /\ packets \in Seq(N)
    OBVIOUS
  <1> HIDE DEF N
  <1>2. /\ toMap'[s] = Tail(toMap[s]) /\ toChar'[s] = toChar[s] \o packets
        /\ \A u \in Servers : u # s => toMap'[u] = toMap[u] /\ toChar'[u] = toChar[u]
    BY <1>1, HandledLinks
  <1>3. CASE t # s
    BY <1>2, <1>3 DEF Hears
  <1>4. CASE t = s
    <2>1. toChar[s] \in Seq(ToCharMsg) /\ toMap[s] \in Seq(ToMapMsg)
      BY DEF Types, Shape
    <2>2. Says(toChar[s], Q) => Says(toChar[s] \o packets, Q)
      BY <2>1, SaysMore
    <2>3. Says(toMap[s], A) => Says(Tail(toMap[s]), A)
      BY <1>4, <2>1, TailSays
    <2> QED BY <1>2, <1>4, <2>2, <2>3 DEF Hears
  <1> QED BY <1>3, <1>4

(* A player asks for something. *)
LEMMA GrownKeeps ==
  ASSUME Grows, NEW c \in Chars, NEW t \in Servers
  PROVE  Keeps(c, t)
  BY StaysSay DEF Grows, Keeps, Hears

LEMMA AnswerSays ==
  ASSUME Types, NEW s \in Servers, NEW T, NEW one \in Seq(T), Answer(s, <<>>, one),
         NEW G, Says(one, G)
  PROVE  Says(toMap'[s], G)
  <1> DEFINE q == toMap[s]
             S == ToMapMsg \cup T
             none == <<>>
  <1>1. toMap' = [t \in Servers |-> toMap[t] \o none \o IF t = s THEN one ELSE <<>>]
    BY Zenon DEF Answer
  <1>2. q \in Seq(ToMapMsg)
    BY DEF Types, Shape
  <1>3. toMap'[s] = q \o none \o one
    <2> HIDE DEF none
    <2> QED BY <1>1
  <1> HIDE DEF q
  <1>4. q \o none = q
    BY <1>2
  <1>5. ToMapMsg \subseteq S /\ T \subseteq S
    OBVIOUS
  <1> HIDE DEF none, S
  <1>6. q \in Seq(S) /\ one \in Seq(S)
    BY <1>2, <1>5, SeqMonotonic
  <1>7. Says(q \o one, G)
    BY <1>6, SaysMore
  <1> QED BY <1>3, <1>4, <1>7

LEMMA CreateAnswered ==
  ASSUME ConstantsOK, Types, NEW s \in Servers, CreateParty(s),
         NEW c \in Chars, Head(toChar[s]) \in CreatesOf(c)
  PROVE  Says(toMap'[s], CreatedsOf(c))
  <1> DEFINE p == lastId + 1
             x == Info(p, Founded([d \in {Head(toChar[s]).who} |-> Head(toChar[s]).as]), None)
             y == Created(c, p)
             z == Created(c, 0)
             one == <<x, y>>
             two == <<z>>
             G == CreatedsOf(c)
  <1>1. Head(toChar[s]).who = c /\ 0 \in 0 .. LastParty /\ Ids \subseteq 0 .. LastParty
    BY DEF CreatesOf, Ids, ConstantsOK
  <1>2. \/ p \in Ids /\ Answer(s, <<>>, one)
        \/ Answer(s, <<>>, two)
    BY <1>1, Zenon DEF CreateParty
  <1> HIDE DEF p
  <1>3. z \in G /\ (p \in Ids => y \in G)
    <2>1. \A o \in 0 .. LastParty : Created(c, o) \in G
      BY ToMapMade2 DEF CreatedsOf, Created
    <2> QED BY <1>1, <2>1
  <1> HIDE DEF x, y, z, G
  <1>4. /\ one \in Seq({x, y}) /\ DOMAIN one = {1, 2} /\ one[2] = y
        /\ two \in Seq({z}) /\ DOMAIN two = {1} /\ two[1] = z
    OBVIOUS
  <1>5. Says(two, G) /\ (p \in Ids => Says(one, G))
    BY <1>3, <1>4 DEF Says
  <1> DEFINE T1 == {x, y}
             T2 == {z}
  <1>6. one \in Seq(T1) /\ two \in Seq(T2)
    BY <1>4
  <1> HIDE DEF one, two, T1, T2
  <1>7. Says(toMap'[s], G)
    <2>1. CASE Answer(s, <<>>, two)
      BY <1>5, <1>6, <2>1, AnswerSays
    <2>2. CASE p \in Ids /\ Answer(s, <<>>, one)
      BY <1>5, <1>6, <2>2, AnswerSays
    <2> QED BY <1>2, <2>1, <2>2
  <1> QED BY <1>7 DEF G

LEMMA JoinAnswered ==
  ASSUME ConstantsOK, Types, NEW s \in Servers, PartyAddMember(s),
         NEW c \in Chars, Head(toChar[s]) \in JoinsOf(c)
  PROVE  Says(toMap'[s], AddedsOf(c))
  <1>1. PICK p \in Ids, d \in Chars : Head(toChar[s]) \in JoinsTo(p, d) /\ Welcomed(s, p, d)
    BY JoinSteps
  <1>2. d = c
    BY <1>1 DEF JoinsTo, JoinsOf
  <1>3. PICK n \in Seq(ToMapMsg), x \in AddedsOf(c) : toMap'[s] = toMap[s] \o (n \o <<x>>)
    BY <1>1, <1>2 DEF Welcomed
  <1> DEFINE q == toMap[s]
             G == AddedsOf(c)
             one == <<x>>
  <1>4. q \in Seq(ToMapMsg) /\ one \in Seq(ToMapMsg) /\ DOMAIN one = {1} /\ one[1] \in G
    BY DEF Types, Shape, AddedsOf
  <1> HIDE DEF q, G, one
  <1>5. Says(n \o one, G)
    <2>1. Says(one, G)
      BY <1>4 DEF Says
    <2> QED BY <1>4, <2>1, SaysMore
  <1>6. n \o one \in Seq(ToMapMsg)
    BY <1>4, ConcatProperties, Zenon
  <1>7. Says(q \o (n \o one), G)
    BY <1>4, <1>5, <1>6, SaysMore
  <1> QED BY <1>3, <1>7 DEF q, G, one

LEMMA HeadCreates ==
  ASSUME NEW s \in Servers, CharServer(s), Head(toChar[s]).kind = "create"
  PROVE  CreateParty(s)
  <1>1. ~PartyInfo(s) /\ ~char_mmo_char_tosql(s) /\ ~RegistryRequest(s)
    BY DEF PartyInfo, char_mmo_char_tosql, RegistryRequest, Heard
  <1>2. ~PartyChangeOption(s) /\ ~PartyLeave(s)
    BY Zenon DEF PartyChangeOption, PartyLeave, Heard
  <1>3. ~PartyChangeMap(s) /\ ~PartyLeaderChange(s) /\ ~PartyAddMember(s)
    BY Zenon DEF PartyChangeMap, PartyLeaderChange, PartyAddMember, Heard
  <1> QED BY <1>1, <1>2, <1>3 DEF CharServer

LEMMA HeadJoins ==
  ASSUME NEW s \in Servers, CharServer(s), Head(toChar[s]).kind = "join"
  PROVE  PartyAddMember(s)
  <1>1. ~PartyInfo(s) /\ ~char_mmo_char_tosql(s) /\ ~RegistryRequest(s)
    BY DEF PartyInfo, char_mmo_char_tosql, RegistryRequest, Heard
  <1>2. ~PartyChangeOption(s) /\ ~PartyLeave(s)
    BY Zenon DEF PartyChangeOption, PartyLeave, Heard
  <1>3. ~PartyChangeMap(s) /\ ~PartyLeaderChange(s) /\ ~CreateParty(s)
    BY Zenon DEF PartyChangeMap, PartyLeaderChange, CreateParty, Heard
  <1> QED BY <1>1, <1>2, <1>3 DEF CharServer

LEMMA CharServed ==
  ASSUME ConstantsOK, Types, AllServed, NEW s \in Servers, CharServer(s), CharStep(s)
  PROVE  AllServed'
  <1> SUFFICES ASSUME NEW c \in Chars PROVE Served(c)'
    BY DEF AllServed
  <1>1. player' = player
    BY DEF CharStep, mapVars
  <1>2. Head(toChar[s]) \in CreatesOf(c) => Says(toMap'[s], CreatedsOf(c))
    <2>1. Head(toChar[s]) \in CreatesOf(c) => CreateParty(s)
      BY HeadCreates DEF CreatesOf
    <2> QED BY <2>1, CreateAnswered
  <1>3. Head(toChar[s]) \in JoinsOf(c) => Says(toMap'[s], AddedsOf(c))
    <2>1. Head(toChar[s]) \in JoinsOf(c) => PartyAddMember(s)
      BY HeadJoins DEF JoinsOf
    <2> QED BY <2>1, JoinAnswered
  <1>4. ASSUME NEW t \in Servers PROVE Keeps(c, t)
    <2>1. Hears(t, CreatesOf(c), CreatedsOf(c)) => Hears(t, CreatesOf(c), CreatedsOf(c))'
      BY <1>2, CharHears
    <2>2. Hears(t, JoinsOf(c), AddedsOf(c)) => Hears(t, JoinsOf(c), AddedsOf(c))'
      BY <1>3, CharHears
    <2> QED BY <2>1, <2>2 DEF Keeps
  <1>5. Served(c) /\ Bides(c)
    BY <1>1 DEF AllServed, Bides
  <1> QED BY <1>4, <1>5, ServedKept

(* A map-server handles an answer, or something else. *)
LEMMA MapKeeping ==
  ASSUME Types, NEW s \in Servers, toMap[s] # <<>>, NEW T, T \subseteq ToCharMsg,
         NEW packets \in Seq(T), Handled(s, packets), NEW c \in Chars, NEW t \in Servers,
         t = s => Head(toMap[s]) \notin CreatedsOf(c) /\ Head(toMap[s]) \notin AddedsOf(c)
  PROVE  Keeps(c, t)
  <1>1. packets \in Seq(ToCharMsg)
    BY SeqMonotonic
  <1>2. Hears(t, CreatesOf(c), CreatedsOf(c)) => Hears(t, CreatesOf(c), CreatedsOf(c))'
    BY <1>1, MapHears
  <1>3. Hears(t, JoinsOf(c), AddedsOf(c)) => Hears(t, JoinsOf(c), AddedsOf(c))'
    BY <1>1, MapHears
  <1> QED BY <1>2, <1>3 DEF Keeps

LEMMA CalmerServed ==
  ASSUME ConstantsOK, Types, AllServed, NEW s \in Servers, Calmer(s),
         Head(toMap[s]).kind \notin {"created", "added"}
  PROVE  AllServed'
  <1> SUFFICES ASSUME NEW c \in Chars PROVE Served(c)'
    BY DEF AllServed
  <1> DEFINE N == LeaveMsgs
  <1>1. N \subseteq ToCharMsg
    BY DEF LeaveMsgs, ToCharMsg
  <1>2. PICK packets \in Seq(N) : Handled(s, packets) /\ toMap[s] # <<>>
    BY DEF Calmer
  <1> HIDE DEF N
  <1>3. Head(toMap[s]) \notin CreatedsOf(c) /\ Head(toMap[s]) \notin AddedsOf(c)
    BY DEF CreatedsOf, AddedsOf
  <1>4. \A t \in Servers : Keeps(c, t)
    BY <1>1, <1>2, <1>3, MapKeeping
  <1>5. Served(c) /\ Bides(c)
    BY DEF AllServed, Calmer, Settled, Waitless, Bides
  <1> QED BY <1>4, <1>5, ServedKept

(* An answer arrives: nobody waits for it any more. *)
LEMMA CreatedServed ==
  ASSUME ConstantsOK, Types, AllServed, NEW s \in Servers, party_created(s)
  PROVE  AllServed'
  <1> SUFFICES ASSUME NEW c \in Chars PROVE Served(c)'
    BY DEF AllServed
  <1> DEFINE m == Head(toMap[s])
             d == m.who
             id == IF m.party = 0 THEN player[d].party_id ELSE m.party
             y == [player[d] EXCEPT !.creating = FALSE, !.party_id = id]
             N == LeaveMsgs
  <1>1. toMap[s] # <<>> /\ m \in Createds
    BY ToldFacts, ToMapKinds DEF party_created
  <1>2. d \in Chars /\ (m \in CreatedsOf(c) => d = c) /\ m \notin AddedsOf(c)
    BY <1>1 DEF Createds, CreatedsOf, AddedsOf
  <1>3. \/ Here(s, d) /\ player[d].creating = TRUE /\ player' = [player EXCEPT ![d] = y]
        \/ ~(Here(s, d) /\ player[d].creating = TRUE) /\ player' = player
    <2>1. \/ Here(s, d) /\ player[d].creating /\ player' = [player EXCEPT ![d] = y]
          \/ ~(Here(s, d) /\ player[d].creating) /\ player' = player
      BY DEF party_created
    <2>2. player[d].creating \in BOOLEAN
      BY <1>2, SessionFacts DEF Types, Shape
    <2> HIDE DEF d, y
    <2> QED BY <2>1, <2>2
  <1>4. N \subseteq ToCharMsg
    BY DEF LeaveMsgs, ToCharMsg
  <1>5. PICK packets \in Seq(N) : Handled(s, packets)
    BY CreatedSteps DEF Calmer
  <1>6. Here(s, d) => /\ y.creating = FALSE /\ y.at = s /\ y.state = player[d].state
                      /\ y.joining = player[d].joining
    <2>1. Here(s, d) => player[d] \in Sessions
      BY <1>2, SessionFacts DEF Here, Types, Shape
    <2> HIDE DEF d, m, id
    <2> QED BY <2>1 DEF Sessions, Here
  <1>7. player \in [Chars -> Sessions \cup {Away}] /\ Served(c)
    BY DEF Types, Shape, AllServed
  <1> HIDE DEF d, m, N, y
  <1>8. Here(s, d) => player[d].at = s
    BY DEF Here
  <1>9. Bides(c)
    <2>1. CASE player' = player
      BY <2>1 DEF Bides
    <2>2. CASE Here(s, d) /\ player' = [player EXCEPT ![d] = y]
      <3>1. CASE c = d
        BY <1>2, <1>6, <1>7, <1>8, <2>2, <3>1 DEF Bides
      <3>2. CASE c # d
        BY <1>2, <1>7, <2>2, <3>2 DEF Bides
      <3> QED BY <3>1, <3>2
    <2> QED BY <1>3, <2>1, <2>2
  <1>10. \A t \in Servers : t # s \/ m \notin CreatedsOf(c) => Keeps(c, t)
    BY <1>1, <1>2, <1>4, <1>5, MapKeeping DEF m
  <1>11. Hears(s, JoinsOf(c), AddedsOf(c)) => Hears(s, JoinsOf(c), AddedsOf(c))'
    BY <1>1, <1>2, <1>4, <1>5, MapHears, SeqMonotonic DEF m
  <1>12. m \in CreatedsOf(c) /\ player'[c].at = s => player'[c].creating # TRUE
    <2> SUFFICES ASSUME m \in CreatedsOf(c), player'[c].at = s, player'[c].creating = TRUE
                 PROVE  FALSE
      OBVIOUS
    <2>1. d = c /\ player[c].at = s /\ player[c].creating = TRUE
      BY <1>2, <1>9 DEF Bides
    <2>2. player[c].state # "auth"
      BY <1>7, <2>1 DEF Served
    <2>3. Here(s, d)
      BY <2>1, <2>2 DEF Here
    <2> QED BY <1>3, <1>6, <1>7, <2>1, <2>3
  <1> QED BY <1>7, <1>9, <1>10, <1>11, <1>12 DEF Served, Bides, Keeps

LEMMA AddedServed ==
  ASSUME ConstantsOK, Types, AllServed, NEW s \in Servers, party_member_added(s)
  PROVE  AllServed'
  <1> SUFFICES ASSUME NEW c \in Chars PROVE Served(c)'
    BY DEF AllServed
  <1> DEFINE m == Head(toMap[s])
             d == m.who
             known == Copy(s, m.party) # None
             id == IF known /\ ~m.flag THEN m.party ELSE player[d].party_id
             y == [player[d] EXCEPT !.joining = FALSE, !.invite = 0, !.party_id = id]
             N == LeaveMsgs
  <1>1. toMap[s] # <<>> /\ m \in Addeds
    BY ToldFacts, ToMapKinds DEF party_member_added
  <1>2. d \in Chars /\ (m \in AddedsOf(c) => d = c) /\ m \notin CreatedsOf(c)
    BY <1>1 DEF Addeds, CreatedsOf, AddedsOf
  <1>3. \/ Here(s, d) /\ player[d].joining = TRUE /\ player' = [player EXCEPT ![d] = y]
        \/ ~(Here(s, d) /\ player[d].joining = TRUE) /\ player' = player
    <2>1. \/ Here(s, d) /\ player[d].joining /\ player' = [player EXCEPT ![d] = y]
          \/ ~(Here(s, d) /\ player[d].joining) /\ player' = player
      BY Zenon DEF party_member_added
    <2>2. player[d].joining \in BOOLEAN
      BY <1>2, SessionFacts DEF Types, Shape
    <2> HIDE DEF d, y
    <2> QED BY <2>1, <2>2
  <1>4. N \subseteq ToCharMsg
    BY DEF LeaveMsgs, ToCharMsg
  <1>5. PICK packets \in Seq(N) : Handled(s, packets)
    BY AddedSteps DEF Calmer, Greeted
  <1>6. Here(s, d) => /\ y.joining = FALSE /\ y.at = s /\ y.state = player[d].state
                      /\ y.creating = player[d].creating
    <2>1. Here(s, d) => player[d] \in Sessions
      BY <1>2, SessionFacts DEF Here, Types, Shape
    <2> HIDE DEF d, m, id
    <2> QED BY <2>1 DEF Sessions, Here
  <1>7. player \in [Chars -> Sessions \cup {Away}] /\ Served(c)
    BY DEF Types, Shape, AllServed
  <1> HIDE DEF d, m, N, y
  <1>8. Here(s, d) => player[d].at = s
    BY DEF Here
  <1>9. Bides(c)
    <2>1. CASE player' = player
      BY <2>1 DEF Bides
    <2>2. CASE Here(s, d) /\ player' = [player EXCEPT ![d] = y]
      <3>1. CASE c = d
        BY <1>2, <1>6, <1>7, <1>8, <2>2, <3>1 DEF Bides
      <3>2. CASE c # d
        BY <1>2, <1>7, <2>2, <3>2 DEF Bides
      <3> QED BY <3>1, <3>2
    <2> QED BY <1>3, <2>1, <2>2
  <1>10. \A t \in Servers : t # s \/ m \notin AddedsOf(c) => Keeps(c, t)
    BY <1>1, <1>2, <1>4, <1>5, MapKeeping DEF m
  <1>11. Hears(s, CreatesOf(c), CreatedsOf(c)) => Hears(s, CreatesOf(c), CreatedsOf(c))'
    BY <1>1, <1>2, <1>4, <1>5, MapHears, SeqMonotonic DEF m
  <1>12. m \in AddedsOf(c) /\ player'[c].at = s => player'[c].joining # TRUE
    <2> SUFFICES ASSUME m \in AddedsOf(c), player'[c].at = s, player'[c].joining = TRUE
                 PROVE  FALSE
      OBVIOUS
    <2>1. d = c /\ player[c].at = s /\ player[c].joining = TRUE
      BY <1>2, <1>9 DEF Bides
    <2>2. player[c].state # "auth"
      BY <1>7, <2>1 DEF Served
    <2>3. Here(s, d)
      BY <2>1, <2>2 DEF Here
    <2> QED BY <1>3, <1>6, <1>7, <2>1, <2>3
  <1> QED BY <1>7, <1>9, <1>10, <1>11, <1>12 DEF Served, Bides, Keeps

(* A character enters the game, and waits for nothing. *)
LEMMA AuthServed ==
  ASSUME ConstantsOK, Types, AllServed, NEW s \in Servers, auth_ok(s)
  PROVE  AllServed'
  <1> SUFFICES ASSUME NEW c \in Chars PROVE Served(c)'
    BY DEF AllServed
  <1> DEFINE m == Head(toMap[s])
             d == m.who
             y == [Away EXCEPT !.at = s, !.state = "auth", !.party_id = m.party]
             reg == [kind |-> "reg", who |-> d]
             packets == <<reg>>
             N == RegMsgs
  <1>1. toMap[s] # <<>> /\ m \in Auths
    BY ToldFacts, ToMapKinds DEF auth_ok
  <1>2. d \in Chars /\ m \notin CreatedsOf(c) /\ m \notin AddedsOf(c)
    BY <1>1 DEF Auths, CreatedsOf, AddedsOf
  <1>3. player' = [player EXCEPT ![d] = y] /\ Handled(s, packets)
    BY DEF auth_ok
  <1>4. reg \in N /\ N \subseteq ToCharMsg
    BY <1>2 DEF RegMsgs, ToCharMsg
  <1>5. y.creating = FALSE /\ y.joining = FALSE
    BY DEF Away
  <1>6. player \in [Chars -> Sessions \cup {Away}] /\ Served(c)
    BY DEF Types, Shape, AllServed
  <1> HIDE DEF y, d, reg, N
  <1>7. packets \in Seq(N)
    BY <1>4
  <1> HIDE DEF packets
  <1>8. \A t \in Servers : Keeps(c, t)
    BY <1>1, <1>2, <1>3, <1>4, <1>7, MapKeeping
  <1>9. CASE c = d
    <2>1. player'[c].creating # TRUE /\ player'[c].joining # TRUE
      BY <1>3, <1>5, <1>6, <1>9
    <2> QED BY <2>1 DEF Served
  <1>10. CASE c # d
    <2>1. player'[c] = player[c]
      BY <1>3, <1>6, <1>10
    <2>2. Bides(c)
      BY <2>1 DEF Bides
    <2> QED BY <1>6, <1>8, <2>2, ServedKept
  <1> QED BY <1>9, <1>10

(* The map-server is gone, and its players have forgotten. *)
LEMMA CrashServed ==
  ASSUME ConstantsOK, Types, AllServed, NEW s \in Servers, Crash(s)
  PROVE  AllServed'
  <1> SUFFICES ASSUME NEW c \in Chars PROVE Served(c)'
    BY DEF AllServed
  <1>1. /\ player'[c] = IF player[c].at = s THEN Away ELSE player[c]
        /\ toMap' = [toMap EXCEPT ![s] = <<>>] /\ toChar' = [toChar EXCEPT ![s] = <<>>]
    BY DEF Crash
  <1>2. /\ Away.state = "off" /\ Away.at = None /\ Away.creating # TRUE /\ Away.joining # TRUE
        /\ None \notin Servers /\ Served(c)
    BY DEF Away, ConstantsOK, AllServed
  <1>3. \A t \in Servers \ {s} : toMap'[t] = toMap[t] /\ toChar'[t] = toChar[t]
    BY <1>1 DEF Types, Shape
  <1>4. CASE player[c].at = s
    BY <1>1, <1>2, <1>4 DEF Served
  <1>5. CASE player[c].at # s
    <2>1. player'[c] = player[c]
      BY <1>1, <1>5
    <2>2. \A t \in Servers \ {s} : Keeps(c, t)
      BY <1>3 DEF Keeps, Hears
    <2>3. Bides(c) /\ \A t \in Servers : player'[c].at = t => Keeps(c, t)
      BY <1>5, <2>1, <2>2 DEF Bides
    <2> QED BY <1>2, <2>3, ServedKept
  <1> QED BY <1>4, <1>5

LEMMA MapServed ==
  ASSUME ConstantsOK, Types, AllServed, NEW s \in Servers, MapServer(s)
  PROVE  AllServed'
  <1>1. CASE auth_ok(s) \/ Crash(s) \/ party_member_added(s) \/ party_created(s)
    BY <1>1, AuthServed, CrashServed, AddedServed, CreatedServed
  <1>2. CASE \/ pc_reg_received(s) \/ party_recv_info(s) \/ party_recv_noinfo(s)
             \/ party_broken(s) \/ party_member_withdraw(s) \/ party_optionchanged(s)
             \/ party_recv_movemap(s)
    <2>1. Calmer(s)
      BY <1>2, RegReceivedSteps, RecvInfoSteps, NoInfoSteps, BrokenSteps,
         WithdrawSteps, OptionSteps, MovemapSteps
    <2>2. Head(toMap[s]).kind \notin {"created", "added"}
      <3>1. /\ pc_reg_received(s) => Told(s, "reg")
            /\ party_recv_info(s) => Told(s, "info")
            /\ party_recv_noinfo(s) => Told(s, "noinfo")
            /\ party_broken(s) => Told(s, "broken")
            /\ party_member_withdraw(s) => Told(s, "withdraw")
            /\ party_optionchanged(s) => Told(s, "option")
            /\ party_recv_movemap(s) => Told(s, "moved")
        BY Zenon DEF pc_reg_received, party_recv_info, party_recv_noinfo, party_broken,
           party_member_withdraw, party_optionchanged, party_recv_movemap
      <3> QED BY <1>2, <3>1 DEF Told
    <2> QED BY <2>1, <2>2, CalmerServed
  <1> QED BY <1>1, <1>2 DEF MapServer

(* Only c changes, and goes on as it did, or waits for an answer. *)
LEMMA OneServed ==
  ASSUME ConstantsOK, Types, AllServed, Grows, NEW c \in Chars, NEW y,
         player' = [player EXCEPT ![c] = y], y.state # "auth",
         \A t \in Servers : y.at = t => player[c].at = t,
         y.creating = TRUE => \/ player[c].creating = TRUE
                              \/ \A t \in Servers : y.at = t => Says(toChar'[t], CreatesOf(c)),
         y.joining = TRUE => \/ player[c].joining = TRUE
                             \/ \A t \in Servers : y.at = t => Says(toChar'[t], JoinsOf(c))
  PROVE  AllServed'
  <1> SUFFICES ASSUME NEW d \in Chars PROVE Served(d)'
    BY DEF AllServed
  <1>1. player'[c] = y /\ (d # c => player'[d] = player[d]) /\ Served(d)
    BY DEF Types, Shape, AllServed
  <1>2. \A t \in Servers : Keeps(d, t)
    BY GrownKeeps
  <1>3. CASE d # c
    <2>1. Bides(d)
      BY <1>1, <1>3 DEF Bides
    <2> QED BY <1>1, <1>2, <2>1, ServedKept
  <1>4. CASE d = c
    BY <1>1, <1>2, <1>4 DEF Served, Keeps, Hears
  <1> QED BY <1>3, <1>4

LEMMA SameServed ==
  ASSUME AllServed, Grows, player' = player
  PROVE  AllServed'
  <1> SUFFICES ASSUME NEW d \in Chars PROVE Served(d)'
    BY DEF AllServed
  <1>1. \A t \in Servers : Keeps(d, t)
    BY GrownKeeps
  <1>2. Served(d) /\ Bides(d)
    BY DEF AllServed, Bides
  <1> QED BY <1>1, <1>2, ServedKept

(* The char-server hears what c asks for. *)
LEMMA RequestSaid ==
  ASSUME Types, NEW s \in Servers, NEW m \in ToCharMsg, Request(s, <<m>>), NEW G, m \in G
  PROVE  Says(toChar'[s], G)
  <1> DEFINE q == toChar[s]
             one == <<m>>
  <1>1. q \in Seq(ToCharMsg) /\ one \in Seq(ToCharMsg) /\ DOMAIN one = {1} /\ one[1] = m
    BY DEF Types, Shape
  <1>2. toChar'[s] = q \o one
    BY DEF Request, Types, Shape
  <1> HIDE DEF q, one
  <1>3. Says(one, G)
    BY <1>1 DEF Says
  <1> QED BY <1>1, <1>2, <1>3, SaysMore

LEMMA CreateServed ==
  ASSUME ConstantsOK, Types, Grows, AllServed, NEW c \in Chars, party_create(c)
  PROVE  AllServed'
  <1> DEFINE y == [player[c] EXCEPT !.creating = TRUE]
             m == [kind |-> "create", who |-> c, as |-> Filled(c, TRUE)]
             s == player[c].at
  <1>1. /\ player[c].state \in {"reg", "map"} /\ player' = [player EXCEPT ![c] = y]
        /\ Request(s, <<m>>)
    BY DEF party_create, Asks
  <1>2. player[c] \in Sessions /\ s \in Servers /\ level[c] \in 1 .. TopLevel
    BY <1>1, InGame
  <1>3. y.state # "auth" /\ y.at = s /\ y.joining = player[c].joining
    BY <1>1, <1>2 DEF Sessions
  <1>4. m \in ToCharMsg /\ m \in CreatesOf(c)
    <2>1. Filled(c, TRUE) \in Member
      BY <1>2 DEF Filled, Member
    <2>2. m \in ToCharMsg
      BY <2>1, ToCharMade
    <2> QED BY <2>2 DEF CreatesOf
  <1> HIDE DEF m, y, s
  <1>5. Says(toChar'[s], CreatesOf(c))
    BY <1>1, <1>2, <1>4, RequestSaid
  <1>6. /\ \A t \in Servers : y.at = t => player[c].at = t
        /\ y.creating = TRUE =>
             \/ player[c].creating = TRUE
             \/ \A t \in Servers : y.at = t => Says(toChar'[t], CreatesOf(c))
        /\ y.joining = TRUE =>
             \/ player[c].joining = TRUE
             \/ \A t \in Servers : y.at = t => Says(toChar'[t], JoinsOf(c))
    BY <1>3, <1>5 DEF s
  <1> QED BY <1>1, <1>3, <1>6, OneServed

LEMMA ReplyServed ==
  ASSUME ConstantsOK, Types, Grows, AllServed, NEW c \in Chars, NEW accepts \in BOOLEAN,
         party_reply_invite(c, accepts)
  PROVE  AllServed'
  <1> DEFINE y == [player[c] EXCEPT !.joining = TRUE]
             z == [player[c] EXCEPT !.invite = 0]
             p == player[c].invite
             m == [kind |-> "join", party |-> p, who |-> c, as |-> Filled(c, FALSE)]
             s == player[c].at
  <1>1. /\ player[c].state \in {"reg", "map"} /\ p # 0
        /\ \/ player' = [player EXCEPT ![c] = y] /\ Request(s, <<m>>)
           \/ player' = [player EXCEPT ![c] = z]
    BY DEF party_reply_invite
  <1>2. player[c] \in Sessions /\ s \in Servers /\ level[c] \in 1 .. TopLevel /\ p \in Ids
    BY <1>1, InGame
  <1>3. /\ y.state # "auth" /\ y.at = s /\ y.creating = player[c].creating
        /\ z.state # "auth" /\ z.at = s /\ z.creating = player[c].creating
        /\ z.joining = player[c].joining
    BY <1>1, <1>2 DEF Sessions
  <1>4. m \in ToCharMsg /\ m \in JoinsOf(c)
    <2>1. Filled(c, FALSE) \in Member
      BY <1>2 DEF Filled, Member
    <2> HIDE DEF p
    <2>2. m \in ToCharMsg
      BY <1>2, <2>1, ToCharMade
    <2> QED BY <2>2 DEF JoinsOf
  <1>5. \A t \in Servers : s = t => player[c].at = t
    OBVIOUS
  <1> HIDE DEF m, y, z, s, p
  <1>6. CASE player' = [player EXCEPT ![c] = y] /\ Request(s, <<m>>)
    <2>1. Says(toChar'[s], JoinsOf(c))
      BY <1>2, <1>4, <1>6, RequestSaid
    <2>2. /\ \A t \in Servers : y.at = t => player[c].at = t
          /\ y.creating = TRUE =>
               \/ player[c].creating = TRUE
               \/ \A t \in Servers : y.at = t => Says(toChar'[t], CreatesOf(c))
          /\ y.joining = TRUE =>
               \/ player[c].joining = TRUE
               \/ \A t \in Servers : y.at = t => Says(toChar'[t], JoinsOf(c))
      BY <1>3, <1>5, <2>1
    <2> QED BY <1>3, <1>6, <2>2, OneServed
  <1>7. CASE player' = [player EXCEPT ![c] = z]
    <2>1. /\ \A t \in Servers : z.at = t => player[c].at = t
          /\ z.creating = TRUE =>
               \/ player[c].creating = TRUE
               \/ \A t \in Servers : z.at = t => Says(toChar'[t], CreatesOf(c))
          /\ z.joining = TRUE =>
               \/ player[c].joining = TRUE
               \/ \A t \in Servers : z.at = t => Says(toChar'[t], JoinsOf(c))
      BY <1>3, <1>5
    <2> QED BY <1>3, <1>7, <2>1, OneServed
  <1> QED BY <1>1, <1>6, <1>7

LEMMA PlayServed ==
  ASSUME ConstantsOK, Types, Grows, AllServed, NEW c \in Chars,
         clif_parse_LoadEndAck(c) \/ party_member_joined(c) \/ map_quit(c)
  PROVE  AllServed'
  <1>1. PICK f \in {"map", player[c].state}, g \in BOOLEAN, h \in 0 .. LastParty :
          /\ player[c].state \in {"reg", "map"}
          /\ \/ player' = [player EXCEPT ![c] = [player[c] EXCEPT !.state = f, !.told = g, !.party_id = h]]
             \/ player' = [player EXCEPT ![c] = Away]
    <2>1. CASE map_quit(c)
      <3>1. player[c].state \in {"reg", "map"} /\ player' = [player EXCEPT ![c] = Away]
        BY <2>1, Zenon DEF map_quit
      <3>2. 0 \in 0 .. LastParty
        BY DEF ConstantsOK
      <3> QED BY <3>1, <3>2
    <2>2. CASE clif_parse_LoadEndAck(c)
      <3>1. player[c].state = "reg" /\ player' = [player EXCEPT ![c].state = "map"]
        BY <2>2 DEF clif_parse_LoadEndAck
      <3>2. player[c] \in Sessions
        BY <3>1, InGame
      <3>3. /\ player[c].told \in BOOLEAN /\ player[c].party_id \in 0 .. LastParty
            /\ [player[c] EXCEPT !.state = "map"]
                 = [player[c] EXCEPT !.state = "map", !.told = player[c].told,
                                     !.party_id = player[c].party_id]
        BY <3>2 DEF Sessions
      <3> QED BY <3>1, <3>3
    <2>3. CASE party_member_joined(c)
      <3> DEFINE C == Mine(c)
                 h == IF C # None /\ c \notin DOMAIN C.member THEN 0 ELSE player[c].party_id
      <3>1. player[c].state = "map"
            /\ player' = [player EXCEPT ![c] = [player[c] EXCEPT !.told = TRUE, !.party_id = h]]
        BY <2>3, Zenon DEF party_member_joined
      <3>2. player[c] \in Sessions
        BY <3>1, InGame
      <3>3. h \in 0 .. LastParty
        <4>1. player[c].party_id \in 0 .. LastParty /\ 0 \in 0 .. LastParty
          BY <3>2 DEF Sessions, ConstantsOK
        <4> HIDE DEF C
        <4> QED BY <4>1
      <3> HIDE DEF h
      <3>4. [player[c] EXCEPT !.told = TRUE, !.party_id = h]
              = [player[c] EXCEPT !.state = player[c].state, !.told = TRUE, !.party_id = h]
        BY <3>2 DEF Sessions
      <3> QED BY <3>1, <3>3, <3>4
    <2> QED BY <2>1, <2>2, <2>3
  <1> DEFINE y == [player[c] EXCEPT !.state = f, !.told = g, !.party_id = h]
             z == Away
  <1>2. player[c] \in Sessions
    BY <1>1, InGame
  <1>3. /\ y.state # "auth" /\ y.at = player[c].at /\ y.creating = player[c].creating
        /\ y.joining = player[c].joining
    BY <1>1, <1>2 DEF Sessions
  <1>4. z.state # "auth" /\ z.creating # TRUE /\ z.joining # TRUE
        /\ \A t \in Servers : z.at = t => player[c].at = t
    BY DEF Away, ConstantsOK
  <1>5. player' = [player EXCEPT ![c] = y] \/ player' = [player EXCEPT ![c] = z]
    BY <1>1
  <1> HIDE DEF y, z
  <1>6. CASE player' = [player EXCEPT ![c] = y]
    <2>1. /\ \A t \in Servers : y.at = t => player[c].at = t
          /\ y.creating = TRUE =>
               \/ player[c].creating = TRUE
               \/ \A t \in Servers : y.at = t => Says(toChar'[t], CreatesOf(c))
          /\ y.joining = TRUE =>
               \/ player[c].joining = TRUE
               \/ \A t \in Servers : y.at = t => Says(toChar'[t], JoinsOf(c))
      BY <1>3
    <2> QED BY <1>3, <1>6, <2>1, OneServed
  <1>7. CASE player' = [player EXCEPT ![c] = z]
    <2>1. /\ \A t \in Servers : z.at = t => player[c].at = t
          /\ z.creating = TRUE =>
               \/ player[c].creating = TRUE
               \/ \A t \in Servers : z.at = t => Says(toChar'[t], CreatesOf(c))
          /\ z.joining = TRUE =>
               \/ player[c].joining = TRUE
               \/ \A t \in Servers : z.at = t => Says(toChar'[t], JoinsOf(c))
      BY <1>4
    <2>2. player' = [player EXCEPT ![c] = z] /\ z.state # "auth"
      BY <1>4, <1>7
    <2> QED BY <2>1, <2>2, OneServed
  <1> QED BY <1>5, <1>6, <1>7

LEMMA InviteServed ==
  ASSUME ConstantsOK, Types, Grows, AllServed, NEW c \in Chars, NEW t \in Chars, party_invite(c, t)
  PROVE  AllServed'
  <1> DEFINE y == [player[t] EXCEPT !.invite = player[c].party_id]
  <1>0. /\ Here(player[c].at, t) /\ player[c].state = "map"
        /\ player' = [player EXCEPT ![t].invite = player[c].party_id]
    BY DEF party_invite, Asks
  <1>1. Here(player[c].at, t) /\ player' = [player EXCEPT ![t] = y] /\ player[c].state = "map"
    BY <1>0
  <1>2. player[t] \in Sessions /\ player[t].state # "auth"
    <2>1. player[c].at \in Servers
      BY <1>1, InGame
    <2>2. player[t].at = player[c].at /\ player[t].state # "auth"
      BY <1>1 DEF Here
    <2>3. player[t] \in Sessions \cup {Away}
      BY DEF Types, Shape
    <2> QED BY <2>1, <2>2, <2>3, SessionFacts
  <1>3. /\ y.state # "auth" /\ y.at = player[t].at /\ y.creating = player[t].creating
        /\ y.joining = player[t].joining
    BY <1>2 DEF Sessions
  <1> HIDE DEF y
  <1>4. /\ \A u \in Servers : y.at = u => player[t].at = u
        /\ y.creating = TRUE =>
             \/ player[t].creating = TRUE
             \/ \A u \in Servers : y.at = u => Says(toChar'[u], CreatesOf(t))
        /\ y.joining = TRUE =>
             \/ player[t].joining = TRUE
             \/ \A u \in Servers : y.at = u => Says(toChar'[u], JoinsOf(t))
    BY <1>3
  <1> QED BY <1>1, <1>3, <1>4, OneServed

LEMMA ReqAuthServed ==
  ASSUME Types, AllServed, NEW c \in Chars, NEW s \in Servers, chmapif_parse_reqauth(c, s)
  PROVE  AllServed'
  <1> SUFFICES ASSUME NEW d \in Chars PROVE Served(d)'
    BY DEF AllServed
  <1> DEFINE m == [kind |-> "auth", who |-> c, party |-> row[c]]
             q == toMap[s]
  <1>1. player' = player /\ toChar' = toChar /\ toMap' = [toMap EXCEPT ![s] = Append(q, m)]
    BY DEF chmapif_parse_reqauth, mapVars
  <1>2. q \in Seq(ToMapMsg)
    BY DEF Types, Shape
  <1> HIDE DEF m
  <1>3. toMap'[s] = Append(q, m) /\ \A t \in Servers \ {s} : toMap'[t] = toMap[t]
    BY <1>1 DEF Types, Shape
  <1> HIDE DEF q
  <1>4. Stays(q, Append(q, m))
    BY <1>2 DEF Stays
  <1>5. \A t \in Servers : Stays(toMap[t], toMap'[t])
    BY <1>3, <1>4 DEF Stays, q
  <1>6. \A t \in Servers : Keeps(d, t)
    BY <1>1, <1>5, StaysSay DEF Keeps, Hears
  <1>7. Served(d) /\ Bides(d)
    BY <1>1 DEF AllServed, Bides
  <1> QED BY <1>6, <1>7, ServedKept

LEMMA ClientServed ==
  ASSUME ConstantsOK, Types, Turns, Chain, AllServed, NEW c \in Chars, Client(c)
  PROVE  AllServed'
  <1>1. ASSUME NEW s \in Servers, chmapif_parse_reqauth(c, s) PROVE AllServed'
    BY <1>1, ReqAuthServed
  <1>2. ASSUME NEW accepts \in BOOLEAN, party_reply_invite(c, accepts) PROVE AllServed'
    <2>1. Grows
      BY <1>2, AcceptChain, DeclineChain
    <2> QED BY <1>2, <2>1, ReplyServed
  <1>3. ASSUME NEW n \in Leap, party_send_levelup(c, n) PROVE AllServed'
    <2>1. Grows
      BY <1>3, LevelupChain
    <2>2. player' = player
      BY <1>3 DEF party_send_levelup
    <2> QED BY <2>1, <2>2, SameServed
  <1>4. ASSUME NEW t \in Chars, party_invite(c, t) PROVE AllServed'
    <2>1. Grows
      BY <1>4, InviteChain
    <2> QED BY <1>4, <2>1, InviteServed
  <1>5. CASE \/ party_leave(c) \/ pc_autosave(c)
             \/ \E exp \in BOOLEAN : party_changeoption(c, exp)
             \/ \E t \in Chars : party_removemember(c, t) \/ party_changeleader(c, t)
    <2>1. Grows
      BY <1>5, AskChain
    <2>2. player' = player
      <3>1. party_leave(c) \/ pc_autosave(c) => player' = player
        BY DEF party_leave, pc_autosave, mapVars
      <3>2. \A exp \in BOOLEAN : party_changeoption(c, exp) => player' = player
        BY DEF party_changeoption, mapVars
      <3>3. \A t \in Chars : party_removemember(c, t) \/ party_changeleader(c, t) => player' = player
        BY Zenon DEF party_removemember, party_changeleader, mapVars
      <3> QED BY <1>5, <3>1, <3>2, <3>3
    <2> QED BY <2>1, <2>2, SameServed
  <1>6. CASE clif_parse_LoadEndAck(c) \/ party_member_joined(c) \/ map_quit(c)
    <2>1. Grows
      BY <1>6, LoadedChain, JoinedChain, QuitChain
    <2> QED BY <1>6, <2>1, PlayServed
  <1>7. CASE party_create(c)
    <2>1. Grows
      BY <1>7, CreateAskedChain
    <2> QED BY <1>7, <2>1, CreateServed
  <1> QED BY <1>1, <1>2, <1>3, <1>4, <1>5, <1>6, <1>7 DEF Client

LEMMA ServedFirst ==
  ASSUME ConstantsOK, Init
  PROVE  AllServed
  <1> SUFFICES ASSUME NEW c \in Chars PROVE player[c].creating # TRUE /\ player[c].joining # TRUE
    BY DEF AllServed, Served
  <1>1. PICK place \in Places, home \in [Chars -> {0, 1}] :
          player = [d \in Chars |-> IF place[d] = None THEN Away
                                    ELSE [Away EXCEPT !.at = place[d], !.state = "map",
                                                      !.told = TRUE, !.party_id = home[d]]]
    <2>1. PICK place \in Places, founders \in Founders :
            player = [d \in Chars |-> IF place[d] = None THEN Away
                                      ELSE [Away EXCEPT !.at = place[d], !.state = "map", !.told = TRUE,
                                                        !.party_id = IF d \in founders THEN 1 ELSE 0]]
      BY Zenon DEF Init
    <2> DEFINE home == [d \in Chars |-> IF d \in founders THEN 1 ELSE 0]
    <2>2. home \in [Chars -> {0, 1}] /\ \A d \in Chars : home[d] = IF d \in founders THEN 1 ELSE 0
      OBVIOUS
    <2> HIDE DEF home
    <2>3. player = [d \in Chars |-> IF place[d] = None THEN Away
                                    ELSE [Away EXCEPT !.at = place[d], !.state = "map",
                                                      !.told = TRUE, !.party_id = home[d]]]
      BY <2>1, <2>2
    <2> QED BY <2>2, <2>3
  <1> DEFINE a == place[c]
             h == home[c]
  <1>2. player[c] = Away \/ player[c] = [Away EXCEPT !.at = a, !.state = "map", !.told = TRUE,
                                                     !.party_id = h]
    BY <1>1
  <1> HIDE DEF a, h
  <1>3. /\ Away.creating = FALSE /\ Away.joining = FALSE
        /\ [Away EXCEPT !.at = a, !.state = "map", !.told = TRUE, !.party_id = h].creating = FALSE
        /\ [Away EXCEPT !.at = a, !.state = "map", !.told = TRUE, !.party_id = h].joining = FALSE
    BY DEF Away
  <1> QED BY <1>2, <1>3

LEMMA ServedAlways ==
  ASSUME ConstantsOK, Types, Agreed, Chain, AllServed, [Next]_vars
  PROVE  AllServed'
  <1>1. Turns
    BY EveryTurn
  <1>2. ASSUME NEW s \in Servers, CharServer(s) PROVE AllServed'
    <2>1. CharStep(s)
      BY <1>1, <1>2, CharChain
    <2> QED BY <1>2, <2>1, CharServed
  <1>3. ASSUME NEW s \in Servers, MapServer(s) PROVE AllServed'
    BY <1>3, MapServed
  <1>4. ASSUME NEW c \in Chars, Client(c) PROVE AllServed'
    BY <1>1, <1>4, ClientServed
  <1>5. CASE UNCHANGED vars
    BY <1>5 DEF vars, mapVars, AllServed, Served, Hears
  <1> QED BY <1>2, <1>3, <1>4, <1>5 DEF Next

LEMMA NobodyLeftWaiting ==
  ASSUME ConstantsOK, Types, AllServed
  PROVE  NobodyWaits
  <1> SUFFICES ASSUME Quiet, NEW c \in Chars
               PROVE  ~player[c].creating /\ ~player[c].joining
    BY DEF NobodyWaits
  <1>1. player[c] \in Sessions \cup {Away} /\ Served(c)
    BY DEF Types, Shape, AllServed
  <1>2. \A s \in Servers : \A Q, A : ~Hears(s, Q, A)
    BY DEF Quiet, Hears, Says
  <1>3. player[c].at \in Servers => player[c].creating # TRUE /\ player[c].joining # TRUE
    BY <1>1, <1>2 DEF Served
  <1>4. player[c].at \notin Servers => ~player[c].creating /\ ~player[c].joining
    BY <1>1, SessionFacts
  <1>5. player[c].creating \in BOOLEAN /\ player[c].joining \in BOOLEAN
    BY <1>1, SessionFacts
  <1> QED BY <1>3, <1>4, <1>5

-----------------------------------------------------------------------------
(* What is true of the parties, the copies, the links and the players at   *)
(* every moment.                                                           *)
PartyInv == Types /\ Agreed /\ AgreedExp /\ Chain /\ Sounds /\ AllServed

LEMMA PartyFirst ==
  ASSUME ConstantsOK, Init
  PROVE  PartyInv
  <1>1. Types /\ Agreed /\ AgreedExp /\ Chain
    BY InitTypes, AgreedInit, ChainFirst
  <1>2. Sounds
    BY InitFacts DEF Sounds
  <1>3. AllServed
    BY ServedFirst
  <1> QED BY <1>1, <1>2, <1>3 DEF PartyInv

LEMMA PartyKept ==
  ASSUME ConstantsOK, PartyInv, [Next]_vars
  PROVE  PartyInv'
  <1>1. Types' /\ Agreed'
    BY TypesInductive, AgreedKept DEF PartyInv
  <1>2. AgreedExp'
    BY ExpsKept DEF PartyInv
  <1>3. Chain' /\ Sounds'
    BY ChainKept, SoundsKept DEF PartyInv
  <1>4. AllServed'
    BY ServedAlways DEF PartyInv
  <1> QED BY <1>1, <1>2, <1>3, <1>4 DEF PartyInv

LEMMA TypeOKHolds ==
  ASSUME ConstantsOK, PartyInv
  PROVE  TypeOK
  <1>1. Shape /\ Sounds
    BY DEF PartyInv, Types
  <1>2. \A p \in Ids : party_db_[p] = None \/ IsParty(party_db_[p])
    <2> SUFFICES ASSUME NEW p \in Ids, party_db_[p] # None PROVE IsParty(party_db_[p])
      OBVIOUS
    <2> DEFINE P == party_db_[p]
    <2>1. P \in Parties /\ Sound(P)
      BY <1>1 DEF Shape, Sounds
    <2> HIDE DEF P
    <2>2. IsRoster(P.member)
      BY <2>1, RosterFacts DEF Parties, IsRoster
    <2>3. P.count \in 0 .. Cardinality(Chars)
      BY <2>1, OnlineFacts DEF Sound
    <2>4. P.exp \in BOOLEAN /\ P.min_lv \in 1 .. TopLevel + 1 /\ P.max_lv \in 0 .. TopLevel
      BY <2>1 DEF Parties
    <2>5. IsParty(P)
      BY <2>2, <2>3, <2>4 DEF IsParty
    <2> QED BY <2>5 DEF P
  <1>3. \A s \in Servers, p \in Ids : party_db[s][p] = None \/ IsCopy(party_db[s][p])
    <2> SUFFICES ASSUME NEW s \in Servers, NEW p \in Ids, party_db[s][p] # None
                 PROVE  IsCopy(party_db[s][p])
      OBVIOUS
    <2> DEFINE C == party_db[s][p]
    <2>1. C \in Copies
      BY <1>1 DEF Shape
    <2> HIDE DEF C
    <2>2. IsCopy(C)
      BY <2>1, RosterFacts DEF Copies, IsRoster, IsCopy
    <2> QED BY <2>2 DEF C
  <1> QED BY <1>1, <1>2, <1>3 DEF TypeOK, Shape

LEMMA SharingHolds ==
  ASSUME ConstantsOK, PartyInv
  PROVE  SharingKept
  <1> SUFFICES ASSUME NEW p \in Ids, party_db_[p] # None, NEW P, P = party_db_[p]
               PROVE  /\ P.count = Cardinality(Online(P))
                      /\ P.exp => party_check_exp_share(P)
                      /\ Levels(P) # {} => {P.min_lv, P.max_lv} \subseteq Levels(P) /\ P.min_lv <= P.max_lv
    BY DEF SharingKept, Known
  <1>1. Sound(P)
    BY DEF PartyInv, Sounds
  <1>2. /\ P.count = Cardinality(Online(P))
        /\ P.exp => party_check_exp_share(P)
        /\ Levels(P) # {} => P.min_lv \in Levels(P) /\ P.max_lv \in Levels(P) /\ P.min_lv <= P.max_lv
    BY <1>1 DEF Sound, Ranges
  <1> QED BY <1>2

LEMMA CopiesHold ==
  ASSUME ConstantsOK, PartyInv
  PROVE  CopiesAgree
  <1> SUFFICES ASSUME Quiet, NEW s \in Servers, NEW p \in Ids, Copy(s, p) # None
               PROVE  /\ Known(p)
                      /\ Copy(s, p).exp = party_db_[p].exp
                      /\ DOMAIN Copy(s, p).member = DOMAIN party_db_[p].member
                      /\ \A c \in DOMAIN Copy(s, p).member :
                           Copy(s, p).member[c].online = party_db_[p].member[c].online
    BY DEF CopiesAgree
  <1>1. /\ Known(p)
        /\ DOMAIN Copy(s, p).member = DOMAIN party_db_[p].member
        /\ \A c \in DOMAIN Copy(s, p).member :
             Copy(s, p).member[c].online = party_db_[p].member[c].online
    BY AgreedQuiet DEF PartyInv
  <1>2. Copy(s, p).exp = party_db_[p].exp
    <2>1. AgreeExp(party_db[s][p], toMap[s], party_db_[p], p)
      BY DEF PartyInv, AgreedExp
    <2>2. \A G : ~Says(toMap[s], G)
      BY DEF Quiet, Says
    <2> QED BY <1>1, <2>1, <2>2 DEF AgreeExp, Known, Copy
  <1> QED BY <1>1, <1>2

(* Every variable keeps its type, the char-server's count of the members   *)
(* in the game never leaves its range.                                     *)
THEOREM PartyTypeOK == ConstantsOK => (Spec => []TypeOK)
  <1> SUFFICES ASSUME ConstantsOK PROVE Spec => []TypeOK
    OBVIOUS
  <1>1. Init => PartyInv
    BY PartyFirst
  <1>2. PartyInv /\ [Next]_vars => PartyInv'
    BY PartyKept
  <1>3. PartyInv => TypeOK
    BY TypeOKHolds
  <1> QED BY <1>1, <1>2, <1>3, PTL DEF Spec

(* However joins, log-ins, log-outs and levels gained or lost cross: the    *)
(* char-server counts the members in the game right, members in the game    *)
(* have the two levels its range runs between, and even share never         *)
(* outlives that range.                                                     *)
THEOREM PartySharing == ConstantsOK => (Spec => []SharingKept)
  <1> SUFFICES ASSUME ConstantsOK PROVE Spec => []SharingKept
    OBVIOUS
  <1>1. Init => PartyInv
    BY PartyFirst
  <1>2. PartyInv /\ [Next]_vars => PartyInv'
    BY PartyKept
  <1>3. PartyInv => SharingKept
    BY SharingHolds
  <1> QED BY <1>1, <1>2, <1>3, PTL DEF Spec

(* Whatever order the links hand their messages on in, and however the     *)
(* requests of several map-servers cross: once nothing is under way, every *)
(* copy shows the char-server's members, who of them plays and whether     *)
(* they share.                                                             *)
THEOREM CopiesFollowParties == ConstantsOK => (Spec => []CopiesAgree)
  <1> SUFFICES ASSUME ConstantsOK PROVE Spec => []CopiesAgree
    OBVIOUS
  <1>1. Init => PartyInv
    BY PartyFirst
  <1>2. PartyInv /\ [Next]_vars => PartyInv'
    BY PartyKept
  <1>3. PartyInv => CopiesAgree
    BY CopiesHold
  <1> QED BY <1>1, <1>2, <1>3, PTL DEF Spec

(* However creations and joins cross with log-outs, moves and the crashes  *)
(* of map-servers, and whatever becomes of the party: once nothing is      *)
(* under way, nobody still waits for the char-server's answer, which would *)
(* keep the player from founding or joining a party ever after.            *)
THEOREM EveryoneAnswered == ConstantsOK => (Spec => []NobodyWaits)
  <1> SUFFICES ASSUME ConstantsOK PROVE Spec => []NobodyWaits
    OBVIOUS
  <1>1. Init => PartyInv
    BY PartyFirst
  <1>2. PartyInv /\ [Next]_vars => PartyInv'
    BY PartyKept
  <1>3. PartyInv => NobodyWaits
    BY NobodyLeftWaiting DEF PartyInv
  <1> QED BY <1>1, <1>2, <1>3, PTL DEF Spec
=============================================================================
