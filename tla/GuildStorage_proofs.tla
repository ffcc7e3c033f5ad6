------------------------ MODULE GuildStorage_proofs ------------------------
(***************************************************************************)
(* The guild storage for any guild, items, sizes, bounds and rare events:  *)
(* its types, who uses it, that it is never open for nobody, never open    *)
(* while it is locked, and that one member uses it at a time unless        *)
(* scripts or retrievals close it.  Without rare events: that no item is   *)
(* copied or lost, whatever is under way when the map-server crashes, and  *)
(* that the whole implements the lease.                                    *)
(***************************************************************************)
EXTENDS GuildStorage, FiniteSetTheorems, SequenceTheorems,
        WellFoundedInduction, TLAPS

-----------------------------------------------------------------------------
(* The parts of TypeOK, one by one. *)
LEMMA Types ==
  ASSUME TypeOK
  PROVE  /\ stor \in Storage /\ using \in SUBSET Members /\ online \in SUBSET Members
         /\ gid \in SUBSET Members /\ member \in SUBSET Members
         /\ roster \in SUBSET Members
         /\ inv \in [Members -> SUBSET Items] /\ sqlInv \in [Members -> SUBSET Items]
         /\ sqlStore \in SUBSET Items
         /\ level \in 0 .. MaxLevel /\ sqlLevel \in 0 .. MaxLevel
         /\ known \in BOOLEAN /\ up \in BOOLEAN
         /\ toChar \in Seq(ToChar) /\ toMap \in Seq(ToMap) /\ events \in Events
  BY DEF TypeOK

(* A size is at most that of the highest level. *)
LEMMA Sizes ==
  ASSUME NEW n \in 0 .. MaxLevel
  PROVE  n * Slots \in 0 .. MaxLevel * Slots
  BY SizesAssumption

LEMMA EmptyStorage == Unloaded \in Storage
  BY Sizes, SizesAssumption DEF Unloaded, Storage

(* What is in a packet, by its kind. *)
LEMMA FromChar ==
  ASSUME NEW p \in ToMap
  PROVE  /\ p.kind = "loaded" => p.who \in Members /\ p.items \in SUBSET Items
                                 /\ p.max \in 0 .. MaxLevel * Slots
         /\ p.kind = "retrieved" => p.items \in SUBSET Items
         /\ p.kind = "info" => p.level \in 0 .. MaxLevel
         /\ p.kind = "withdraw" => p.who \in Members
  BY DEF ToMap, Saved, RetrieveDone, Broken

LEMMA FromMap ==
  ASSUME NEW p \in ToChar
  PROVE  /\ p.kind = "inventory" => p.who \in Members /\ p.items \in SUBSET Items
         /\ p.kind = "store" => p.items \in SUBSET Items
         /\ p.kind \in {"load", "retrieve"} => p.who \in Members
  BY DEF ToChar

(* The packets that are built. *)
LEMMA PacketsToChar ==
  ASSUME NEW m \in Members, NEW is \in SUBSET Items
  PROVE  /\ SaveInv(m, is) \in ToChar /\ SaveStore(is) \in ToChar
         /\ Load(m) \in ToChar /\ Retrieve(m) \in ToChar
  BY DEF ToChar, SaveInv, SaveStore, Load, Retrieve

LEMMA PacketsToMap ==
  ASSUME NEW m \in Members, NEW is \in SUBSET Items, NEW n \in 0 .. MaxLevel
  PROVE  /\ Loaded(m, is, n * Slots) \in ToMap /\ Retrieved(is) \in ToMap
         /\ Info(n) \in ToMap /\ Withdraw(m) \in ToMap
         /\ Saved \in ToMap /\ RetrieveDone \in ToMap /\ Broken \in ToMap
  <1>1. n * Slots \in 0 .. MaxLevel * Slots
    BY Sizes
  <1> QED
    BY <1>1 DEF ToMap, Loaded, Retrieved, Info, Withdraw, Saved, RetrieveDone, Broken
-----------------------------------------------------------------------------
(* A worked-out storage, its users and the packets: what handlers pass on. *)
World == [stor : Storage, using : SUBSET Members, sent : Seq(ToChar)]

LEMMA NowWorld == TypeOK => Now \in World
  BY Types DEF Now, World

LEMMA SavingTyped ==
  ASSUME TypeOK, NEW w \in World, NEW m \in Members
  PROVE  Saving(w, m) \in Seq(ToChar)
  <1>1. inv[m] \in SUBSET Items /\ w.stor.items \in SUBSET Items
    BY Types DEF World, Storage
  <1>2. SaveInv(m, inv[m]) \in ToChar /\ SaveStore(w.stor.items) \in ToChar
    BY <1>1, PacketsToChar
  <1> QED BY <1>2 DEF Saving

LEMMA CloseTyped ==
  ASSUME TypeOK, NEW w \in World, NEW m \in Members
  PROVE  Close(w, m) \in World
  <1>1. w.stor \in Storage /\ w.using \in SUBSET Members /\ w.sent \in Seq(ToChar)
    BY DEF World
  <1>2. [w.stor EXCEPT !.status = FALSE] \in Storage
    BY <1>1 DEF Storage
  <1>3. w.sent \o (IF w.stor.status THEN Saving(w, m) ELSE <<>>) \in Seq(ToChar)
    BY <1>1, SavingTyped
  <1> QED BY <1>1, <1>2, <1>3 DEF Close, World

LEMMA KeepTyped ==
  ASSUME TypeOK, NEW w \in World, Keep(w)
  PROVE  stor' \in Storage /\ using' \in SUBSET Members /\ toChar' \in Seq(ToChar)
  BY Types DEF Keep, Send, World

LEMMA CreatedTyped ==
  ASSUME NEW s \in Storage
  PROVE  Created(s) \in Storage
  BY DEF Created, Storage

LEMMA OpenNowTyped ==
  ASSUME TypeOK, NEW s \in Storage, NEW m \in Members
  PROVE  OpenNow(s, m) \in World
  <1>1. Load(m) \in ToChar
    BY PacketsToChar
  <1>2. [s EXCEPT !.status = TRUE] \in Storage
    BY DEF Storage
  <1> QED BY <1>1, <1>2, Types DEF OpenNow, World

LEMMA ClearedTyped ==
  ASSUME TypeOK, NEW w \in World
  PROVE  Cleared(w) \subseteq World
  <1>1. ASSUME NEW m \in Members
        PROVE  [Close(w, m) EXCEPT !.using = @ \ member] \in World
    BY <1>1, CloseTyped DEF World
  <1>2. w.using \cap member \subseteq Members
    BY Types
  <1> QED BY <1>1, <1>2 DEF Cleared

-----------------------------------------------------------------------------
(* The last save of an inventory on the link. *)
LEMMA LastOne ==
  ASSUME NEW n \in Nat, NEW T \in SUBSET (1 .. n), T # {}
  PROVE  \E i \in T : \A j \in T : j <= i
  <1> DEFINE U == {n - i : i \in T}
  <1>1. U \subseteq Nat /\ U # {}
    <2>1. \A i \in T : n - i \in Nat
      OBVIOUS
    <2> QED BY <2>1
  <1>2. \E x \in U : \A y \in U : ~ (<<y, x>> \in OpToRel(<, Nat))
    BY <1>1, WFMin, NatLessThanWellFounded
  <1>3. PICK i \in T : \A j \in T : ~ (<<n - j, n - i>> \in OpToRel(<, Nat))
    BY <1>2
  <1>4. ASSUME NEW j \in T PROVE ~ (n - j < n - i)
    <2>1. n - j \in Nat /\ n - i \in Nat
      OBVIOUS
    <2>2. OpToRel(<, Nat) = {ss \in Nat \X Nat : ss[1] < ss[2]}
      BY DEF OpToRel
    <2> QED BY <1>3, <2>1, <2>2
  <1> QED BY <1>4

LEMMA WrittenTyped ==
  ASSUME TypeOK
  PROVE  WrittenStore \in SUBSET Items /\ \A m \in Members : WrittenInv(m) \in SUBSET Items
  <1>1. toChar \in Seq(ToChar) /\ Len(toChar) \in Nat
    BY Types
  <1>2. ASSUME NEW m \in Members PROVE WrittenInv(m) \in SUBSET Items
    <2> DEFINE at == {i \in 1 .. Len(toChar) : toChar[i].kind = "inventory" /\ toChar[i].who = m}
    <2>1. CASE at = {}
      BY <2>1, Types DEF LastSave, WrittenInv
    <2>2. CASE at # {}
      <3>1. \E i \in at : \A j \in at : j <= i
        BY <1>1, <2>2, LastOne
      <3>2. LastSave(m) \in at
        BY <2>2, <3>1 DEF LastSave
      <3>3. toChar[LastSave(m)].items \in SUBSET Items /\ LastSave(m) # 0
        BY <1>1, <3>2, FromMap
      <3> QED BY <3>3 DEF WrittenInv
    <2> QED BY <2>1, <2>2
  <1>3. WrittenStore \in SUBSET Items
    <2> DEFINE at == {i \in 1 .. Len(toChar) : toChar[i].kind = "store"}
    <2>1. CASE at = {} \/ roster = {}
      BY <2>1, Types DEF WrittenStore
    <2>2. CASE at # {} /\ roster # {}
      <3>1. \E i \in at : \A j \in at : j <= i
        BY <1>1, <2>2, LastOne
      <3> DEFINE last == CHOOSE i \in at : \A j \in at : j <= i
      <3>2. last \in at
        BY <3>1
      <3>3. last \in 1 .. Len(toChar) /\ toChar[last].kind = "store"
        BY <3>2
      <3>4. toChar[last] \in ToChar
        BY <1>1, <3>3
      <3>5. toChar[last].items \in SUBSET Items
        BY <3>3, <3>4, FromMap
      <3>6. WrittenStore = toChar[last].items
        BY <2>2 DEF WrittenStore
      <3> QED BY <3>5, <3>6
    <2> QED BY <2>1, <2>2
  <1> QED BY <1>2, <1>3
-----------------------------------------------------------------------------
(* No step changes the types. *)
LEMMA Queues ==
  ASSUME TypeOK, NEW packets \in Seq(ToMap), Answer(packets)
  PROVE  toMap' \in Seq(ToMap)
  BY Types DEF Answer

LEMMA HeadOfMap ==
  ASSUME TypeOK, Next0
  PROVE  /\ Head0 \in ToMap /\ toMap' \in Seq(ToMap)
         /\ UNCHANGED <<sqlInv, sqlStore, roster, sqlLevel, up, events>>
  BY Types DEF Next0, Head0, charVars

LEMMA HeadOfChar ==
  ASSUME TypeOK, toChar # <<>>
  PROVE  Head(toChar) \in ToChar /\ Tail(toChar) \in Seq(ToChar)
  BY Types

LEMMA PlayersTyped ==
  ASSUME TypeOK, NEW m \in Members
  PROVE  /\ Login(m) => TypeOK'
         /\ Quit(m) => TypeOK'
         /\ Autosave(m) => TypeOK'
         /\ Open(m) => TypeOK'
         /\ CloseStorage(m) => TypeOK'
         /\ Leave(m) => TypeOK'
         /\ ScriptCount(m) => TypeOK'
  <1> USE Types
  <1>1. ASSUME Login(m) PROVE TypeOK'
    <2>1. inv' \in [Members -> SUBSET Items]
      BY <1>1, WrittenTyped DEF Login
    <2>2. /\ online' \in SUBSET Members /\ gid' \in SUBSET Members
          /\ member' \in SUBSET Members /\ known' \in BOOLEAN /\ level' \in 0 .. MaxLevel
      BY <1>1 DEF Login
    <2>3. UNCHANGED <<stor, using, charVars, toChar, toMap, up, events>>
      BY <1>1 DEF Login
    <2> QED BY <2>1, <2>2, <2>3 DEF TypeOK, charVars
  <1>2. ASSUME Quit(m) PROVE TypeOK'
    <2>1. inv[m] \in SUBSET Items /\ SaveInv(m, inv[m]) \in ToChar
      BY PacketsToChar
    <2>2. Now \in World
      BY NowWorld
    <2>3. Saving(Now, m) \in Seq(ToChar)
      BY <2>2, SavingTyped
    <2>4. [stor |-> [stor EXCEPT !.status = FALSE], using |-> using \ {m},
           sent |-> IF stor.status THEN Saving(Now, m) ELSE <<SaveInv(m, inv[m])>>] \in World
      <3>1. [stor EXCEPT !.status = FALSE] \in Storage
        BY DEF Storage
      <3>2. (IF stor.status THEN Saving(Now, m) ELSE <<SaveInv(m, inv[m])>>) \in Seq(ToChar)
        BY <2>1, <2>3
      <3> QED BY <3>1, <3>2 DEF World
    <2>5. [Now EXCEPT !.sent = <<SaveInv(m, inv[m])>>] \in World
      <3>1. <<SaveInv(m, inv[m])>> \in Seq(ToChar)
        BY <2>1
      <3> QED BY <2>2, <3>1 DEF World
    <2>6. stor' \in Storage /\ using' \in SUBSET Members /\ toChar' \in Seq(ToChar)
      BY <1>2, <2>4, <2>5, KeepTyped DEF Quit
    <2>7. /\ inv' \in [Members -> SUBSET Items]
          /\ online' = online \ {m} /\ gid' = gid \ {m}
          /\ UNCHANGED <<member, known, level, charVars, toMap, up, events>>
      BY <1>2 DEF Quit
    <2> QED BY <2>6, <2>7 DEF TypeOK, charVars
  <1>3. ASSUME Autosave(m) PROVE TypeOK'
    <2>1. Saving(Now, m) \in Seq(ToChar)
      BY NowWorld, SavingTyped
    <2> QED BY <1>3, <2>1 DEF Autosave, Send, TypeOK, mapVars, charVars
  <1>4. ASSUME Open(m) PROVE TypeOK'
    <2>1. OpenNow(stor, m) \in World
      BY OpenNowTyped
    <2>2. stor' \in Storage /\ using' \in SUBSET Members /\ toChar' \in Seq(ToChar)
      BY <1>4, <2>1, KeepTyped DEF Open
    <2> QED BY <1>4, <2>2 DEF Open, TypeOK, charVars
  <1>5. ASSUME CloseStorage(m) PROVE TypeOK'
    <2>1. Close(Now, m) \in World
      BY NowWorld, CloseTyped
    <2>2. stor' \in Storage /\ using' \in SUBSET Members /\ toChar' \in Seq(ToChar)
      BY <1>5, <2>1, KeepTyped DEF CloseStorage
    <2> QED BY <1>5, <2>2 DEF CloseStorage, TypeOK, charVars
  <1>6. ASSUME Leave(m) PROVE TypeOK'
    <2>1. <<Withdraw(m)>> \o (IF roster' = {} THEN <<Broken>> ELSE <<>>) \in Seq(ToMap)
      <3>1. Withdraw(m) \in ToMap /\ Broken \in ToMap
        BY DEF ToMap, Withdraw, Broken
      <3> QED BY <3>1
    <2>2. toMap' \in Seq(ToMap)
      BY <1>6, <2>1, Queues DEF Leave
    <2> QED BY <1>6, <2>2 DEF Leave, TypeOK, mapVars
  <1>7. ASSUME ScriptCount(m) PROVE TypeOK'
    <2>1. [Now EXCEPT !.stor = Created(stor)] \in World
      BY NowWorld, CreatedTyped DEF World
    <2>2. Close([Now EXCEPT !.stor = Created(stor)], m) \in World
      BY <2>1, CloseTyped
    <2>3. stor' \in Storage /\ using' \in SUBSET Members /\ toChar' \in Seq(ToChar)
      BY <1>7, <2>2, KeepTyped DEF ScriptCount
    <2> QED BY <1>7, <2>3 DEF ScriptCount, TypeOK, charVars
  <1> QED BY <1>1, <1>2, <1>3, <1>4, <1>5, <1>6, <1>7

LEMMA ItemsTyped ==
  ASSUME TypeOK, NEW m \in Members, NEW i \in Items
  PROVE  /\ \A cart \in BOOLEAN : Deposit(m, i, cart) \/ Take(m, i, cart) => TypeOK'
         /\ ScriptDelete(m, i) => TypeOK'
  <1> USE Types
  <1>1. Close(Now, m) \in World
    BY NowWorld, CloseTyped
  <1>2. ASSUME NEW cart \in BOOLEAN, Deposit(m, i, cart) PROVE TypeOK'
    <2>1. CASE Keep(Close(Now, m)) /\ UNCHANGED inv
      BY <1>1, <1>2, <2>1, KeepTyped DEF Deposit, TypeOK, charVars
    <2>2. CASE /\ stor' = [stor EXCEPT !.items = @ \cup {i}, !.dirty = TRUE]
               /\ inv' = [inv EXCEPT ![m] = @ \ {i}]
               /\ UNCHANGED <<using, toChar>>
      <3>1. stor' \in Storage /\ inv' \in [Members -> SUBSET Items]
        BY <2>2 DEF Storage
      <3> QED BY <1>2, <2>2, <3>1 DEF Deposit, TypeOK, charVars
    <2> QED BY <1>2, <2>1, <2>2 DEF Deposit
  <1>3. ASSUME NEW cart \in BOOLEAN, Take(m, i, cart) PROVE TypeOK'
    <2>1. CASE Keep(Close(Now, m)) /\ UNCHANGED inv
      BY <1>1, <1>3, <2>1, KeepTyped DEF Take, TypeOK, charVars
    <2>2. CASE /\ stor' = [stor EXCEPT !.items = @ \ {i}, !.dirty = TRUE]
               /\ inv' = [inv EXCEPT ![m] = @ \cup {i}]
               /\ UNCHANGED <<using, toChar>>
      <3>1. stor' \in Storage /\ inv' \in [Members -> SUBSET Items]
        BY <2>2 DEF Storage
      <3> QED BY <1>3, <2>2, <3>1 DEF Take, TypeOK, charVars
    <2> QED BY <1>3, <2>1, <2>2 DEF Take
  <1>4. ASSUME ScriptDelete(m, i) PROVE TypeOK'
    <2>1. [Now EXCEPT !.stor.items = @ \ {i}, !.stor.dirty = TRUE] \in World
      BY NowWorld DEF Now, World, Storage
    <2>2. Close([Now EXCEPT !.stor.items = @ \ {i}, !.stor.dirty = TRUE], m) \in World
      BY <2>1, CloseTyped
    <2>3. stor' \in Storage /\ using' \in SUBSET Members /\ toChar' \in Seq(ToChar)
      BY <1>4, <2>2, KeepTyped DEF ScriptDelete
    <2> QED BY <1>4, <2>3 DEF ScriptDelete, TypeOK, charVars
  <1> QED BY <1>2, <1>3, <1>4
LEMMA FittingTyped ==
  ASSUME NEW s \in Storage, NEW is \in SUBSET Items
  PROVE  /\ Fitting(s, is) \subseteq SUBSET Items
         /\ \A kept \in Fitting(s, is), st, di, lo \in BOOLEAN :
              [s EXCEPT !.items = @ \cup kept, !.status = st, !.dirty = di, !.lock = lo] \in Storage
  BY DEF Fitting, Storage

LEMMA ReceivedTyped ==
  ASSUME TypeOK
  PROVE  /\ ReceiveStorage => TypeOK'
         /\ ReceiveSaved => TypeOK'
         /\ ReceiveUnlock => TypeOK'
         /\ ReceiveRetrieved => TypeOK'
         /\ ReceiveInfo => TypeOK'
         /\ ReceiveBroken => TypeOK'
  <1> USE Types
  <1>1. ASSUME ReceiveStorage PROVE TypeOK'
    <2> DEFINE m == Head0.who
               s == Created(stor)
               fresh == [Unloaded EXCEPT !.loaded = TRUE, !.items = Head0.items, !.max = Head0.max]
    <2>1. m \in Members /\ Head0.items \in SUBSET Items /\ Head0.max \in 0 .. MaxLevel * Slots
      BY <1>1, HeadOfMap, FromChar DEF ReceiveStorage
    <2>2. fresh \in Storage
      BY <2>1 DEF Storage, Unloaded
    <2>3. Now \in World /\ [Now EXCEPT !.stor = s] \in World
      BY NowWorld, CreatedTyped DEF World
    <2>4. OpenNow(fresh, m) \in World
      BY <2>1, <2>2, OpenNowTyped
    <2> HIDE DEF m, s, fresh
    <2>5. \E w \in World : Keep(w)
      <3>1. Keep(IF m \notin online \/ ~known THEN Now
                 ELSE IF s.status \/ s.dirty THEN [Now EXCEPT !.stor = s]
                 ELSE OpenNow(fresh, m))
        BY <1>1 DEF ReceiveStorage, m, s, fresh
      <3> QED BY <2>3, <2>4, <3>1
    <2>6. stor' \in Storage /\ using' \in SUBSET Members /\ toChar' \in Seq(ToChar)
      BY <2>5, KeepTyped
    <2> QED BY <1>1, <2>6, HeadOfMap DEF ReceiveStorage, TypeOK
  <1>2. ASSUME ReceiveSaved PROVE TypeOK'
    <2>1. stor' \in Storage
      BY <1>2 DEF ReceiveSaved, Storage
    <2> QED BY <1>2, <2>1, HeadOfMap DEF ReceiveSaved, TypeOK
  <1>3. ASSUME ReceiveUnlock PROVE TypeOK'
    <2>1. stor' \in Storage
      BY <1>3 DEF ReceiveUnlock, Storage
    <2> QED BY <1>3, <2>1, HeadOfMap DEF ReceiveUnlock, TypeOK
  <1>4. ASSUME ReceiveRetrieved PROVE TypeOK'
    <2>1. Head0.items \in SUBSET Items /\ Created(stor) \in Storage
      BY <1>4, HeadOfMap, FromChar, CreatedTyped DEF ReceiveRetrieved
    <2>2. stor' \in Storage
      <3>1. CASE known
        <4>1. PICK kept \in Fitting(Created(stor), Head0.items) :
                stor' = [Created(stor) EXCEPT !.items = @ \cup kept, !.lock = FALSE,
                           !.status = FALSE, !.dirty = @ \/ kept # {}]
          BY <1>4, <3>1 DEF ReceiveRetrieved
        <4>2. kept \in SUBSET Items
          BY <2>1, <4>1, FittingTyped
        <4> QED BY <2>1, <4>1, <4>2 DEF Storage
      <3> QED BY <1>4, <3>1 DEF ReceiveRetrieved
    <2> QED BY <1>4, <2>2, HeadOfMap DEF ReceiveRetrieved, TypeOK
  <1>5. ASSUME ReceiveInfo PROVE TypeOK'
    <2>1. Head0.level \in 0 .. MaxLevel
      BY <1>5, HeadOfMap, FromChar DEF ReceiveInfo
    <2> QED BY <1>5, <2>1, HeadOfMap DEF ReceiveInfo, TypeOK
  <1>6. ASSUME ReceiveBroken PROVE TypeOK'
    <2>1. CASE known
      <3>1. PICK q \in Orders(using \cap member) :
              Send([i \in DOMAIN q |-> SaveInv(q[i], inv[q[i]])])
        BY <1>6, <2>1 DEF ReceiveBroken
      <3> DEFINE n == Cardinality(using \cap member)
      <3>2. q \in [1 .. n -> using \cap member]
        BY <3>1 DEF Orders
      <3> HIDE DEF n
      <3>3. [i \in DOMAIN q |-> SaveInv(q[i], inv[q[i]])] = [i \in 1 .. n |-> SaveInv(q[i], inv[q[i]])]
        BY <3>2
      <3>4. \A i \in 1 .. n : SaveInv(q[i], inv[q[i]]) \in ToChar
        BY <3>2, PacketsToChar
      <3>5. n \in Nat
        <4>1. IsFiniteSet(using \cap member)
          BY MembersAssumption, FS_Subset
        <4> QED BY <4>1, FS_CardinalityType DEF n
      <3>6. toChar' \in Seq(ToChar)
        BY <3>1, <3>3, <3>4, <3>5 DEF Send
      <3>7. /\ stor' = Unloaded /\ using' = using \ member /\ gid' = gid \ member
            /\ known' = FALSE /\ member' = {} /\ level' = 0 /\ UNCHANGED <<inv, online>>
        BY <1>6, <2>1 DEF ReceiveBroken
      <3>8. Next0
        BY <1>6 DEF ReceiveBroken
      <3>9. using' \in SUBSET Members /\ gid' \in SUBSET Members /\ 0 \in 0 .. MaxLevel
        BY <3>7, SizesAssumption
      <3> QED BY <3>6, <3>7, <3>8, <3>9, HeadOfMap, EmptyStorage DEF TypeOK
    <2>2. CASE ~known
      BY <1>6, <2>2, HeadOfMap DEF ReceiveBroken, TypeOK
    <2> QED BY <2>1, <2>2
  <1> QED BY <1>1, <1>2, <1>3, <1>4, <1>5, <1>6

LEMMA WithdrawTyped == TypeOK /\ ReceiveWithdraw => TypeOK'
  <1> SUFFICES ASSUME TypeOK, ReceiveWithdraw PROVE TypeOK'
    OBVIOUS
  <1> USE Types
  <1> DEFINE m == Head0.who
  <1>1. m \in Members /\ Next0
    BY HeadOfMap, FromChar DEF ReceiveWithdraw
  <1> HIDE DEF m
  <1> DEFINE Outcome == [w : World, inv : [Members -> SUBSET Items]]
  <1>2. RetrieveOnline(m) \subseteq Outcome
    <2>1. BoundOf(m) \in SUBSET Items /\ StorageOf(m) \in Storage /\ Now \in World
      BY <1>1, CreatedTyped, EmptyStorage, NowWorld DEF BoundOf, StorageOf
    <2>2. [Now EXCEPT !.stor = StorageOf(m)] \in World
      BY <2>1 DEF World
    <2>3. ASSUME NEW c \in Cleared([Now EXCEPT !.stor = StorageOf(m)]),
                 NEW kept \in Fitting(StorageOf(m), BoundOf(m))
          PROVE  Retrieval(m, c, kept) \in Outcome
      <3>1. c \in World /\ kept \in SUBSET Items
        BY <2>1, <2>2, ClearedTyped, FittingTyped
      <3>2. Stored(c, kept) \in World
        BY <3>1 DEF Stored, World, Storage
      <3>3. Close(Stored(c, kept), m) \in World
        BY <1>1, <3>2, CloseTyped
      <3>4. [inv EXCEPT ![m] = @ \ BoundOf(m)] \in [Members -> SUBSET Items]
        BY <1>1
      <3> QED BY <2>1, <3>3, <3>4 DEF Retrieval
    <2>4. [w |-> Now, inv |-> inv] \in Outcome
      BY <2>1
    <2> HIDE DEF Outcome
    <2>5. CASE BoundOf(m) = {}
      BY <2>4, <2>5 DEF RetrieveOnline
    <2>6. CASE BoundOf(m) # {}
      <3>1. RetrieveOnline(m) =
              {Retrieval(m, w, kept) : w \in Cleared([Now EXCEPT !.stor = StorageOf(m)]),
                                       kept \in Fitting(StorageOf(m), BoundOf(m))}
        BY <2>6 DEF RetrieveOnline
      <3> QED BY <2>3, <3>1
    <2> QED BY <2>5, <2>6
  <1>3. RetrieveOffline(m) \subseteq Outcome
    <2>1. ASSUME NEW c \in Cleared(Now)
          PROVE  [c EXCEPT !.sent = Append(@, Retrieve(m)),
                           !.stor.lock = c.stor.loaded /\ (@ \/ up)] \in World
      <3>1. c \in World /\ Retrieve(m) \in ToChar
        BY <1>1, NowWorld, ClearedTyped, PacketsToChar
      <3>2. Append(c.sent, Retrieve(m)) \in Seq(ToChar)
        BY <3>1 DEF World
      <3>3. [c.stor EXCEPT !.lock = c.stor.loaded /\ (@ \/ up)] \in Storage
        BY <3>1 DEF World, Storage
      <3> QED BY <3>1, <3>2, <3>3 DEF World
    <2> SUFFICES ASSUME NEW r \in RetrieveOffline(m) PROVE r \in Outcome
      OBVIOUS
    <2>2. PICK c \in Cleared(Now) :
            r = [w |-> [c EXCEPT !.sent = Append(@, Retrieve(m)),
                                 !.stor.lock = c.stor.loaded /\ (@ \/ up)],
                 inv |-> inv]
      BY DEF RetrieveOffline
    <2> QED BY <2>1, <2>2
  <1> HIDE DEF Outcome
  <1>4. CASE known /\ m \in member
    <2>1. PICK r \in IF m \in online THEN RetrieveOnline(m) ELSE RetrieveOffline(m) :
            /\ inv' = r.inv
            /\ Keep(IF m \in gid /\ m \in r.w.using THEN Close(r.w, m) ELSE r.w)
            /\ member' = IF online \cap member = {} THEN member ELSE member \ {m}
            /\ gid' = gid \ {m}
      BY <1>4 DEF ReceiveWithdraw, m
    <2>2. r.w \in World /\ r.inv \in [Members -> SUBSET Items]
      BY <1>2, <1>3, <2>1 DEF Outcome
    <2>3. stor' \in Storage /\ using' \in SUBSET Members /\ toChar' \in Seq(ToChar)
      BY <1>1, <2>1, <2>2, CloseTyped, KeepTyped
    <2> QED BY <1>1, <2>1, <2>2, <2>3, HeadOfMap DEF ReceiveWithdraw, TypeOK
  <1>5. CASE ~(known /\ m \in member)
    BY <1>1, <1>5, HeadOfMap DEF ReceiveWithdraw, TypeOK, m
  <1> QED BY <1>4, <1>5

LEMMA ServersTyped ==
  ASSUME TypeOK
  PROVE  /\ CharSave => TypeOK'
         /\ CharLoad => TypeOK'
         /\ CharRetrieve => TypeOK'
         /\ SkillUp => TypeOK'
         /\ Break => TypeOK'
         /\ LoseLink => TypeOK'
         /\ Reconnect => TypeOK'
         /\ Crash => TypeOK'
  <1> USE Types
  <1> DEFINE p == Head(toChar)
  <1>1. ASSUME CharSave PROVE TypeOK'
    <2>1. p \in ToChar /\ toChar' \in Seq(ToChar)
      BY <1>1, HeadOfChar DEF CharSave
    <2>2. CASE /\ p.kind = "inventory" /\ sqlInv' = [sqlInv EXCEPT ![p.who] = p.items]
               /\ UNCHANGED <<sqlStore, toMap>>
      BY <1>1, <2>1, <2>2, FromMap DEF CharSave, TypeOK, mapVars
    <2>3. CASE /\ p.kind = "store" /\ sqlStore' = (IF roster = {} THEN sqlStore ELSE p.items)
               /\ Answer(<<Saved>>) /\ UNCHANGED sqlInv
      <3>1. sqlStore' \in SUBSET Items
        BY <2>1, <2>3, FromMap
      <3>2. <<Saved>> \in Seq(ToMap)
        BY DEF ToMap
      <3>3. toMap' \in Seq(ToMap)
        BY <2>3, <3>2, Queues
      <3> QED BY <1>1, <2>1, <2>3, <3>1, <3>3 DEF CharSave, TypeOK, mapVars
    <2> QED BY <1>1, <2>2, <2>3 DEF CharSave
  <1>2. ASSUME CharLoad PROVE TypeOK'
    <2>1. p \in ToChar /\ toChar' \in Seq(ToChar)
      BY <1>2, HeadOfChar DEF CharLoad
    <2>2. p.who \in Members
      BY <1>2, <2>1, FromMap DEF CharLoad
    <2>3. Loaded(p.who, sqlStore, sqlLevel * Slots) \in ToMap
      BY <2>2, PacketsToMap
    <2>4. toMap' \in Seq(ToMap)
      <3>1. (IF roster = {} THEN <<>> ELSE <<Loaded(p.who, sqlStore, sqlLevel * Slots)>>) \in Seq(ToMap)
        BY <2>3
      <3> QED BY <1>2, <3>1, Queues DEF CharLoad
    <2> QED BY <1>2, <2>1, <2>4 DEF CharLoad, TypeOK, mapVars, charVars
  <1>3. ASSUME CharRetrieve PROVE TypeOK'
    <2> DEFINE taken == sqlInv[p.who] \cap Locked(Items)
    <2>1. p \in ToChar /\ toChar' \in Seq(ToChar)
      BY <1>3, HeadOfChar DEF CharRetrieve
    <2>2. p.who \in Members
      BY <1>3, <2>1, FromMap DEF CharRetrieve
    <2>3. taken \in SUBSET Items /\ sqlInv' = [sqlInv EXCEPT ![p.who] = @ \ taken]
      BY <1>3, <2>2 DEF CharRetrieve
    <2>4. sqlInv' \in [Members -> SUBSET Items]
      BY <2>2, <2>3
    <2>5. Retrieved(taken) \in ToMap /\ RetrieveDone \in ToMap
      BY <2>3 DEF ToMap, Retrieved
    <2>6. toMap' \in Seq(ToMap)
      <3>1. <<IF taken = {} THEN RetrieveDone ELSE Retrieved(taken)>> \in Seq(ToMap)
        BY <2>5
      <3>2. Answer(<<IF taken = {} THEN RetrieveDone ELSE Retrieved(taken)>>)
        BY <1>3 DEF CharRetrieve
      <3> QED BY <3>1, <3>2, Queues
    <2> QED BY <1>3, <2>1, <2>4, <2>6 DEF CharRetrieve, TypeOK, mapVars
  <1>4. ASSUME SkillUp PROVE TypeOK'
    <2>1. sqlLevel + 1 \in 0 .. MaxLevel /\ sqlLevel' = sqlLevel + 1
      BY <1>4, SizesAssumption DEF SkillUp
    <2>2. Info(sqlLevel') \in ToMap
      BY <2>1 DEF ToMap, Info
    <2>3. toMap' \in Seq(ToMap)
      BY <1>4, <2>1, <2>2 DEF SkillUp, Answer
    <2> QED BY <1>4, <2>1, <2>3 DEF SkillUp, TypeOK, mapVars
  <1>5. ASSUME Break PROVE TypeOK'
    <2>1. <<Broken>> \in Seq(ToMap)
      BY DEF ToMap
    <2>2. toMap' \in Seq(ToMap)
      BY <1>5, <2>1, Queues DEF Break
    <2> QED BY <1>5, <2>2 DEF Break, TypeOK, mapVars
  <1>6. ASSUME LoseLink PROVE TypeOK'
    <2>1. up' = FALSE /\ toChar' = <<>> /\ toMap' = <<>>
      BY <1>6 DEF LoseLink
    <2>2. toChar' \in Seq(ToChar) /\ toMap' \in Seq(ToMap)
      BY <2>1, EmptySeq
    <2>3. UNCHANGED <<mapVars, charVars, events>>
      BY <1>6 DEF LoseLink
    <2> QED BY <2>1, <2>2, <2>3 DEF TypeOK, mapVars, charVars
  <1>7. ASSUME Reconnect PROVE TypeOK'
    <2>1. SaveStore(stor.items) \in ToChar
      BY DEF ToChar, SaveStore, Storage
    <2> QED BY <1>7, <2>1 DEF Reconnect, TypeOK, mapVars, charVars
  <1>8. ASSUME Crash PROVE TypeOK'
    <2>1. sqlInv' \in [Members -> SUBSET Items] /\ sqlStore' \in SUBSET Items
      BY <1>8, WrittenTyped DEF Crash
    <2>2. inv' \in [Members -> SUBSET Items]
      BY <1>8 DEF Crash
    <2>3. 0 \in 0 .. MaxLevel /\ toChar' \in Seq(ToChar) /\ toMap' \in Seq(ToMap)
      BY <1>8, SizesAssumption DEF Crash
    <2> QED BY <1>8, <2>1, <2>2, <2>3, EmptyStorage DEF Crash, TypeOK
  <1> QED BY <1>1, <1>2, <1>3, <1>4, <1>5, <1>6, <1>7, <1>8
LEMMA StepTyped == TypeOK /\ [Next]_vars => TypeOK'
  <1> SUFFICES ASSUME TypeOK, [Next]_vars PROVE TypeOK'
    OBVIOUS
  <1>1. CASE UNCHANGED vars
    BY <1>1 DEF vars, mapVars, charVars, TypeOK
  <1>2. CASE Next
    BY <1>2, PlayersTyped, ItemsTyped, ReceivedTyped, WithdrawTyped, ServersTyped
       DEF Next, Receive, CharReceive
  <1> QED BY <1>1, <1>2

LEMMA InitTyped == Init => TypeOK
  <1> SUFFICES ASSUME Init PROVE TypeOK
    OBVIOUS
  <1>1. sqlInv \in [Members -> SUBSET Items] /\ sqlStore \in SUBSET Items
    BY ItemsAssumption DEF Init
  <1>2. 0 \in 0 .. MaxLevel /\ 1 \in 0 .. MaxLevel
    BY SizesAssumption
  <1>3. /\ toChar = <<>> /\ toMap = <<>> /\ events \in Events
        /\ known = FALSE /\ up = TRUE
    BY DEF Init
  <1>5. inv \in [Members -> SUBSET Items]
    BY DEF Init
  <1>4. /\ stor = Unloaded /\ level = 0 /\ sqlLevel = 1 /\ roster = Members
        /\ using = {} /\ online = {} /\ gid = {} /\ member = {}
    BY DEF Init
  <1>6. toChar \in Seq(ToChar) /\ toMap \in Seq(ToMap)
    BY <1>3, EmptySeq
  <1>7. {known, up} \subseteq BOOLEAN
    BY <1>3
  <1>8. {using, online, gid, member, roster} \subseteq SUBSET Members
    BY <1>4
  <1>9. {level, sqlLevel} \subseteq 0 .. MaxLevel
    BY <1>2, <1>4
  <1> QED BY <1>1, <1>2, <1>3, <1>4, <1>5, <1>6, <1>7, <1>8, <1>9, EmptyStorage DEF TypeOK

(* The variables keep their types: in particular no answer of the          *)
(* char-server is larger than the guild's skill can make the storage, and  *)
(* what the map-server sends are saves, loads and retrievals only.         *)
THEOREM StorageTypes == Spec => []TypeOK
  BY InitTyped, StepTyped, PTL DEF Spec
-----------------------------------------------------------------------------
(* The inductive invariant.  A user has the storage in memory, an open     *)
(* storage has a user, a locked one is closed; without scripts and         *)
(* retrievals an open storage has just one user and a closed one has none; *)
(* whoever is in the guild is a member of the guild that the map-server    *)
(* knows, which is what lets an expulsion or a break find all the users.   *)
Served(s, u) == (u # {} => s.loaded) /\ (s.status => u # {}) /\ (s.lock => ~s.status)
Single(s, u) == (u # {} => s.status) /\ \A x, y \in u : x = y
Undisturbed == events \cap {"script", "bound"} = {}
GuildKnown == gid \subseteq member /\ (gid # {} => known)
Serving == /\ using \subseteq gid /\ Served(stor, using)
           /\ Undisturbed => Single(stor, using)
Unretrieved == "bound" \notin events => \A i \in 1 .. Len(toMap) : toMap[i].kind # "retrieved"
IInv == TypeOK /\ GuildKnown /\ Serving /\ Unretrieved

LEMMA CloseFacts ==
  ASSUME NEW w \in World, NEW m \in Members, Served(w.stor, w.using)
  PROVE  /\ Close(w, m).using = w.using \ {m} /\ Close(w, m).stor.status = FALSE
         /\ Close(w, m).stor.loaded = w.stor.loaded /\ Close(w, m).stor.lock = w.stor.lock
  <1>1. w.stor \in Storage
    BY DEF World
  <1>2. CASE w.stor.loaded
    BY <1>1, <1>2 DEF Close, Storage
  <1>3. CASE ~w.stor.loaded
    BY <1>1, <1>3 DEF Close, Served, Storage
  <1> QED BY <1>2, <1>3

(* What a handler that closes or opens leaves to be shown. *)
LEMMA Closing ==
  ASSUME TypeOK, Serving, NEW w \in World, NEW m \in Members, Keep(Close(w, m)),
         Served(w.stor, w.using), w.using \subseteq using,
         m \in using \/ ~Undisturbed, UNCHANGED <<gid, events>>
  PROVE  Serving'
  <1>1. using' = w.using \ {m} /\ stor'.status = FALSE /\ stor'.loaded = w.stor.loaded
    BY CloseFacts DEF Keep
  <1>2. Undisturbed' => using' = {}
    BY <1>1 DEF Serving, Single, Undisturbed
  <1> QED BY <1>1, <1>2 DEF Serving, Served, Single

LEMMA Opening ==
  ASSUME TypeOK, NEW s \in Storage, NEW m \in Members, Keep(OpenNow(s, m)),
         using \subseteq gid, Served(s, using), Undisturbed => Single(s, using),
         UNCHANGED <<gid, events>>
  PROVE  Serving'
  <1>1. CASE Allowed(m) /\ Current(s) /\ ~s.status /\ ~s.lock
    <2>1. stor' = [s EXCEPT !.status = TRUE] /\ using' = using \cup {m}
      BY <1>1 DEF Keep, OpenNow
    <2>2. stor'.loaded /\ stor'.status /\ ~stor'.lock
      BY <1>1, <2>1 DEF Current, Storage
    <2>3. m \in gid
      BY <1>1 DEF Allowed
    <2>4. Undisturbed => using = {}
      BY <1>1 DEF Single
    <2> QED BY <2>1, <2>2, <2>3, <2>4 DEF Serving, Served, Single, Undisturbed
  <1>2. CASE ~(Allowed(m) /\ Current(s) /\ ~s.status /\ ~s.lock)
    <2>1. stor' = s /\ using' = using
      BY <1>2 DEF Keep, OpenNow
    <2> QED BY <2>1 DEF Serving, Undisturbed
  <1> QED BY <1>1, <1>2

LEMMA NowServed ==
  ASSUME TypeOK, Serving
  PROVE  /\ Now \in World /\ Served(Now.stor, Now.using)
         /\ Created(stor) \in Storage /\ Served(Created(stor), using)
         /\ Created(stor).status = stor.status
  <1>1. Now \in World /\ Now.stor = stor /\ Now.using = using /\ stor \in Storage
    BY NowWorld, Types DEF Now
  <1> QED BY <1>1, CreatedTyped DEF Serving, Served, Created, Storage

LEMMA PlayersServe ==
  ASSUME TypeOK, GuildKnown, Serving, NEW m \in Members
  PROVE  /\ Login(m) => GuildKnown' /\ Serving'
         /\ Quit(m) => GuildKnown' /\ Serving'
         /\ Autosave(m) => GuildKnown' /\ Serving'
         /\ Open(m) => GuildKnown' /\ Serving'
         /\ CloseStorage(m) => GuildKnown' /\ Serving'
         /\ Leave(m) => GuildKnown' /\ Serving'
         /\ ScriptCount(m) => GuildKnown' /\ Serving'
  <1> USE Types, NowServed
  <1>1. ASSUME Login(m) PROVE GuildKnown' /\ Serving'
    BY <1>1 DEF Login, GuildKnown, Serving, Undisturbed
  <1>2. ASSUME Quit(m) PROVE GuildKnown' /\ Serving'
    <2>1. CASE m \in using
      <3>1. stor' = [stor EXCEPT !.status = FALSE] /\ using' = using \ {m} /\ gid' = gid \ {m}
        BY <1>2, <2>1 DEF Quit, Keep
      <3>2. stor'.status = FALSE /\ stor'.loaded = stor.loaded
        BY <3>1 DEF Storage
      <3>3. UNCHANGED <<member, known, events>>
        BY <1>2 DEF Quit
      <3>4. using' \subseteq gid' /\ Served(stor', using')
        BY <3>1, <3>2 DEF Serving, Served
      <3>5. Undisturbed' => Single(stor', using')
        BY <2>1, <3>1, <3>3 DEF Serving, Single, Undisturbed
      <3>6. GuildKnown'
        BY <3>1, <3>3 DEF GuildKnown
      <3> QED BY <3>4, <3>5, <3>6 DEF Serving
    <2>2. CASE m \notin using
      <3>1. stor' = stor /\ using' = using /\ gid' = gid \ {m}
        BY <1>2, <2>2 DEF Quit, Keep, Now
      <3>3. UNCHANGED <<member, known, events>>
        BY <1>2 DEF Quit
      <3> QED BY <2>2, <3>1, <3>3 DEF GuildKnown, Serving, Undisturbed
    <2> QED BY <2>1, <2>2
  <1>3. ASSUME Autosave(m) PROVE GuildKnown' /\ Serving'
    BY <1>3 DEF Autosave, mapVars, GuildKnown, Serving, Undisturbed
  <1>4. ASSUME Open(m) PROVE GuildKnown' /\ Serving'
    <2>1. Serving'
      BY <1>4, Opening DEF Open, Serving
    <2> QED BY <1>4, <2>1 DEF Open, GuildKnown
  <1>5. ASSUME CloseStorage(m) PROVE GuildKnown' /\ Serving'
    <2>1. m \in using /\ Keep(Close(Now, m)) /\ UNCHANGED <<gid, member, known, events>>
      BY <1>5 DEF CloseStorage
    <2>2. Now.using = using
      BY DEF Now
    <2>3. Serving'
      BY <2>1, <2>2, Closing
    <2> QED BY <2>1, <2>3 DEF GuildKnown
  <1>6. ASSUME Leave(m) PROVE GuildKnown' /\ Serving'
    BY <1>6 DEF Leave, mapVars, GuildKnown, Serving, Undisturbed
  <1>7. ASSUME ScriptCount(m) PROVE GuildKnown' /\ Serving'
    <2> DEFINE w == [Now EXCEPT !.stor = Created(stor)]
    <2>1. /\ Keep(Close(w, m)) /\ "script" \in events
          /\ UNCHANGED <<gid, member, known, events>>
      BY <1>7 DEF ScriptCount
    <2>2. w \in World /\ w.using = using /\ w.stor = Created(stor)
      BY DEF World, Now
    <2> HIDE DEF w
    <2>3. Serving'
      BY <2>1, <2>2, Closing DEF Undisturbed
    <2> QED BY <2>1, <2>3 DEF GuildKnown
  <1> QED BY <1>1, <1>2, <1>3, <1>4, <1>5, <1>6, <1>7

LEMMA ItemsServe ==
  ASSUME TypeOK, GuildKnown, Serving, NEW m \in Members, NEW i \in Items
  PROVE  /\ \A cart \in BOOLEAN : Deposit(m, i, cart) \/ Take(m, i, cart) => GuildKnown' /\ Serving'
         /\ ScriptDelete(m, i) => GuildKnown' /\ Serving'
  <1> USE Types, NowServed
  <1>1. ASSUME m \in using, Keep(Close(Now, m)), UNCHANGED <<gid, events>> PROVE Serving'
    <2>1. Now.using = using
      BY DEF Now
    <2> QED BY <1>1, <2>1, Closing
  <1>2. ASSUME NEW cart \in BOOLEAN, Deposit(m, i, cart) PROVE GuildKnown' /\ Serving'
    <2>1. m \in using /\ UNCHANGED <<gid, member, known, events>>
      BY <1>2 DEF Deposit
    <2>2. CASE Keep(Close(Now, m))
      BY <1>1, <2>1, <2>2 DEF GuildKnown
    <2>3. CASE stor' = [stor EXCEPT !.items = @ \cup {i}, !.dirty = TRUE] /\ using' = using
      BY <2>1, <2>3 DEF GuildKnown, Serving, Served, Single, Undisturbed, Storage
    <2> QED BY <1>2, <2>2, <2>3 DEF Deposit
  <1>3. ASSUME NEW cart \in BOOLEAN, Take(m, i, cart) PROVE GuildKnown' /\ Serving'
    <2>1. m \in using /\ UNCHANGED <<gid, member, known, events>>
      BY <1>3 DEF Take
    <2>2. CASE Keep(Close(Now, m))
      BY <1>1, <2>1, <2>2 DEF GuildKnown
    <2>3. CASE stor' = [stor EXCEPT !.items = @ \ {i}, !.dirty = TRUE] /\ using' = using
      BY <2>1, <2>3 DEF GuildKnown, Serving, Served, Single, Undisturbed, Storage
    <2> QED BY <1>3, <2>2, <2>3 DEF Take
  <1>4. ASSUME ScriptDelete(m, i) PROVE GuildKnown' /\ Serving'
    <2> DEFINE w == [Now EXCEPT !.stor.items = @ \ {i}, !.stor.dirty = TRUE]
    <2>1. /\ Keep(Close(w, m)) /\ "script" \in events
          /\ UNCHANGED <<gid, member, known, events>>
      BY <1>4 DEF ScriptDelete
    <2>2. /\ w \in World /\ w.using = using
          /\ w.stor = [stor EXCEPT !.items = @ \ {i}, !.dirty = TRUE]
      BY DEF World, Now, Storage
    <2>3. Served(w.stor, w.using)
      BY <2>2 DEF Serving, Served, Storage
    <2> HIDE DEF w
    <2>4. Serving'
      BY <2>1, <2>2, <2>3, Closing DEF Undisturbed
    <2> QED BY <2>1, <2>4 DEF GuildKnown
  <1> QED BY <1>2, <1>3, <1>4
LEMMA ReceivedServe ==
  ASSUME TypeOK, GuildKnown, Serving, Unretrieved
  PROVE  /\ ReceiveStorage => GuildKnown' /\ Serving'
         /\ ReceiveSaved => GuildKnown' /\ Serving'
         /\ ReceiveUnlock => GuildKnown' /\ Serving'
         /\ ReceiveRetrieved => GuildKnown' /\ Serving'
         /\ ReceiveInfo => GuildKnown' /\ Serving'
         /\ ReceiveBroken => GuildKnown' /\ Serving'
  <1> USE Types, NowServed
  <1>1. ASSUME ReceiveStorage PROVE GuildKnown' /\ Serving'
    <2> DEFINE m == Head0.who
               s == Created(stor)
               fresh == [Unloaded EXCEPT !.loaded = TRUE, !.items = Head0.items, !.max = Head0.max]
    <2>1. /\ m \in Members /\ Head0.items \in SUBSET Items /\ Head0.max \in 0 .. MaxLevel * Slots
          /\ UNCHANGED <<gid, member, known, events>>
      BY <1>1, HeadOfMap, FromChar DEF ReceiveStorage
    <2>2. fresh \in Storage /\ fresh.loaded /\ ~fresh.status /\ ~fresh.lock
      BY <2>1 DEF Storage, Unloaded
    <2> HIDE DEF m, s, fresh
    <2>3. CASE stor' = stor /\ using' = using
      BY <2>1, <2>3 DEF GuildKnown, Serving, Undisturbed
    <2>4. CASE stor' = s /\ using' = using
      <3>1. Served(s, using) /\ s.status = stor.status
        BY DEF s
      <3> QED BY <2>1, <2>4, <3>1 DEF GuildKnown, Serving, Single, Undisturbed
    <2>5. CASE ~s.status /\ Keep(OpenNow(fresh, m))
      <3>1. Served(fresh, using)
        BY <2>2 DEF Served
      <3>2. Undisturbed => Single(fresh, using)
        BY <2>5 DEF Serving, Single, s
      <3>3. using \subseteq gid
        BY DEF Serving
      <3>4. Serving'
        BY <2>1, <2>2, <2>5, <3>1, <3>2, <3>3, Opening
      <3> QED BY <2>1, <3>4 DEF GuildKnown
    <2>6. \/ stor' = stor /\ using' = using
          \/ stor' = s /\ using' = using
          \/ ~s.status /\ Keep(OpenNow(fresh, m))
      <3>1. Keep(IF m \notin online \/ ~known THEN Now
                 ELSE IF s.status \/ s.dirty THEN [Now EXCEPT !.stor = s]
                 ELSE OpenNow(fresh, m))
        BY <1>1 DEF ReceiveStorage, m, s, fresh
      <3>2. CASE m \notin online \/ ~known
        BY <3>1, <3>2 DEF Keep, Now
      <3>3. CASE ~(m \notin online \/ ~known) /\ (s.status \/ s.dirty)
        BY <3>1, <3>3 DEF Keep, Now
      <3>4. CASE ~(m \notin online \/ ~known) /\ ~(s.status \/ s.dirty)
        BY <3>1, <3>4
      <3> QED BY <3>2, <3>3, <3>4
    <2> QED BY <2>3, <2>4, <2>5, <2>6
  <1>2. ASSUME ReceiveSaved PROVE GuildKnown' /\ Serving'
    <2>1. /\ stor'.loaded = stor.loaded /\ stor'.status = stor.status /\ stor'.lock = stor.lock
          /\ UNCHANGED <<using, gid, member, known, events>>
      BY <1>2, HeadOfMap DEF ReceiveSaved, Storage
    <2> QED BY <2>1 DEF GuildKnown, Serving, Served, Single, Undisturbed
  <1>3. ASSUME ReceiveUnlock PROVE GuildKnown' /\ Serving'
    <2>1. /\ stor'.loaded = stor.loaded /\ stor'.status = stor.status /\ ~stor'.lock
          /\ UNCHANGED <<using, gid, member, known, events>>
      BY <1>3, HeadOfMap DEF ReceiveUnlock, Storage
    <2> QED BY <2>1 DEF GuildKnown, Serving, Served, Single, Undisturbed
  <1>4. ASSUME ReceiveRetrieved PROVE GuildKnown' /\ Serving'
    <2>1. UNCHANGED <<using, gid, member, known, events>>
      BY <1>4, HeadOfMap DEF ReceiveRetrieved
    <2>2. "bound" \in events
      <3>1. toMap # <<>> /\ Head(toMap).kind = "retrieved"
        BY <1>4 DEF ReceiveRetrieved, Next0, Head0
      <3>2. Head(toMap) = toMap[1] /\ 1 \in 1 .. Len(toMap)
        BY <3>1
      <3> QED BY <3>1, <3>2 DEF Unretrieved
    <2>3. CASE known
      <3>1. /\ stor'.loaded = Created(stor).loaded /\ ~stor'.status /\ ~stor'.lock
        BY <1>4, <2>3 DEF ReceiveRetrieved, Storage
      <3> QED BY <2>1, <2>2, <3>1 DEF GuildKnown, Serving, Served, Undisturbed
    <2>4. CASE ~known
      BY <1>4, <2>1, <2>4 DEF ReceiveRetrieved, GuildKnown, Serving, Undisturbed
    <2> QED BY <2>3, <2>4
  <1>5. ASSUME ReceiveInfo PROVE GuildKnown' /\ Serving'
    BY <1>5, HeadOfMap DEF ReceiveInfo, GuildKnown, Serving, Undisturbed
  <1>6. ASSUME ReceiveBroken PROVE GuildKnown' /\ Serving'
    <2>1. UNCHANGED events
      BY <1>6, HeadOfMap DEF ReceiveBroken
    <2>2. CASE known
      <3>1. /\ stor' = Unloaded /\ using' = using \ member /\ gid' = gid \ member
        BY <1>6, <2>2 DEF ReceiveBroken
      <3>2. using' = {} /\ gid' = {}
        BY <3>1 DEF GuildKnown, Serving
      <3> QED BY <2>1, <3>1, <3>2 DEF GuildKnown, Serving, Served, Single, Unloaded
    <2>3. CASE ~known
      BY <1>6, <2>1, <2>3 DEF ReceiveBroken, GuildKnown, Serving, Undisturbed
    <2> QED BY <2>2, <2>3
  <1> QED BY <1>1, <1>2, <1>3, <1>4, <1>5, <1>6

(* Making the members close the storage leaves it closed. *)
LEMMA ClearedFacts ==
  ASSUME TypeOK, GuildKnown, Serving, NEW s \in Storage, s.status = stor.status,
         Served(s, using), NEW w \in Cleared([Now EXCEPT !.stor = s])
  PROVE  /\ w \in World /\ w.using \subseteq using /\ ~w.stor.status
         /\ w.stor.loaded = s.loaded
         /\ Undisturbed => w.using = {}
  <1> DEFINE v == [Now EXCEPT !.stor = s]
  <1>1. v \in World /\ v.stor = s /\ v.using = using /\ using \subseteq member
    BY NowWorld DEF World, Now, GuildKnown, Serving
  <1> HIDE DEF v
  <1>2. w \in World
    BY <1>1, ClearedTyped DEF v
  <1>3. CASE s.status /\ using # {}
    <2>1. PICK first \in v.using \cap member : w = [Close(v, first) EXCEPT !.using = @ \ member]
      BY <1>1, <1>3 DEF Cleared, v
    <2>2. first \in Members /\ Close(v, first) \in World
      BY <1>1, <2>1, Types, CloseTyped
    <2>3. w.stor = Close(v, first).stor /\ w.using = Close(v, first).using \ member
      BY <2>1, <2>2 DEF World
    <2>4. Served(v.stor, v.using)
      BY <1>1
    <2>5. /\ Close(v, first).using = using \ {first} /\ Close(v, first).stor.status = FALSE
          /\ Close(v, first).stor.loaded = s.loaded
      BY <1>1, <2>2, <2>4, CloseFacts
    <2>6. w.using = {} /\ w.stor.status = FALSE /\ w.stor.loaded = s.loaded
      BY <1>1, <2>3, <2>5
    <2> QED BY <1>2, <2>6
  <1>4. CASE ~(s.status /\ using # {})
    <2>1. w = v
      BY <1>1, <1>4 DEF Cleared, v
    <2> QED BY <1>1, <1>2, <1>4, <2>1 DEF Serving, Served, Single
  <1> QED BY <1>3, <1>4
(* What a retrieval makes of the storage before the member is out. *)
LEMMA RetrievalFacts ==
  ASSUME TypeOK, GuildKnown, Serving, NEW m \in Members,
         NEW r \in RetrieveOnline(m) \cup RetrieveOffline(m)
  PROVE  /\ r.w \in World /\ r.w.using \subseteq using /\ Served(r.w.stor, r.w.using)
         /\ Undisturbed => Single(r.w.stor, r.w.using)
  <1> USE NowServed
  <1>1. CASE r = [w |-> Now, inv |-> inv] \/ r.w = Now
    BY <1>1 DEF Now, Serving
  <1>2. ASSUME m \in gid, NEW c \in Cleared([Now EXCEPT !.stor = StorageOf(m)]),
               NEW kept \in Fitting(StorageOf(m), BoundOf(m)), r = Retrieval(m, c, kept)
        PROVE  /\ r.w \in World /\ r.w.using \subseteq using /\ Served(r.w.stor, r.w.using)
               /\ Undisturbed => Single(r.w.stor, r.w.using)
    <2>1. StorageOf(m) = Created(stor)
      BY <1>2 DEF StorageOf
    <2>2. /\ c \in World /\ c.using \subseteq using /\ ~c.stor.status
          /\ c.stor.loaded = Created(stor).loaded
          /\ Undisturbed => c.using = {}
      BY <1>2, <2>1, ClearedFacts
    <2>3. kept \in SUBSET Items
      <3>1. BoundOf(m) \in SUBSET Items
        BY Types DEF BoundOf
      <3> QED BY <2>1, <3>1, FittingTyped
    <2>4. /\ Stored(c, kept) \in World /\ Stored(c, kept).using = c.using
          /\ ~Stored(c, kept).stor.status /\ Stored(c, kept).stor.loaded = c.stor.loaded
      BY <2>2, <2>3 DEF Stored, World, Storage
    <2>5. Served(Stored(c, kept).stor, Stored(c, kept).using)
      BY <2>2, <2>4 DEF Served
    <2>6. Close(Stored(c, kept), m) \in World
      BY <2>4, CloseTyped
    <2>7. /\ Close(Stored(c, kept), m).using = c.using \ {m}
          /\ Close(Stored(c, kept), m).stor.status = FALSE
          /\ Close(Stored(c, kept), m).stor.loaded = c.stor.loaded
      BY <2>4, <2>5, CloseFacts
    <2>8. r.w = Close(Stored(c, kept), m)
      BY <1>2 DEF Retrieval
    <2>9. c.using # {} => c.stor.loaded
      BY <2>2 DEF Served
    <2> QED BY <2>2, <2>6, <2>7, <2>8, <2>9 DEF Served, Single
  <1>3. CASE r \in RetrieveOnline(m)
    <2>1. CASE BoundOf(m) = {}
      BY <1>1, <1>3, <2>1 DEF RetrieveOnline
    <2>2. CASE BoundOf(m) # {}
      <3>1. RetrieveOnline(m) =
              {Retrieval(m, w, kept) : w \in Cleared([Now EXCEPT !.stor = StorageOf(m)]),
                                       kept \in Fitting(StorageOf(m), BoundOf(m))}
        BY <2>2 DEF RetrieveOnline
      <3>2. PICK c \in Cleared([Now EXCEPT !.stor = StorageOf(m)]),
                 kept \in Fitting(StorageOf(m), BoundOf(m)) : r = Retrieval(m, c, kept)
        BY <1>3, <3>1
      <3>3. CASE m \in gid
        BY <1>2, <3>2, <3>3
      <3>4. CASE m \notin gid
        <4>1. r.w = Now
          BY <3>2, <3>4 DEF Retrieval
        <4> QED BY <1>1, <4>1
      <3> QED BY <3>3, <3>4
    <2> QED BY <2>1, <2>2
  <1>4. CASE r \in RetrieveOffline(m)
    <2>1. PICK c \in Cleared(Now) :
            r = [w |-> [c EXCEPT !.sent = Append(@, Retrieve(m)),
                                 !.stor.lock = c.stor.loaded /\ (@ \/ up)],
                 inv |-> inv]
      BY <1>4 DEF RetrieveOffline
    <2>2. [Now EXCEPT !.stor = stor] = Now /\ stor \in Storage /\ Served(stor, using)
      BY Types DEF Now, Serving
    <2>3. /\ c \in World /\ c.using \subseteq using /\ ~c.stor.status
          /\ c.stor.loaded = stor.loaded
          /\ Undisturbed => c.using = {}
      BY <2>1, <2>2, ClearedFacts
    <2>4. Append(c.sent, Retrieve(m)) \in Seq(ToChar)
      <3>1. Retrieve(m) \in ToChar
        BY DEF ToChar, Retrieve
      <3> QED BY <2>3, <3>1 DEF World
    <2>5. [c.stor EXCEPT !.lock = c.stor.loaded /\ (@ \/ up)] \in Storage
      BY <2>3, Types DEF World, Storage
    <2>6. /\ r.w \in World /\ r.w.using = c.using /\ ~r.w.stor.status
          /\ r.w.stor.loaded = stor.loaded
      BY <2>1, <2>3, <2>4, <2>5 DEF World, Storage
    <2> QED BY <2>2, <2>3, <2>6 DEF Served, Single
  <1> QED BY <1>3, <1>4

LEMMA WithdrawServes ==
  ASSUME TypeOK, GuildKnown, Serving, ReceiveWithdraw
  PROVE  GuildKnown' /\ Serving'
  <1> DEFINE m == Head0.who
  <1>1. m \in Members /\ UNCHANGED <<known, events>>
    BY HeadOfMap, FromChar DEF ReceiveWithdraw
  <1> HIDE DEF m
  <1>2. CASE known /\ m \in member
    <2>1. PICK r \in IF m \in online THEN RetrieveOnline(m) ELSE RetrieveOffline(m) :
            /\ Keep(IF m \in gid /\ m \in r.w.using THEN Close(r.w, m) ELSE r.w)
            /\ member' = IF online \cap member = {} THEN member ELSE member \ {m}
            /\ gid' = gid \ {m}
      BY <1>2 DEF ReceiveWithdraw, m
    <2>2. /\ r.w \in World /\ r.w.using \subseteq using /\ Served(r.w.stor, r.w.using)
          /\ Undisturbed => Single(r.w.stor, r.w.using)
      BY <1>1, <2>1, RetrievalFacts
    <2>3. GuildKnown'
      BY <1>1, <2>1 DEF GuildKnown
    <2>4. CASE m \in r.w.using
      <3>1. Keep(Close(r.w, m))
        BY <2>1, <2>2, <2>4 DEF Serving
      <3>2. using' = r.w.using \ {m} /\ stor'.status = FALSE /\ stor'.loaded = r.w.stor.loaded
        BY <1>1, <2>2, <3>1, CloseFacts DEF Keep
      <3>3. Undisturbed => using' = {}
        BY <2>2, <2>4, <3>2 DEF Single
      <3> QED BY <1>1, <2>1, <2>2, <2>3, <3>2, <3>3 DEF Serving, Served, Single, Undisturbed
    <2>5. CASE m \notin r.w.using
      <3>1. using' = r.w.using /\ stor' = r.w.stor
        BY <2>1, <2>5 DEF Keep
      <3>2. using' \subseteq gid'
        BY <2>1, <2>2, <2>5, <3>1 DEF Serving
      <3> QED BY <1>1, <2>2, <2>3, <3>1, <3>2 DEF Serving, Undisturbed
    <2> QED BY <2>4, <2>5
  <1>3. CASE ~(known /\ m \in member)
    <2>1. UNCHANGED <<stor, using, gid, member>>
      BY <1>3 DEF ReceiveWithdraw, m
    <2> QED BY <1>1, <2>1 DEF GuildKnown, Serving, Undisturbed
  <1> QED BY <1>2, <1>3

LEMMA ServersServe ==
  ASSUME GuildKnown, Serving
  PROVE  /\ CharReceive \/ SkillUp \/ Break \/ LoseLink \/ Reconnect => GuildKnown' /\ Serving'
         /\ Crash => GuildKnown' /\ Serving'
  <1>1. ASSUME UNCHANGED mapVars, UNCHANGED events PROVE GuildKnown' /\ Serving'
    BY <1>1 DEF mapVars, GuildKnown, Serving, Undisturbed
  <1>2. ASSUME Crash PROVE GuildKnown' /\ Serving'
    BY <1>2 DEF Crash, GuildKnown, Serving, Served, Single, Unloaded
  <1> QED BY <1>1, <1>2
          DEF CharReceive, CharSave, CharLoad, CharRetrieve, SkillUp, Break, LoseLink, Reconnect

-----------------------------------------------------------------------------
(* Nothing is retrieved by the char-server where nothing is bound. *)
LEMMA Unsent ==
  ASSUME TypeOK, Unretrieved, UNCHANGED events,
         NEW ps \in Seq(ToMap), Answer(ps),
         "bound" \notin events => \A i \in 1 .. Len(ps) : ps[i].kind # "retrieved"
  PROVE  Unretrieved'
  <1>1. toMap \in Seq(ToMap)
    BY Types
  <1>2. ASSUME "bound" \notin events, NEW i \in 1 .. Len(toMap \o ps)
        PROVE  (toMap \o ps)[i].kind # "retrieved"
    BY <1>1, <1>2 DEF Unretrieved
  <1> QED BY <1>2 DEF Answer, Unretrieved

LEMMA UnsentOne ==
  ASSUME TypeOK, Unretrieved, UNCHANGED events,
         NEW q \in ToMap, Answer(<<q>>), "bound" \notin events => q.kind # "retrieved"
  PROVE  Unretrieved'
  <1> DEFINE ps == <<q>>
  <1>1. ps \in Seq(ToMap) /\ Len(ps) = 1 /\ ps[1] = q
    OBVIOUS
  <1>2. "bound" \notin events => \A i \in 1 .. Len(ps) : ps[i].kind # "retrieved"
    BY <1>1
  <1> QED BY <1>1, <1>2, Unsent

LEMMA Handled ==
  ASSUME TypeOK, Unretrieved, Next0
  PROVE  Unretrieved'
  <1>1. toMap \in Seq(ToMap) /\ toMap # <<>> /\ toMap' = Tail(toMap) /\ events' = events
    BY Types DEF Next0
  <1>2. \A i \in 1 .. Len(Tail(toMap)) : Tail(toMap)[i] = toMap[i + 1] /\ i + 1 \in 1 .. Len(toMap)
    BY <1>1
  <1> QED BY <1>1, <1>2 DEF Unretrieved

LEMMA StepUnretrieved == TypeOK /\ Unretrieved /\ [Next]_vars => Unretrieved'
  <1> SUFFICES ASSUME TypeOK, Unretrieved, [Next]_vars PROVE Unretrieved'
    OBVIOUS
  <1>1. CASE UNCHANGED <<toMap, events>>
    BY <1>1 DEF Unretrieved
  <1>2. CASE Receive
    BY <1>2, Handled DEF Receive, ReceiveStorage, ReceiveSaved, ReceiveUnlock, ReceiveRetrieved,
                         ReceiveInfo, ReceiveWithdraw, ReceiveBroken
  <1>3. CASE toMap' = <<>> /\ events' = events
    BY <1>3 DEF Unretrieved
  <1>4. CASE CharSave
    <2>1. CASE Answer(<<Saved>>)
      <3>1. Saved \in ToMap /\ Saved.kind # "retrieved" /\ events' = events
        BY <1>4 DEF CharSave, ToMap, Saved
      <3> QED BY <2>1, <3>1, UnsentOne
    <2> QED BY <1>1, <1>4, <2>1 DEF CharSave
  <1>5. CASE CharLoad
    <2> DEFINE p == Head(toChar)
               ps == IF roster = {} THEN <<>> ELSE <<Loaded(p.who, sqlStore, sqlLevel * Slots)>>
    <2>1. p \in ToChar /\ p.kind = "load" /\ Answer(ps) /\ events' = events
      BY <1>5, HeadOfChar DEF CharLoad
    <2>2. Loaded(p.who, sqlStore, sqlLevel * Slots) \in ToMap
      BY <2>1, Types, FromMap, PacketsToMap
    <2>3. ps \in Seq(ToMap) /\ \A i \in 1 .. Len(ps) : ps[i].kind # "retrieved"
      BY <2>2 DEF Loaded
    <2> HIDE DEF ps
    <2> QED BY <2>1, <2>3, Unsent
  <1>6. CASE CharRetrieve
    <2> DEFINE p == Head(toChar)
               taken == sqlInv[p.who] \cap Locked(Items)
               q == IF taken = {} THEN RetrieveDone ELSE Retrieved(taken)
    <2>1. p \in ToChar /\ p.kind = "retrieve" /\ Answer(<<q>>) /\ events' = events
      BY <1>6, HeadOfChar DEF CharRetrieve
    <2>2. taken \in SUBSET Items
      BY <2>1, Types, FromMap
    <2>3. q \in ToMap
      BY <2>2 DEF ToMap, Retrieved
    <2>4. "bound" \notin events => q.kind # "retrieved"
      BY DEF Locked, RetrieveDone
    <2> HIDE DEF q
    <2> QED BY <2>1, <2>3, <2>4, UnsentOne
  <1>7. CASE SkillUp
    <2>1. Answer(<<Info(sqlLevel + 1)>>) /\ events' = events /\ sqlLevel + 1 \in 0 .. MaxLevel
      BY <1>7, Types, SizesAssumption DEF SkillUp
    <2>2. Info(sqlLevel + 1) \in ToMap /\ Info(sqlLevel + 1).kind # "retrieved"
      BY <2>1 DEF ToMap, Info
    <2> QED BY <2>1, <2>2, UnsentOne
  <1>8. CASE Break
    <2>1. Broken \in ToMap /\ Broken.kind # "retrieved" /\ Answer(<<Broken>>) /\ events' = events
      BY <1>8 DEF Break, ToMap, Broken
    <2> QED BY <2>1, UnsentOne
  <1>9. ASSUME NEW m \in Members, Leave(m) PROVE Unretrieved'
    <2>1. /\ Withdraw(m) \in ToMap /\ Broken \in ToMap
          /\ Withdraw(m).kind # "retrieved" /\ Broken.kind # "retrieved"
      BY DEF ToMap, Withdraw, Broken
    <2> DEFINE more == IF roster \ {m} = {} THEN <<Broken>> ELSE <<>>
               ps == <<Withdraw(m)>> \o more
    <2>2. events' = events /\ Answer(ps)
      BY <1>9 DEF Leave
    <2>3. CASE roster \ {m} = {}
      <3>1. ps \in Seq(ToMap) /\ Len(ps) = 2 /\ ps[1] = Withdraw(m) /\ ps[2] = Broken
        BY <2>1, <2>3
      <3>2. \A i \in 1 .. Len(ps) : ps[i].kind # "retrieved"
        BY <2>1, <3>1
      <3> HIDE DEF ps
      <3> QED BY <2>2, <3>1, <3>2, Unsent
    <2>4. CASE roster \ {m} # {}
      <3> DEFINE one == <<Withdraw(m)>>
      <3>1. one \in Seq(ToMap)
        BY <2>1
      <3>2. one \o <<>> = one
        BY <3>1, ConcatEmptySeq
      <3>3. ps = one \o <<>>
        BY <2>4
      <3>4. Answer(<<Withdraw(m)>>)
        BY <2>2, <3>2, <3>3
      <3> QED BY <2>1, <2>2, <3>4, UnsentOne
    <2> QED BY <2>3, <2>4
  <1> QED
    BY <1>1, <1>2, <1>3, <1>4, <1>5, <1>6, <1>7, <1>8, <1>9
       DEF Next, vars, CharReceive, Login, Quit, Autosave, Open, CloseStorage, ScriptCount,
           Deposit, Take, ScriptDelete, LoseLink, Reconnect, Crash

-----------------------------------------------------------------------------
LEMMA StepKeeps == IInv /\ [Next]_vars => IInv'
  <1> SUFFICES ASSUME IInv, [Next]_vars PROVE IInv'
    OBVIOUS
  <1>1. TypeOK' /\ Unretrieved'
    BY StepTyped, StepUnretrieved DEF IInv
  <1>2. GuildKnown' /\ Serving'
    <2>1. CASE UNCHANGED vars
      BY <2>1 DEF IInv, vars, mapVars, GuildKnown, Serving, Undisturbed
    <2>2. CASE Next
      BY <2>2, PlayersServe, ItemsServe, ReceivedServe, WithdrawServes, ServersServe
         DEF IInv, Next, Receive
    <2> QED BY <2>1, <2>2
  <1> QED BY <1>1, <1>2 DEF IInv

LEMMA InitKeeps == Init => IInv
  BY InitTyped DEF Init, IInv, GuildKnown, Serving, Served, Single, Unloaded, Unretrieved

LEMMA Inductive == Spec => []IInv
  BY InitKeeps, StepKeeps, PTL DEF Spec

(* Whoever has the storage open is a member in the game, and the storage   *)
(* is in memory, whatever order expulsions, breaks, loads, crashes and     *)
(* retrievals come in.                                                     *)
THEOREM UsersAlwaysBelong == Spec => []UsersBelong
  <1>1. IInv => UsersBelong
    BY DEF IInv, Serving, Served, UsersBelong
  <1> QED BY <1>1, Inductive, PTL

(* The storage is never left open for nobody, which would keep the guild   *)
(* out of it, nor is it used while bound items are retrieved into it.      *)
THEOREM NeverOpenForNobody == Spec => []OpenForSomebody
  <1>1. IInv => OpenForSomebody
    BY DEF IInv, Serving, Served, OpenForSomebody
  <1> QED BY <1>1, Inductive, PTL

(* One member at a time has the storage open as long as no script and no   *)
(* retrieval closes it for somebody else.                                  *)
THEOREM OneUserAtATime == Spec => []OneUser
  <1>1. IInv => OneUser
    <2> SUFFICES ASSUME IInv, Undisturbed PROVE Cardinality(using) <= 1
      BY DEF OneUser, Undisturbed
    <2>1. \A x, y \in using : x = y
      BY DEF IInv, Serving, Single
    <2>2. CASE using = {}
      BY <2>2, FS_EmptySet
    <2>3. CASE using # {}
      <3>1. PICK x \in using : TRUE
        BY <2>3
      <3>2. using = {x}
        BY <2>1, <3>1
      <3> QED BY <3>2, FS_Singleton
    <2> QED BY <2>2, <2>3
  <1> QED BY <1>1, Inductive, PTL

-----------------------------------------------------------------------------
(* What is under way, and what it leaves in the database: the last packet  *)
(* of a kind counts.                                                       *)
In(q) == {q[i] : i \in 1 .. Len(q)}
Has(q, k) == \E p \in In(q) : p.kind = k
Before(q, k, l) == \A i, j \in 1 .. Len(q) : i < j /\ q[i].kind = k => q[j].kind # l
At(q, P) == {i \in 1 .. Len(q) : q[i] \in P}
Written(q, P, base) == IF At(q, P) = {} THEN base
                       ELSE q[CHOOSE i \in At(q, P) : \A j \in At(q, P) : j <= i].items
InvOf(m) == {p \in ToChar : p.kind = "inventory" /\ p.who = m}
Stores == {p \in ToChar : p.kind = "store"}

LEMMA InConcat ==
  ASSUME NEW T, NEW q \in Seq(T), NEW r \in Seq(T)
  PROVE  In(q \o r) = In(q) \cup In(r)
  <1>1. /\ Len(q) \in Nat /\ Len(r) \in Nat /\ Len(q \o r) = Len(q) + Len(r)
        /\ \A i \in 1 .. Len(q) + Len(r) :
             (q \o r)[i] = IF i <= Len(q) THEN q[i] ELSE r[i - Len(q)]
    BY ConcatProperties, LenProperties
  <1>2. ASSUME NEW i \in 1 .. Len(r) PROVE r[i] \in In(q \o r)
    <2>1. Len(q) + i \in 1 .. Len(q) + Len(r) /\ ~(Len(q) + i <= Len(q))
          /\ (Len(q) + i) - Len(q) = i
      BY <1>1
    <2>2. (q \o r)[Len(q) + i] = r[i]
      BY <1>1, <2>1
    <2> QED BY <1>1, <2>1, <2>2 DEF In
  <1>3. ASSUME NEW i \in 1 .. Len(q) PROVE q[i] \in In(q \o r)
    <2>1. i \in 1 .. Len(q) + Len(r) /\ i <= Len(q)
      BY <1>1
    <2>2. (q \o r)[i] = q[i]
      BY <1>1, <2>1
    <2> QED BY <1>1, <2>1, <2>2 DEF In
  <1>4. ASSUME NEW i \in 1 .. Len(q) + Len(r) PROVE (q \o r)[i] \in In(q) \cup In(r)
    <2>1. CASE i <= Len(q)
      <3>1. i \in 1 .. Len(q) /\ (q \o r)[i] = q[i]
        BY <1>1, <2>1
      <3> QED BY <3>1 DEF In
    <2>2. CASE ~(i <= Len(q))
      <3>1. i - Len(q) \in 1 .. Len(r) /\ (q \o r)[i] = r[i - Len(q)]
        BY <1>1, <2>2
      <3> QED BY <3>1 DEF In
    <2> QED BY <2>1, <2>2
  <1> QED BY <1>1, <1>2, <1>3, <1>4 DEF In

LEMMA InTail ==
  ASSUME NEW T, NEW q \in Seq(T), q # <<>>
  PROVE  /\ Head(q) \in In(q) /\ In(q) = {Head(q)} \cup In(Tail(q))
  <1>1. /\ Len(q) \in Nat \ {0} /\ Len(Tail(q)) = Len(q) - 1 /\ Head(q) = q[1]
        /\ \A i \in 1 .. Len(q) - 1 : Tail(q)[i] = q[i + 1]
    BY HeadTailProperties, EmptySeq
  <1>2. ASSUME NEW i \in 1 .. Len(q) PROVE q[i] \in {Head(q)} \cup In(Tail(q))
    <2>1. CASE i = 1
      BY <1>1, <2>1
    <2>2. CASE i # 1
      <3>1. i - 1 \in 1 .. Len(q) - 1 /\ (i - 1) + 1 = i
        BY <1>1, <2>2
      <3>2. Tail(q)[i - 1] = q[i]
        BY <1>1, <3>1
      <3> QED BY <1>1, <3>1, <3>2 DEF In
    <2> QED BY <2>1, <2>2
  <1>3. ASSUME NEW i \in 1 .. Len(q) - 1 PROVE Tail(q)[i] \in In(q)
    <2>1. i + 1 \in 1 .. Len(q)
      BY <1>1
    <2> QED BY <1>1, <2>1 DEF In
  <1>4. Head(q) \in In(q)
    <2>1. 1 \in 1 .. Len(q)
      BY <1>1
    <2> QED BY <1>1, <2>1 DEF In
  <1> QED BY <1>1, <1>2, <1>3, <1>4 DEF In

LEMMA InFew ==
  ASSUME NEW T, NEW x \in T, NEW y \in T
  PROVE  /\ <<>> \in Seq(T) /\ <<x>> \in Seq(T) /\ <<x, y>> \in Seq(T)
         /\ In(<<>>) = {} /\ In(<<x>>) = {x} /\ In(<<x, y>>) = {x, y}
         /\ <<x>> \o <<y>> = <<x, y>> /\ <<x>> \o <<>> = <<x>>
  <1> DEFINE one == <<x>>
             two == <<x, y>>
  <1>1. one \in Seq(T) /\ Len(one) = 1 /\ one[1] = x
    OBVIOUS
  <1>2. two \in Seq(T) /\ Len(two) = 2 /\ two[1] = x /\ two[2] = y
    OBVIOUS
  <1>3. <<>> \in Seq(T) /\ Len(<<>>) = 0
    BY EmptySeq
  <1> DEFINE other == <<y>>
  <1>9. other \in Seq(T) /\ Len(other) = 1 /\ other[1] = y
    OBVIOUS
  <1> HIDE DEF one, two, other
  <1>4. one \o other = two
    <2>1. /\ one \o other \in Seq(T) /\ Len(one \o other) = 2
          /\ (one \o other)[1] = x /\ (one \o other)[2] = y
      BY <1>1, <1>9, ConcatProperties
    <2>2. \A i \in 1 .. 2 : (one \o other)[i] = two[i]
      BY <1>2, <2>1
    <2> QED BY <1>2, <2>1, <2>2, SeqEqual
  <1>8. one \o <<>> = one
    BY <1>1, ConcatEmptySeq
  <1>5. In(one) = {x}
    BY <1>1 DEF In
  <1>6. In(two) = {x, y}
    <2>1. 1 .. 2 = {1, 2}
      OBVIOUS
    <2> QED BY <1>2, <2>1 DEF In
  <1>7. In(<<>>) = {}
    BY <1>3 DEF In
  <1> QED BY <1>1, <1>2, <1>3, <1>4, <1>5, <1>6, <1>7, <1>8 DEF one, two, other

LEMMA BeforeConcat ==
  ASSUME NEW T, NEW q \in Seq(T), NEW r \in Seq(T), NEW k, NEW l, Before(q, k, l),
         ~Has(r, l) \/ (~Has(q, k) /\ ~Has(r, k))
  PROVE  Before(q \o r, k, l)
  <1>1. /\ Len(q) \in Nat /\ Len(r) \in Nat /\ Len(q \o r) = Len(q) + Len(r)
        /\ \A i \in 1 .. Len(q) + Len(r) :
             (q \o r)[i] = IF i <= Len(q) THEN q[i] ELSE r[i - Len(q)]
    BY ConcatProperties, LenProperties
  <1>2. \A i \in 1 .. Len(q) : q[i] \in In(q)
    BY DEF In
  <1>3. \A i \in 1 .. Len(r) : r[i] \in In(r)
    BY DEF In
  <1>4. ASSUME NEW i \in 1 .. Len(q \o r), NEW j \in 1 .. Len(q \o r), i < j,
               (q \o r)[i].kind = k, (q \o r)[j].kind = l
        PROVE  FALSE
    <2>1. CASE j <= Len(q)
      <3>1. i \in 1 .. Len(q) /\ j \in 1 .. Len(q)
        BY <1>1, <1>4, <2>1
      <3>2. q[i].kind = k /\ q[j].kind = l
        BY <1>1, <1>4, <2>1, <3>1
      <3> QED BY <1>4, <3>1, <3>2 DEF Before
    <2>2. CASE ~(j <= Len(q))
      <3>1. j - Len(q) \in 1 .. Len(r) /\ (q \o r)[j] = r[j - Len(q)]
        BY <1>1, <1>4, <2>2
      <3>2. Has(r, l)
        BY <1>3, <1>4, <3>1 DEF Has
      <3>3. CASE i <= Len(q)
        <4>1. i \in 1 .. Len(q) /\ (q \o r)[i] = q[i]
          BY <1>1, <1>4, <3>3
        <4> QED BY <1>2, <1>4, <3>2, <4>1 DEF Has
      <3>4. CASE ~(i <= Len(q))
        <4>1. i - Len(q) \in 1 .. Len(r) /\ (q \o r)[i] = r[i - Len(q)]
          BY <1>1, <1>4, <3>4
        <4> QED BY <1>3, <1>4, <3>2, <4>1 DEF Has
      <3> QED BY <3>3, <3>4
    <2> QED BY <2>1, <2>2
  <1> QED BY <1>4 DEF Before

LEMMA BeforeTail ==
  ASSUME NEW T, NEW q \in Seq(T), q # <<>>, NEW k, NEW l, Before(q, k, l)
  PROVE  Before(Tail(q), k, l) /\ (Head(q).kind = k => ~Has(Tail(q), l))
  <1>1. /\ Len(q) \in Nat \ {0} /\ Len(Tail(q)) = Len(q) - 1 /\ Head(q) = q[1]
        /\ \A i \in 1 .. Len(q) - 1 : Tail(q)[i] = q[i + 1]
    BY HeadTailProperties, EmptySeq
  <1>2. Before(Tail(q), k, l)
    <2>1. ASSUME NEW i \in 1 .. Len(q) - 1, NEW j \in 1 .. Len(q) - 1, i < j,
                 Tail(q)[i].kind = k
          PROVE  Tail(q)[j].kind # l
      <3>1. i + 1 \in 1 .. Len(q) /\ j + 1 \in 1 .. Len(q) /\ i + 1 < j + 1
        BY <1>1, <2>1
      <3>2. Tail(q)[i] = q[i + 1] /\ Tail(q)[j] = q[j + 1]
        BY <1>1
      <3> QED BY <2>1, <3>1, <3>2 DEF Before
    <2> QED BY <1>1, <2>1 DEF Before
  <1>3. ASSUME Head(q).kind = k, NEW j \in 1 .. Len(q) - 1 PROVE Tail(q)[j].kind # l
    <2>1. 1 \in 1 .. Len(q) /\ j + 1 \in 1 .. Len(q) /\ 1 < j + 1
      BY <1>1, <1>3
    <2>2. q[1].kind = k /\ Tail(q)[j] = q[j + 1]
      BY <1>1, <1>3
    <2> QED BY <2>1, <2>2 DEF Before
  <1> QED BY <1>1, <1>2, <1>3 DEF Has, In

LEMMA BeforeOne ==
  ASSUME NEW T, NEW x \in T, NEW k, NEW l
  PROVE  Before(<<x>>, k, l) /\ Before(<<>>, k, l)
  <1> DEFINE one == <<x>>
  <1>1. Len(one) = 1 /\ Len(<<>>) = 0
    OBVIOUS
  <1> HIDE DEF one
  <1>2. Before(one, k, l) /\ Before(<<>>, k, l)
    BY <1>1 DEF Before
  <1> QED BY <1>2 DEF one

-----------------------------------------------------------------------------
LEMMA WrittenLast ==
  ASSUME NEW T, NEW q \in Seq(T), NEW P, NEW b, NEW i \in At(q, P),
         \A j \in At(q, P) : j <= i
  PROVE  Written(q, P, b) = q[i].items
  <1>1. At(q, P) \subseteq Nat
    BY DEF At
  <1>2. ASSUME NEW k \in At(q, P), \A j \in At(q, P) : j <= k PROVE k = i
    <2>1. k <= i /\ i <= k
      BY <1>2
    <2> QED BY <1>1, <2>1
  <1> DEFINE c == CHOOSE k \in At(q, P) : \A j \in At(q, P) : j <= k
  <1>3. c \in At(q, P) /\ \A j \in At(q, P) : j <= c
    OBVIOUS
  <1>4. c = i
    BY <1>2, <1>3
  <1> QED BY <1>4 DEF Written

LEMMA WrittenNone ==
  ASSUME NEW q, NEW P, NEW b, In(q) \cap P = {}
  PROVE  Written(q, P, b) = b
  BY DEF Written, At, In

LEMMA SomeLast ==
  ASSUME NEW T, NEW q \in Seq(T), NEW P, In(q) \cap P # {}
  PROVE  \E i \in At(q, P) : \A j \in At(q, P) : j <= i
  <1>1. Len(q) \in Nat
    BY LenProperties
  <1>2. At(q, P) \in SUBSET (1 .. Len(q)) /\ At(q, P) # {}
    BY DEF At, In
  <1> QED BY <1>1, <1>2, LastOne

(* What is sent later overwrites what was sent before. *)
LEMMA WrittenConcat ==
  ASSUME NEW T, NEW q \in Seq(T), NEW r \in Seq(T), NEW P, NEW b
  PROVE  Written(q \o r, P, b) = Written(r, P, Written(q, P, b))
  <1>1. /\ Len(q) \in Nat /\ Len(r) \in Nat /\ Len(q \o r) = Len(q) + Len(r)
        /\ q \o r \in Seq(T)
        /\ \A i \in 1 .. Len(q) + Len(r) :
             (q \o r)[i] = IF i <= Len(q) THEN q[i] ELSE r[i - Len(q)]
    BY ConcatProperties, LenProperties
  <1>2. CASE In(r) \cap P # {}
    <2>1. PICK i \in At(r, P) : \A j \in At(r, P) : j <= i
      BY <1>2, SomeLast
    <2>2. i \in 1 .. Len(r) /\ r[i] \in P
      BY <2>1 DEF At
    <2> DEFINE k == Len(q) + i
    <2>3. k \in 1 .. Len(q) + Len(r) /\ ~(k <= Len(q)) /\ k - Len(q) = i
      BY <1>1, <2>2
    <2>4. (q \o r)[k] = r[i]
      BY <1>1, <2>3
    <2>5. k \in At(q \o r, P)
      BY <1>1, <2>2, <2>3, <2>4 DEF At
    <2>6. ASSUME NEW j \in At(q \o r, P) PROVE j <= k
      <3>1. j \in 1 .. Len(q) + Len(r) /\ (q \o r)[j] \in P
        BY <1>1 DEF At
      <3>2. CASE j <= Len(q)
        BY <1>1, <2>2, <3>1, <3>2
      <3>3. CASE ~(j <= Len(q))
        <4>1. j - Len(q) \in 1 .. Len(r) /\ r[j - Len(q)] \in P
          BY <1>1, <3>1, <3>3
        <4>2. j - Len(q) <= i
          BY <2>1, <4>1 DEF At
        <4> QED BY <1>1, <2>2, <3>1, <4>2
      <3> QED BY <3>2, <3>3
    <2> HIDE DEF k
    <2> DEFINE qr == q \o r
    <2>9. qr \in Seq(T) /\ k \in At(qr, P) /\ qr[k] = r[i] /\ \A j \in At(qr, P) : j <= k
      BY <1>1, <2>4, <2>5, <2>6
    <2> HIDE DEF qr
    <2>10. Written(qr, P, b) = qr[k].items
      BY <2>9, WrittenLast
    <2>7. Written(q \o r, P, b) = r[i].items
      BY <2>9, <2>10 DEF qr
    <2>8. Written(r, P, Written(q, P, b)) = r[i].items
      BY <2>1, WrittenLast
    <2> QED BY <2>7, <2>8
  <1>3. CASE In(r) \cap P = {}
    <2>1. Written(r, P, Written(q, P, b)) = Written(q, P, b)
      BY <1>3, WrittenNone
    <2>2. CASE In(q) \cap P = {}
      <3>1. In(q \o r) \cap P = {}
        BY <1>3, <2>2, InConcat
      <3>2. Written(q \o r, P, b) = b /\ Written(q, P, b) = b
        BY <2>2, <3>1, WrittenNone
      <3> QED BY <2>1, <3>2
    <2>3. CASE In(q) \cap P # {}
      <3>1. PICK i \in At(q, P) : \A j \in At(q, P) : j <= i
        BY <2>3, SomeLast
      <3>2. i \in 1 .. Len(q) /\ q[i] \in P
        BY <3>1 DEF At
      <3>3. i \in 1 .. Len(q) + Len(r) /\ i <= Len(q)
        BY <1>1, <3>2
      <3>4. (q \o r)[i] = q[i]
        BY <1>1, <3>3
      <3>5. i \in At(q \o r, P)
        BY <1>1, <3>2, <3>3, <3>4 DEF At
      <3>6. ASSUME NEW j \in At(q \o r, P) PROVE j <= i
        <4>1. j \in 1 .. Len(q) + Len(r) /\ (q \o r)[j] \in P
          BY <1>1 DEF At
        <4>2. CASE j <= Len(q)
          <5>1. (q \o r)[j] = q[j] /\ j \in 1 .. Len(q)
            BY <1>1, <4>1, <4>2
          <5> QED BY <3>1, <4>1, <5>1 DEF At
        <4>3. CASE ~(j <= Len(q))
          <5>1. j - Len(q) \in 1 .. Len(r) /\ r[j - Len(q)] \in P
            BY <1>1, <4>1, <4>3
          <5>2. r[j - Len(q)] \in In(r)
            BY <5>1 DEF In
          <5> QED BY <1>3, <5>1, <5>2
        <4> QED BY <4>2, <4>3
      <3> DEFINE qr == q \o r
      <3>9. qr \in Seq(T) /\ i \in At(qr, P) /\ qr[i] = q[i] /\ \A j \in At(qr, P) : j <= i
        BY <1>1, <3>4, <3>5, <3>6
      <3> HIDE DEF qr
      <3>10. Written(qr, P, b) = qr[i].items
        BY <3>9, WrittenLast
      <3>7. Written(q \o r, P, b) = q[i].items
        BY <3>9, <3>10 DEF qr
      <3>8. Written(q, P, b) = q[i].items
        BY <3>1, WrittenLast
      <3> QED BY <2>1, <3>7, <3>8
    <2> QED BY <2>2, <2>3
  <1> QED BY <1>2, <1>3

LEMMA WrittenOne ==
  ASSUME NEW T, NEW x \in T, NEW P, NEW b
  PROVE  Written(<<x>>, P, b) = IF x \in P THEN x.items ELSE b
  <1> DEFINE one == <<x>>
  <1>1. one \in Seq(T) /\ Len(one) = 1 /\ one[1] = x
    OBVIOUS
  <1> HIDE DEF one
  <1>2. CASE x \in P
    <2>1. 1 \in At(one, P) /\ \A j \in At(one, P) : j <= 1
      BY <1>1, <1>2 DEF At
    <2> QED BY <1>1, <1>2, <2>1, WrittenLast DEF one
  <1>3. CASE x \notin P
    <2>1. In(one) \cap P = {}
      BY <1>1, <1>3 DEF In
    <2> QED BY <1>3, <2>1, WrittenNone DEF one
  <1> QED BY <1>2, <1>3

LEMMA WrittenTail ==
  ASSUME NEW T, NEW q \in Seq(T), q # <<>>, NEW P, NEW b
  PROVE  Written(q, P, b) = Written(Tail(q), P, IF Head(q) \in P THEN Head(q).items ELSE b)
  <1> DEFINE one == <<Head(q)>>
             rest == Tail(q)
  <1>1. /\ Len(q) \in Nat \ {0} /\ Len(rest) = Len(q) - 1 /\ Head(q) = q[1] /\ Head(q) \in T
        /\ rest \in Seq(T)
        /\ \A i \in 1 .. Len(q) - 1 : rest[i] = q[i + 1]
    BY HeadTailProperties, EmptySeq
  <1>2. one \in Seq(T) /\ Len(one) = 1 /\ one[1] = Head(q)
    BY <1>1
  <1>3. Written(one, P, b) = IF Head(q) \in P THEN Head(q).items ELSE b
    BY <1>1, WrittenOne
  <1> HIDE DEF one, rest
  <1>4. one \o rest = q
    <2>1. /\ one \o rest \in Seq(T) /\ Len(one \o rest) = 1 + Len(rest)
          /\ \A i \in 1 .. 1 + Len(rest) :
               (one \o rest)[i] = IF i <= 1 THEN one[i] ELSE rest[i - 1]
      <3>1. /\ one \o rest \in Seq(T) /\ Len(one \o rest) = Len(one) + Len(rest)
            /\ \A i \in 1 .. Len(one) + Len(rest) :
                 (one \o rest)[i] = IF i <= Len(one) THEN one[i] ELSE rest[i - Len(one)]
        BY <1>1, <1>2, ConcatProperties, Zenon
      <3> QED BY <1>2, <3>1
    <2>2. ASSUME NEW i \in 1 .. Len(q) PROVE (one \o rest)[i] = q[i]
      <3>1. CASE i = 1
        BY <1>1, <1>2, <2>1, <3>1
      <3>2. CASE i # 1
        <4>1. i - 1 \in 1 .. Len(q) - 1 /\ (i - 1) + 1 = i
          BY <1>1, <3>2
        <4>2. rest[i - 1] = q[i]
          BY <1>1, <4>1
        <4> QED BY <1>1, <2>1, <3>2, <4>2
      <3> QED BY <3>1, <3>2
    <2>3. Len(one \o rest) = Len(q)
      BY <1>1, <2>1
    <2> QED BY <2>1, <2>2, <2>3, SeqEqual
  <1>5. Written(one \o rest, P, b) = Written(rest, P, Written(one, P, b))
    BY <1>1, <1>2, WrittenConcat
  <1> QED BY <1>3, <1>4, <1>5 DEF rest

(* What will be in the database, by the packets under way. *)
Writing ==
  /\ WrittenStore = IF roster = {} THEN sqlStore ELSE Written(toChar, Stores, sqlStore)
  /\ \A m \in Members : WrittenInv(m) = Written(toChar, InvOf(m), sqlInv[m])

LEMMA CalmWriting == TypeOK /\ Calm => Writing
  <1> SUFFICES ASSUME TypeOK, Calm PROVE Writing
    OBVIOUS
  <1>1. toChar \in Seq(ToChar) /\ Len(toChar) \in Nat
    BY Types
  <1>2. \A i \in 1 .. Len(toChar) : toChar[i] \in ToChar
    BY <1>1
  <1>3. WrittenStore = IF roster = {} THEN sqlStore ELSE Written(toChar, Stores, sqlStore)
    <2>1. At(toChar, Stores) = {i \in 1 .. Len(toChar) : toChar[i].kind = "store"}
      BY <1>2 DEF At, Stores
    <2> QED BY <2>1 DEF WrittenStore, Written
  <1>4. ASSUME NEW m \in Members
        PROVE  WrittenInv(m) = Written(toChar, InvOf(m), sqlInv[m])
    <2> DEFINE at == At(toChar, InvOf(m))
               kept == IF LastSave(m) = 0 THEN sqlInv[m] ELSE toChar[LastSave(m)].items
    <2>1. at = {i \in 1 .. Len(toChar) : toChar[i].kind = "inventory" /\ toChar[i].who = m}
      BY <1>2 DEF At, InvOf
    <2>2. LastSave(m) = IF at = {} THEN 0 ELSE CHOOSE i \in at : \A j \in at : j <= i
      BY <2>1 DEF LastSave
    <2>3. Locked(Items) = {}
      BY DEF Locked, Calm
    <2>4. WrittenInv(m) = kept
      <3>1. kept \ {} = kept
        <4>1. kept \in SUBSET Items
          <5>1. CASE at = {}
            BY <2>2, <5>1, Types
          <5>2. CASE at # {}
            <6>1. In(toChar) \cap InvOf(m) # {}
              BY <5>2 DEF At, In
            <6>2. \E i \in at : \A j \in at : j <= i
              BY <1>1, <6>1, SomeLast
            <6> HIDE DEF at
            <6>3. LastSave(m) \in at
              BY <2>2, <5>2, <6>2
            <6>4. LastSave(m) \in 1 .. Len(toChar) /\ toChar[LastSave(m)].kind = "inventory"
              BY <2>1, <6>3
            <6>5. toChar[LastSave(m)] \in ToChar /\ LastSave(m) # 0
              BY <1>2, <6>4
            <6>6. toChar[LastSave(m)].items \in SUBSET Items
              BY <6>4, <6>5, FromMap
            <6> QED BY <6>5, <6>6
          <5> QED BY <5>1, <5>2
        <4> QED BY <4>1
      <3> QED BY <2>3, <3>1 DEF WrittenInv
    <2>5. CASE at = {}
      BY <2>2, <2>4, <2>5 DEF Written
    <2>6. CASE at # {}
      <3>1. In(toChar) \cap InvOf(m) # {}
        BY <2>6 DEF At, In
      <3>2. PICK i \in at : \A j \in at : j <= i
        BY <1>1, <3>1, SomeLast
      <3> HIDE DEF at
      <3>3. LastSave(m) \in at
        BY <2>2, <2>6, <3>2
      <3>4. LastSave(m) # 0
        BY <2>1, <3>3
      <3>5. Written(toChar, InvOf(m), sqlInv[m]) = toChar[LastSave(m)].items
        BY <2>2, <2>6 DEF Written, at
      <3> QED BY <2>4, <3>4, <3>5
    <2> QED BY <2>5, <2>6
  <1> QED BY <1>3, <1>4 DEF Writing

LEMMA CalmWritingNext == (TypeOK /\ Calm => Writing)'
  BY CalmWriting, PTL

-----------------------------------------------------------------------------
(* The second inductive invariant, where none of the rare events happens:  *)
(* what the map-server has in memory against what is written and under     *)
(* way.  Who is in the game and does not use the storage has what was      *)
(* written of it; so has a storage that is closed or clean; a storage that *)
(* is read, or was read and is under way, is what is written unless the    *)
(* one in memory was changed, in which case the answer is ignored; a save  *)
(* is never followed by a load, nor its answer by a storage.               *)
Standing ==
  /\ up /\ (roster = {} => Members = {})
  /\ gid \subseteq online /\ (known => level = sqlLevel)
  /\ stor.dirty => stor.loaded
  /\ stor.loaded => known /\ stor.max = sqlLevel * Slots
InStep ==
  /\ \A m \in online \ using : inv[m] = WrittenInv(m)
  /\ stor.loaded /\ (~stor.dirty \/ ~stor.status)
       => stor.items = WrittenStore /\ \A m \in using : inv[m] = WrittenInv(m)
Orderly ==
  /\ Before(toChar, "store", "load") /\ Before(toMap, "saved", "loaded")
  /\ Has(toMap, "saved") => ~Has(toChar, "load")
  /\ Has(toChar, "store") \/ Has(toMap, "saved") => stor.loaded
UpToDate ==
  /\ Has(toChar, "load") /\ sqlStore # WrittenStore => stor.dirty
  /\ \A p \in In(toMap) :
       /\ p.kind \notin {"info", "broken", "retrieved"}
       /\ p.kind = "loaded" => /\ p.max = sqlLevel * Slots
                               /\ p.items # WrittenStore => stor.dirty
Books == Standing /\ InStep /\ Orderly /\ UpToDate
Settled == IInv /\ Calm /\ Books

(* What a step makes of the items, in memory and written.                  *)
Same == UNCHANGED <<using, StoreNow, CarriedNow, WrittenStore, WrittenBags>>
Saves == /\ WrittenStore' = StoreNow /\ WrittenBags' = CarriedNow
         /\ UNCHANGED <<using, StoreNow, CarriedNow>>
Restores == /\ using' = {} /\ StoreNow' = WrittenStore /\ CarriedNow' = WrittenBags
            /\ UNCHANGED <<WrittenStore, WrittenBags>>
Enters(m) == /\ using = {} /\ using' = {m}
             /\ UNCHANGED <<StoreNow, CarriedNow, WrittenStore, WrittenBags>>
Departs(m) == /\ using = {m} /\ using' = {}
              /\ WrittenStore' = StoreNow /\ WrittenBags' = CarriedNow
              /\ UNCHANGED <<StoreNow, CarriedNow>>
Moves(m, i) ==
  /\ using = {m} /\ UNCHANGED <<using, WrittenStore, WrittenBags>>
  /\ \/ /\ i \in CarriedNow[m] /\ StoreNow' = StoreNow \cup {i}
        /\ CarriedNow' = [CarriedNow EXCEPT ![m] = CarriedNow[m] \ {i}]
     \/ /\ i \in StoreNow /\ StoreNow' = StoreNow \ {i}
        /\ CarriedNow' = [CarriedNow EXCEPT ![m] = CarriedNow[m] \cup {i}]
Effect == \/ Same \/ Saves \/ Restores
          \/ \E m \in Members : Enters(m) \/ Departs(m) \/ \E i \in Items : Moves(m, i)

(* Without the rare events one member has the storage open, or nobody. *)
LEMMA OneUses ==
  ASSUME Settled
  PROVE  /\ TypeOK /\ using \subseteq online /\ using \subseteq gid /\ gid \subseteq member
         /\ (gid # {} => known) /\ (stor.status => using # {})
         /\ \A m \in using : using = {m} /\ stor.status /\ stor.loaded /\ ~stor.lock
  <1>1. Undisturbed
    BY DEF Settled, Calm, Undisturbed
  <1>2. /\ TypeOK /\ using \subseteq gid /\ gid \subseteq member /\ (gid # {} => known)
        /\ Served(stor, using) /\ Single(stor, using) /\ gid \subseteq online
    BY <1>1 DEF Settled, IInv, Serving, GuildKnown, Books, Standing
  <1>3. \A m \in using : using = {m}
    BY <1>2 DEF Single
  <1> QED BY <1>2, <1>3 DEF Served, Single

(* What is carried is what is written, but for the user's. *)
LEMMA CarriedIs ==
  ASSUME Settled
  PROVE  /\ CarriedNow \in [Members -> SUBSET Items] /\ WrittenBags \in [Members -> SUBSET Items]
         /\ \A m \in Members : /\ WrittenBags[m] = WrittenInv(m)
                               /\ CarriedNow[m] = IF m \in using THEN inv[m] ELSE WrittenInv(m)
         /\ StoreNow \in SUBSET Items /\ WrittenStore \in SUBSET Items
         /\ ~stor.status \/ ~stor.dirty => StoreNow = WrittenStore /\ CarriedNow = WrittenBags
  <1>1. /\ using \subseteq online /\ TypeOK
        /\ \A m \in using : stor.loaded
        /\ stor.status => using # {}
    BY OneUses
  <1>2. WrittenStore \in SUBSET Items /\ \A m \in Members : WrittenInv(m) \in SUBSET Items
    BY <1>1, WrittenTyped
  <1>3. inv \in [Members -> SUBSET Items] /\ stor.items \in SUBSET Items
    BY <1>1, Types DEF Storage
  <1>4. \A m \in online \ using : inv[m] = WrittenInv(m)
    BY DEF Settled, Books, InStep
  <1>5. \A m \in Members : CarriedNow[m] = IF m \in using THEN inv[m] ELSE WrittenInv(m)
    BY <1>1, <1>4 DEF CarriedNow
  <1>6. CarriedNow \in [Members -> SUBSET Items] /\ WrittenBags \in [Members -> SUBSET Items]
    BY <1>2, <1>3 DEF CarriedNow, WrittenBags
  <1>7. \A m \in Members : WrittenBags[m] = WrittenInv(m)
    BY DEF WrittenBags
  <1>8. StoreNow \in SUBSET Items
    BY <1>2, <1>3 DEF StoreNow
  <1>9. ASSUME ~stor.status \/ ~stor.dirty
        PROVE  StoreNow = WrittenStore /\ CarriedNow = WrittenBags
    <2>1. StoreNow = WrittenStore
      BY <1>9 DEF Settled, Books, InStep, StoreNow
    <2>2. \A m \in using : inv[m] = WrittenInv(m)
      BY <1>1, <1>9 DEF Settled, Books, InStep
    <2>3. \A m \in Members : CarriedNow[m] = WrittenBags[m]
      BY <1>5, <1>7, <2>2
    <2>4. CarriedNow = [m \in Members |-> CarriedNow[m]] /\ WrittenBags = [m \in Members |-> WrittenBags[m]]
      BY <1>6
    <2> HIDE DEF CarriedNow, WrittenBags
    <2> QED BY <2>1, <2>3, <2>4
  <1> QED BY <1>2, <1>5, <1>6, <1>7, <1>8, <1>9

(* What is sent is written last. *)
LEMMA Sends ==
  ASSUME Settled, TypeOK', UNCHANGED <<sqlInv, sqlStore, roster, events>>,
         NEW m \in Members, NEW ps \in Seq(ToChar), toChar' = toChar \o ps
  PROVE  /\ WrittenStore' = Written(ps, Stores, WrittenStore)
         /\ \A x \in Members : WrittenInv(x)' = Written(ps, InvOf(x), WrittenInv(x))
  <1>1. Writing /\ Writing' /\ toChar \in Seq(ToChar)
    BY CalmWriting, CalmWritingNext, Types DEF Settled, IInv, Calm
  <1>2. roster # {}
    BY DEF Settled, Books, Standing
  <1>3. \A P, b : Written(toChar', P, b) = Written(ps, P, Written(toChar, P, b))
    BY <1>1, WrittenConcat
  <1>4. WrittenStore' = Written(ps, Stores, WrittenStore)
    BY <1>1, <1>2, <1>3 DEF Writing
  <1>5. ASSUME NEW x \in Members
        PROVE  WrittenInv(x)' = Written(ps, InvOf(x), WrittenInv(x))
    BY <1>1, <1>3 DEF Writing
  <1> QED BY <1>4, <1>5

LEMMA WrittenSilent ==
  ASSUME NEW r, \A p \in In(r) : p.kind \in {"retrieve", "load"}, NEW b
  PROVE  Written(r, Stores, b) = b /\ \A x \in Members : Written(r, InvOf(x), b) = b
  <1>1. In(r) \cap Stores = {} /\ \A x \in Members : In(r) \cap InvOf(x) = {}
    BY DEF Stores, InvOf
  <1> QED BY <1>1, WrittenNone

LEMMA SavingFacts ==
  ASSUME TypeOK, NEW m \in Members
  PROVE  /\ Saving(Now, m) \in Seq(ToChar)
         /\ ~Has(Saving(Now, m), "load")
         /\ Has(Saving(Now, m), "store") => m \in using /\ stor.dirty
         /\ \A b : Written(Saving(Now, m), Stores, b)
                     = IF m \in using /\ stor.dirty THEN stor.items ELSE b
         /\ \A b : \A x \in Members :
              Written(Saving(Now, m), InvOf(x), b) = IF x = m THEN inv[m] ELSE b
  <1> DEFINE a == SaveInv(m, inv[m])
             s == SaveStore(stor.items)
             one == <<a>>
             two == <<s>>
  <1>1. inv[m] \in SUBSET Items /\ stor.items \in SUBSET Items
    BY Types DEF Storage
  <1>2. /\ a \in ToChar /\ s \in ToChar
        /\ a.kind = "inventory" /\ a.who = m /\ a.items = inv[m]
        /\ s.kind = "store" /\ s.items = stor.items
    BY <1>1, PacketsToChar DEF SaveInv, SaveStore
  <1>3. Saving(Now, m) = one \o IF m \in using /\ stor.dirty THEN two ELSE <<>>
    BY DEF Saving, Now
  <1> HIDE DEF a, s
  <1>4. /\ one \in Seq(ToChar) /\ two \in Seq(ToChar) /\ <<>> \in Seq(ToChar)
        /\ In(one) = {a} /\ In(two) = {s} /\ In(<<>>) = {}
        /\ one \o <<>> = one
    BY <1>2, InFew
  <1>5. \A P, b : /\ Written(one, P, b) = IF a \in P THEN a.items ELSE b
                  /\ Written(two, P, b) = IF s \in P THEN s.items ELSE b
    BY <1>2, WrittenOne
  <1>6. /\ a \notin Stores /\ s \in Stores
        /\ \A x \in Members : (a \in InvOf(x) <=> x = m) /\ s \notin InvOf(x)
    BY <1>2 DEF Stores, InvOf
  <1> HIDE DEF one, two
  <1>7. CASE m \in using /\ stor.dirty
    <2>1. Saving(Now, m) = one \o two
      BY <1>3, <1>7
    <2>2. one \o two \in Seq(ToChar)
      BY <1>4, ConcatProperties, Zenon
    <2>3. In(one \o two) = {a, s}
      BY <1>4, InConcat
    <2>4. \A P, b : Written(one \o two, P, b) = Written(two, P, Written(one, P, b))
      BY <1>4, WrittenConcat
    <2> QED BY <1>2, <1>5, <1>6, <1>7, <2>1, <2>2, <2>3, <2>4 DEF Has
  <1>8. CASE ~(m \in using /\ stor.dirty)
    <2>1. Saving(Now, m) = one
      BY <1>3, <1>4, <1>8
    <2> QED BY <1>2, <1>4, <1>5, <1>6, <1>8, <2>1 DEF Has
  <1> QED BY <1>7, <1>8

(* A save of a player in the game: with the storage, if the player has it. *)
LEMMA Flush ==
  ASSUME Settled, TypeOK', UNCHANGED <<sqlInv, sqlStore, roster, events>>,
         NEW m \in online, NEW r \in Seq(ToChar), \A p \in In(r) : p.kind = "retrieve",
         toChar' = toChar \o (Saving(Now, m) \o r)
  PROVE  /\ WrittenStore' = (IF m \in using THEN StoreNow ELSE WrittenStore)
         /\ WrittenBags' = (IF m \in using THEN CarriedNow ELSE WrittenBags)
         /\ \A x \in Members : WrittenInv(x)' = IF x = m THEN inv[m] ELSE WrittenInv(x)
         /\ WrittenStore' # WrittenStore => stor.dirty
         /\ Before(toChar', "store", "load")
         /\ Has(toChar', "load") => Has(toChar, "load")
         /\ Has(toChar', "store") => Has(toChar, "store") \/ stor.loaded
  <1> DEFINE ps == Saving(Now, m) \o r
  <1>1. TypeOK /\ m \in Members /\ toChar \in Seq(ToChar)
    BY OneUses, Types
  <1>2. Saving(Now, m) \in Seq(ToChar)
    BY <1>1, SavingFacts
  <1>3. ps \in Seq(ToChar)
    BY <1>2, ConcatProperties, Zenon
  <1>4. \A P, b : Written(ps, P, b) = Written(r, P, Written(Saving(Now, m), P, b))
    BY <1>2, WrittenConcat
  <1>5. In(ps) = In(Saving(Now, m)) \cup In(r)
    BY <1>2, InConcat
  <1>6. toChar' = toChar \o ps
    OBVIOUS
  <1> HIDE DEF ps
  <1>7. /\ WrittenStore' = Written(ps, Stores, WrittenStore)
        /\ \A x \in Members : WrittenInv(x)' = Written(ps, InvOf(x), WrittenInv(x))
    BY <1>1, <1>3, <1>6, Sends
  <1>8. \A b : /\ Written(r, Stores, b) = b
               /\ \A x \in Members : Written(r, InvOf(x), b) = b
    BY WrittenSilent
  <1>9. /\ \A b : Written(Saving(Now, m), Stores, b)
                    = IF m \in using /\ stor.dirty THEN stor.items ELSE b
        /\ \A b : \A x \in Members :
             Written(Saving(Now, m), InvOf(x), b) = IF x = m THEN inv[m] ELSE b
        /\ ~Has(Saving(Now, m), "load")
        /\ Has(Saving(Now, m), "store") => m \in using /\ stor.dirty
    BY <1>1, SavingFacts
  <1>10. WrittenStore' = IF m \in using /\ stor.dirty THEN stor.items ELSE WrittenStore
    BY <1>4, <1>7, <1>8, <1>9
  <1>11. \A x \in Members : WrittenInv(x)' = IF x = m THEN inv[m] ELSE WrittenInv(x)
    BY <1>4, <1>7, <1>8, <1>9
  <1>12. /\ \A x \in using : using = {x} /\ stor.status /\ stor.loaded
         /\ using \subseteq online /\ \A x \in online \ using : inv[x] = WrittenInv(x)
    BY OneUses DEF Settled, Books, InStep
  <1>13. /\ CarriedNow \in [Members -> SUBSET Items] /\ WrittenBags \in [Members -> SUBSET Items]
         /\ \A x \in Members : /\ WrittenBags[x] = WrittenInv(x)
                               /\ CarriedNow[x] = IF x \in using THEN inv[x] ELSE WrittenInv(x)
         /\ ~stor.status \/ ~stor.dirty => StoreNow = WrittenStore
    BY CarriedIs
  <1>14. WrittenStore' = IF m \in using THEN StoreNow ELSE WrittenStore
    BY <1>10, <1>12, <1>13 DEF StoreNow
  <1>15. WrittenBags' = [x \in Members |-> WrittenInv(x)']
    BY DEF WrittenBags
  <1>16. WrittenBags' = IF m \in using THEN CarriedNow ELSE WrittenBags
    <2>1. CASE m \in using
      <3>1. \A x \in Members : WrittenInv(x)' = CarriedNow[x]
        BY <1>11, <1>12, <1>13, <2>1
      <3>2. CarriedNow = [x \in Members |-> CarriedNow[x]]
        BY <1>13
      <3> HIDE DEF CarriedNow
      <3> QED BY <1>15, <2>1, <3>1, <3>2
    <2>2. CASE m \notin using
      <3>1. \A x \in Members : WrittenInv(x)' = WrittenInv(x)
        BY <1>11, <1>12, <2>2
      <3> QED BY <1>15, <2>2, <3>1 DEF WrittenBags
    <2> QED BY <2>1, <2>2
  <1>17. ~Has(ps, "load") /\ (Has(ps, "store") => stor.loaded)
    <2>1. Has(ps, "store") => Has(Saving(Now, m), "store")
      BY <1>5 DEF Has
    <2> QED BY <1>5, <1>9, <1>12, <2>1 DEF Has
  <1>18. Before(toChar', "store", "load")
    BY <1>1, <1>3, <1>6, <1>17, BeforeConcat DEF Settled, Books, Orderly
  <1>19. In(toChar') = In(toChar) \cup In(ps)
    BY <1>1, <1>3, <1>6, InConcat
  <1> QED BY <1>10, <1>11, <1>14, <1>16, <1>17, <1>18, <1>19 DEF Has

(* A step that forgets no change leaves what is under way in order. *)
LEMMA Onward ==
  ASSUME Settled, TypeOK', UNCHANGED <<sqlStore, sqlLevel>>,
         toMap' = toMap \/ (toMap # <<>> /\ toMap' = Tail(toMap)),
         Before(toChar', "store", "load"),
         Has(toChar', "load") => Has(toChar, "load"),
         Has(toChar', "store") => Has(toChar, "store") \/ stor.loaded,
         stor.loaded => stor'.loaded, stor.dirty => stor'.dirty,
         WrittenStore' # WrittenStore => stor'.dirty
  PROVE  Orderly' /\ UpToDate'
  <1>1. toMap \in Seq(ToMap)
    BY Types DEF Settled, IInv
  <1>2. In(toMap') \subseteq In(toMap) /\ Before(toMap', "saved", "loaded")
    BY <1>1, InTail, BeforeTail DEF Settled, Books, Orderly
  <1>3. Orderly'
    BY <1>2 DEF Settled, Books, Orderly, Has
  <1>4. UpToDate'
    BY <1>2 DEF Settled, Books, UpToDate
  <1> QED BY <1>3, <1>4

(* The user saves and leaves the storage, in the game or leaving it. *)
LEMMA Departure ==
  ASSUME Settled, TypeOK', Standing', NEW m \in using,
         UNCHANGED <<sqlInv, sqlStore, roster, sqlLevel, events>>,
         NEW r \in Seq(ToChar), \A p \in In(r) : p.kind = "retrieve",
         toChar' = toChar \o (Saving(Now, m) \o r),
         toMap' = toMap \/ (toMap # <<>> /\ toMap' = Tail(toMap)),
         using' = {}, stor'.items = stor.items, stor'.loaded = stor.loaded,
         stor'.dirty = stor.dirty, stor'.status = FALSE,
         online' \subseteq online, online \ {m} \subseteq online',
         \A x \in online' : inv'[x] = inv[x]
  PROVE  Books' /\ Departs(m)
  <1>1. TypeOK /\ using \subseteq online /\ m \in online /\ m \in Members /\ stor.loaded
        /\ using = {m}
    BY OneUses, Types
  <1>2. /\ WrittenStore' = StoreNow /\ WrittenBags' = CarriedNow
        /\ \A x \in Members : WrittenInv(x)' = IF x = m THEN inv[m] ELSE WrittenInv(x)
        /\ WrittenStore' # WrittenStore => stor.dirty
        /\ Before(toChar', "store", "load")
        /\ Has(toChar', "load") => Has(toChar, "load")
        /\ Has(toChar', "store") => Has(toChar, "store") \/ stor.loaded
    BY <1>1, Flush
  <1>3. StoreNow = stor.items /\ StoreNow' = stor.items
    BY <1>1 DEF StoreNow
  <1>4. \A x \in Members : CarriedNow[x] = IF x \in using THEN inv[x] ELSE WrittenInv(x)
    BY CarriedIs
  <1>5. CarriedNow = [x \in Members |-> CarriedNow[x]]
    BY DEF CarriedNow
  <1>6. \A x \in online \ using : inv[x] = WrittenInv(x)
    BY DEF Settled, Books, InStep
  <1>7. CarriedNow' = [x \in Members |-> IF x \in online' THEN inv'[x] ELSE WrittenInv(x)']
    BY DEF CarriedNow
  <1>8. ASSUME NEW x \in Members
        PROVE  (IF x \in online' THEN inv'[x] ELSE WrittenInv(x)') = CarriedNow[x]
    BY <1>1, <1>2, <1>4, <1>6
  <1>9. CarriedNow' = CarriedNow
    <2> HIDE DEF CarriedNow
    <2> QED BY <1>5, <1>7, <1>8
  <1>10. InStep'
    <2>1. online' \subseteq Members
      BY Types DEF TypeOK
    <2>2. \A x \in online' : inv'[x] = WrittenInv(x)'
      BY <1>1, <1>2, <1>6, <2>1
    <2> QED BY <1>2, <1>3, <2>2 DEF InStep
  <1>11. Orderly' /\ UpToDate'
    <2>1. stor.loaded => stor'.loaded
      OBVIOUS
    <2>2. stor.dirty => stor'.dirty
      OBVIOUS
    <2>3. WrittenStore' # WrittenStore => stor'.dirty
      BY <1>2
    <2>4. UNCHANGED <<sqlStore, sqlLevel>>
      OBVIOUS
    <2> QED BY <1>2, <2>1, <2>2, <2>3, <2>4, Onward
  <1> QED BY <1>1, <1>2, <1>3, <1>9, <1>10, <1>11 DEF Books, Departs

(* A step that changes neither what is in the storage and who uses it nor  *)
(* what will be written.                                                   *)
LEMMA Still ==
  ASSUME Settled, TypeOK', Standing', Orderly', UpToDate',
         using' = using, stor'.items = stor.items, stor'.loaded = stor.loaded,
         stor'.dirty = stor.dirty, stor'.status = stor.status,
         WrittenStore' = WrittenStore, \A x \in Members : WrittenInv(x)' = WrittenInv(x),
         using \subseteq online',
         \A x \in online' : inv'[x] = IF x \in online THEN inv[x] ELSE WrittenInv(x)
  PROVE  Books' /\ Same
  <1>1. using \subseteq online /\ online \subseteq Members /\ online' \subseteq Members
    BY OneUses, Types DEF TypeOK
  <1>2. /\ \A x \in online \ using : inv[x] = WrittenInv(x)
        /\ stor.loaded /\ (~stor.dirty \/ ~stor.status)
             => stor.items = WrittenStore /\ \A x \in using : inv[x] = WrittenInv(x)
    BY DEF Settled, Books, InStep
  <1>3. InStep'
    BY <1>1, <1>2 DEF InStep
  <1>4. StoreNow' = StoreNow
    BY DEF StoreNow
  <1>5. \A x \in Members : WrittenBags'[x] = WrittenBags[x]
    BY DEF WrittenBags
  <1>6. WrittenBags' = [x \in Members |-> WrittenInv(x)']
    BY DEF WrittenBags
  <1>7. WrittenBags' = WrittenBags
    BY <1>6 DEF WrittenBags
  <1>8. ASSUME NEW x \in Members
        PROVE  (IF x \in online' THEN inv'[x] ELSE WrittenInv(x)')
                 = (IF x \in online THEN inv[x] ELSE WrittenInv(x))
    BY <1>1, <1>2
  <1>9. CarriedNow' = [x \in Members |-> IF x \in online' THEN inv'[x] ELSE WrittenInv(x)']
    BY DEF CarriedNow
  <1>10. CarriedNow' = CarriedNow
    BY <1>8, <1>9 DEF CarriedNow
  <1> QED BY <1>3, <1>4, <1>7, <1>10 DEF Books, Same

(* Nothing is sent. *)
LEMMA Unwritten ==
  ASSUME Settled, TypeOK', UNCHANGED <<sqlInv, sqlStore, roster, toChar, events>>
  PROVE  WrittenStore' = WrittenStore /\ \A x \in Members : WrittenInv(x)' = WrittenInv(x)
  <1>1. Writing /\ Writing'
    BY CalmWriting, CalmWritingNext DEF Settled, IInv, Calm
  <1> QED BY <1>1 DEF Writing

LEMMA LoginBooks ==
  ASSUME Settled, TypeOK', NEW m \in Members, Login(m)
  PROVE  Books' /\ Effect
  <1>1. UNCHANGED <<stor, using, charVars, toChar, toMap, up, events>> /\ m \notin online
    BY DEF Login
  <1>2. WrittenStore' = WrittenStore /\ \A x \in Members : WrittenInv(x)' = WrittenInv(x)
    BY <1>1, Unwritten DEF charVars
  <1>3. Standing'
    BY <1>1 DEF Settled, Books, Standing, Login, charVars
  <1>4. Orderly' /\ UpToDate'
    BY <1>1, <1>2 DEF Settled, Books, Orderly, UpToDate, Has, charVars
  <1>5. using \subseteq online' /\ online' = online \cup {m} /\ online' \subseteq Members
    BY OneUses DEF Login, TypeOK
  <1>6. \A x \in online' : inv'[x] = IF x \in online THEN inv[x] ELSE WrittenInv(x)
    <2>1. inv \in [Members -> SUBSET Items]
      BY Types DEF Settled, IInv
    <2> QED BY <1>5, <2>1 DEF Login
  <1>7. Books' /\ Same
    BY <1>1, <1>2, <1>3, <1>4, <1>5, <1>6, Still
  <1> QED BY <1>7 DEF Effect

LEMMA QuitBooks ==
  ASSUME Settled, TypeOK', NEW m \in Members, Quit(m)
  PROVE  Books' /\ Effect
  <1>1. /\ UNCHANGED <<member, known, level, charVars, toMap, up, events>> /\ up
        /\ m \in online /\ online' = online \ {m} /\ gid' = gid \ {m}
        /\ inv' = [inv EXCEPT ![m] = {}]
    BY DEF Quit, Settled, Books, Standing
  <1>2. /\ TypeOK /\ using \subseteq online /\ online \subseteq Members /\ inv \in [Members -> SUBSET Items]
        /\ stor \in Storage
        /\ \A x \in using : using = {x} /\ stor.status /\ stor.loaded
    BY OneUses, Types
  <1>3. Saving(Now, m) \in Seq(ToChar)
    BY <1>2, SavingFacts
  <1> DEFINE r == <<>>
  <1>4. r \in Seq(ToChar) /\ In(r) = {} /\ Saving(Now, m) \o r = Saving(Now, m)
    BY <1>3, ConcatEmptySeq DEF In
  <1> HIDE DEF r
  <1>5. \A x \in online' : inv'[x] = inv[x]
    BY <1>1, <1>2
  <1>6. UNCHANGED <<sqlInv, sqlStore, roster, sqlLevel, events>>
    BY <1>1 DEF charVars
  <1>7. CASE m \in using
    <2>1. /\ stor' = [stor EXCEPT !.status = FALSE] /\ using' = using \ {m}
          /\ toChar' = toChar \o Saving(Now, m)
      BY <1>1, <1>2, <1>7 DEF Quit, Keep, Send
    <2>2. /\ stor'.items = stor.items /\ stor'.loaded = stor.loaded /\ stor'.max = stor.max
          /\ stor'.dirty = stor.dirty /\ stor'.status = FALSE /\ using' = {}
      BY <1>2, <1>7, <2>1 DEF Storage
    <2>3. Standing'
      BY <1>1, <2>2 DEF Settled, Books, Standing, charVars
    <2>4. toChar' = toChar \o (Saving(Now, m) \o r)
      BY <1>4, <2>1
    <2>5. online' \subseteq online /\ online \ {m} \subseteq online'
      BY <1>1
    <2>6. \A p \in In(r) : p.kind = "retrieve"
      BY <1>4
    <2>7. toMap' = toMap
      BY <1>1
    <2>8. Books' /\ Departs(m)
      BY <1>4, <1>5, <1>6, <1>7, <2>2, <2>3, <2>4, <2>5, <2>6, <2>7, Departure
    <2> QED BY <2>8 DEF Effect
  <1>8. CASE m \notin using
    <2>1. stor' = stor /\ using' = using /\ toChar' = toChar \o <<SaveInv(m, inv[m])>>
      BY <1>1, <1>8 DEF Quit, Keep, Send, Now
    <2>2. Saving(Now, m) = <<SaveInv(m, inv[m])>>
      <3>1. SaveInv(m, inv[m]) \in ToChar
        BY <1>2, PacketsToChar
      <3>2. <<SaveInv(m, inv[m])>> \o <<>> = <<SaveInv(m, inv[m])>>
        BY <3>1, InFew
      <3> QED BY <1>8, <3>2 DEF Saving, Now
    <2>3. toChar' = toChar \o (Saving(Now, m) \o r)
      BY <1>4, <2>1, <2>2
    <2>4. \A p \in In(r) : p.kind = "retrieve"
      BY <1>4
    <2>5. /\ WrittenStore' = (IF m \in using THEN StoreNow ELSE WrittenStore)
          /\ \A x \in Members : WrittenInv(x)' = IF x = m THEN inv[m] ELSE WrittenInv(x)
          /\ WrittenStore' # WrittenStore => stor.dirty
          /\ Before(toChar', "store", "load")
          /\ Has(toChar', "load") => Has(toChar, "load")
          /\ Has(toChar', "store") => Has(toChar, "store") \/ stor.loaded
      BY <1>1, <1>4, <1>6, <2>3, <2>4, Flush
    <2>6. WrittenInv(m) = inv[m]
      BY <1>1, <1>8 DEF Settled, Books, InStep
    <2>7. WrittenStore' = WrittenStore /\ \A x \in Members : WrittenInv(x)' = WrittenInv(x)
      BY <1>8, <2>5, <2>6
    <2>8. Standing'
      BY <1>1, <2>1 DEF Settled, Books, Standing, charVars
    <2>9. Orderly' /\ UpToDate'
      BY <1>1, <1>6, <2>1, <2>5, <2>7, Onward
    <2>10. using \subseteq online' /\ \A x \in online' : inv'[x] = IF x \in online THEN inv[x] ELSE WrittenInv(x)
      BY <1>1, <1>2, <1>5, <1>8
    <2>11. Books' /\ Same
      BY <2>1, <2>7, <2>8, <2>9, <2>10, Still
    <2> QED BY <2>11 DEF Effect
  <1> QED BY <1>7, <1>8

LEMMA NothingMore ==
  ASSUME NEW q \in Seq(ToChar)
  PROVE  <<>> \in Seq(ToChar) /\ In(<<>>) = {} /\ q \o <<>> = q
  BY ConcatEmptySeq DEF In

LEMMA AutosaveBooks ==
  ASSUME Settled, TypeOK', NEW m \in Members, Autosave(m)
  PROVE  Books' /\ Effect
  <1>1. /\ UNCHANGED <<mapVars, charVars, toMap, up, events>> /\ m \in online /\ up
        /\ toChar' = toChar \o Saving(Now, m)
    BY DEF Autosave, Send, Settled, Books, Standing
  <1>2. /\ UNCHANGED <<stor, using, inv, online, gid, member, known, level>>
        /\ UNCHANGED <<sqlInv, sqlStore, roster, sqlLevel>>
    BY <1>1 DEF mapVars, charVars
  <1>3. /\ TypeOK /\ online \subseteq Members /\ using \subseteq online
        /\ \A x \in using : using = {x} /\ stor.loaded
    BY OneUses, Types
  <1> DEFINE r == <<>>
  <1>4. /\ r \in Seq(ToChar) /\ (\A p \in In(r) : p.kind = "retrieve")
        /\ toChar' = toChar \o (Saving(Now, m) \o r)
    <2>1. Saving(Now, m) \in Seq(ToChar)
      BY <1>3, SavingFacts
    <2> QED BY <1>1, <2>1, NothingMore
  <1> HIDE DEF r
  <1>5. /\ WrittenStore' = (IF m \in using THEN StoreNow ELSE WrittenStore)
        /\ WrittenBags' = (IF m \in using THEN CarriedNow ELSE WrittenBags)
        /\ \A x \in Members : WrittenInv(x)' = IF x = m THEN inv[m] ELSE WrittenInv(x)
        /\ WrittenStore' # WrittenStore => stor.dirty
        /\ Before(toChar', "store", "load")
        /\ Has(toChar', "load") => Has(toChar, "load")
        /\ Has(toChar', "store") => Has(toChar, "store") \/ stor.loaded
    BY <1>1, <1>2, <1>4, Flush
  <1>6. Standing'
    BY <1>1, <1>2 DEF Settled, Books, Standing
  <1>7. Orderly' /\ UpToDate'
    BY <1>1, <1>2, <1>5, Onward
  <1>8. CASE m \in using
    <2>1. StoreNow' = StoreNow /\ StoreNow = stor.items
      BY <1>2, <1>3, <1>8 DEF StoreNow
    <2>2. CarriedNow' = CarriedNow
      BY <1>1, <1>2, <1>5 DEF CarriedNow
    <2>3. InStep'
      BY <1>2, <1>3, <1>5, <1>8, <2>1 DEF Settled, Books, InStep
    <2> QED BY <1>2, <1>5, <1>6, <1>7, <1>8, <2>1, <2>2, <2>3 DEF Books, Effect, Saves
  <1>9. CASE m \notin using
    <2>1. WrittenInv(m) = inv[m]
      BY <1>1, <1>9 DEF Settled, Books, InStep
    <2>2. WrittenStore' = WrittenStore /\ \A x \in Members : WrittenInv(x)' = WrittenInv(x)
      BY <1>5, <1>9, <2>1
    <2>3. Books' /\ Same
      BY <1>2, <1>3, <1>6, <1>7, <2>2, Still
    <2> QED BY <2>3 DEF Effect
  <1> QED BY <1>8, <1>9

LEMMA OpenBooks ==
  ASSUME Settled, TypeOK', NEW m \in Members, Open(m)
  PROVE  Books' /\ Effect
  <1>1. /\ UNCHANGED <<inv, online, gid, member, known, level, charVars, toMap, up, events>>
        /\ m \in gid \ using /\ up /\ Keep(OpenNow(stor, m))
    BY DEF Open, Settled, Books, Standing
  <1>2. UNCHANGED <<sqlInv, sqlStore, roster, sqlLevel>>
    BY <1>1 DEF charVars
  <1>3. /\ TypeOK /\ using \subseteq online /\ online \subseteq Members /\ gid \subseteq online
        /\ toChar \in Seq(ToChar) /\ stor \in Storage /\ known
        /\ \A x \in using : using = {x} /\ stor.status /\ stor.loaded
    BY <1>1, OneUses, Types DEF Settled, Books, Standing
  <1>4. CASE Allowed(m) /\ Current(stor) /\ ~stor.status /\ ~stor.lock
    <2>1. stor' = [stor EXCEPT !.status = TRUE] /\ using' = using \cup {m} /\ toChar' = toChar
      BY <1>1, <1>3, <1>4, NothingMore DEF Keep, OpenNow, Send
    <2>2. /\ stor'.items = stor.items /\ stor'.loaded = stor.loaded /\ stor'.max = stor.max
          /\ stor'.dirty = stor.dirty /\ stor'.status = TRUE /\ using = {} /\ using' = {m}
      BY <1>3, <1>4, <2>1 DEF Storage
    <2>3. WrittenStore' = WrittenStore /\ \A x \in Members : WrittenInv(x)' = WrittenInv(x)
      BY <1>1, <1>2, <2>1, Unwritten
    <2>4. Standing'
      BY <1>1, <1>2, <2>2 DEF Settled, Books, Standing
    <2>5. Orderly' /\ UpToDate'
      BY <1>1, <1>2, <2>1, <2>2, <2>3 DEF Settled, Books, Orderly, UpToDate
    <2>6. InStep'
      <3>1. \A x \in online : inv[x] = WrittenInv(x)
        BY <2>2 DEF Settled, Books, InStep
      <3>2. stor.loaded => stor.items = WrittenStore
        BY <1>4 DEF Settled, Books, InStep
      <3> QED BY <1>1, <1>3, <2>2, <2>3, <3>1, <3>2 DEF InStep
    <2>7. UNCHANGED <<StoreNow, CarriedNow, WrittenBags>>
      BY <1>1, <2>2, <2>3 DEF StoreNow, CarriedNow, WrittenBags
    <2> QED BY <2>2, <2>3, <2>4, <2>5, <2>6, <2>7 DEF Books, Effect, Enters
  <1>5. CASE ~(Allowed(m) /\ Current(stor) /\ ~stor.status /\ ~stor.lock)
    <2>1. /\ stor' = stor /\ using' = using
          /\ toChar' = toChar \o IF Allowed(m) /\ ~Current(stor) THEN <<Load(m)>> ELSE <<>>
      BY <1>1, <1>5 DEF Keep, OpenNow, Send
    <2>2. Standing'
      BY <1>1, <1>2, <2>1 DEF Settled, Books, Standing
    <2>3. \A x \in online' : inv'[x] = IF x \in online THEN inv[x] ELSE WrittenInv(x)
      BY <1>1
    <2>4. CASE ~(Allowed(m) /\ ~Current(stor))
      <3>1. toChar' = toChar
        BY <1>3, <2>1, <2>4, NothingMore
      <3>2. WrittenStore' = WrittenStore /\ \A x \in Members : WrittenInv(x)' = WrittenInv(x)
        BY <1>1, <1>2, <3>1, Unwritten
      <3>3. Orderly' /\ UpToDate'
        BY <1>1, <1>2, <2>1, <3>1, <3>2 DEF Settled, Books, Orderly, UpToDate
      <3>4. Books' /\ Same
        BY <1>1, <1>3, <2>1, <2>2, <2>3, <3>2, <3>3, Still
      <3> QED BY <3>4 DEF Effect
    <2>5. CASE Allowed(m) /\ ~Current(stor)
      <3> DEFINE ps == <<Load(m)>>
      <3>1. /\ ps \in Seq(ToChar) /\ In(ps) = {Load(m)} /\ Load(m).kind = "load"
            /\ toChar' = toChar \o ps
        <4>1. Load(m) \in ToChar /\ Load(m).kind = "load"
          BY PacketsToChar DEF Load
        <4> QED BY <2>1, <2>5, <4>1, InFew
      <3> HIDE DEF ps
      <3>2. ~stor.loaded
        BY <1>3, <2>5 DEF Settled, Books, Standing, Current
      <3>3. ~Has(toChar, "store") /\ ~Has(toMap, "saved") /\ ~stor.dirty
        BY <3>2 DEF Settled, Books, Standing, Orderly
      <3>4. /\ WrittenStore' = Written(ps, Stores, WrittenStore)
            /\ \A x \in Members : WrittenInv(x)' = Written(ps, InvOf(x), WrittenInv(x))
        BY <1>1, <1>2, <3>1, Sends
      <3>5. \A b : Written(ps, Stores, b) = b /\ \A x \in Members : Written(ps, InvOf(x), b) = b
        BY <3>1, WrittenSilent
      <3>6. WrittenStore' = WrittenStore /\ \A x \in Members : WrittenInv(x)' = WrittenInv(x)
        BY <3>4, <3>5
      <3>7. WrittenStore = sqlStore
        <4>1. In(toChar) \cap Stores = {}
          BY <3>3 DEF Has, Stores
        <4>2. Written(toChar, Stores, sqlStore) = sqlStore
          BY <4>1, WrittenNone
        <4>3. Writing
          BY CalmWriting DEF Settled, IInv, Calm
        <4> QED BY <4>2, <4>3 DEF Writing
      <3>8. In(toChar') = In(toChar) \cup {Load(m)}
        BY <1>3, <3>1, InConcat
      <3>9. Before(toChar', "store", "load")
        <4>1. ~Has(ps, "store")
          BY <3>1 DEF Has
        <4> QED BY <1>3, <3>1, <3>3, <4>1, BeforeConcat DEF Settled, Books, Orderly
      <3>10. Orderly'
        <4>1. ~Has(toChar', "store") /\ ~Has(toMap', "saved") /\ Before(toMap', "saved", "loaded")
          BY <1>1, <3>1, <3>3, <3>8 DEF Has, Settled, Books, Orderly
        <4> QED BY <3>9, <4>1 DEF Orderly
      <3>11. UpToDate'
        BY <1>1, <1>2, <2>1, <3>6, <3>7 DEF Settled, Books, UpToDate
      <3>12. Books' /\ Same
        BY <1>1, <1>3, <2>1, <2>2, <2>3, <3>6, <3>10, <3>11, Still
      <3> QED BY <3>12 DEF Effect
    <2> QED BY <2>4, <2>5
  <1> QED BY <1>4, <1>5

LEMMA CloseBooks ==
  ASSUME Settled, TypeOK', NEW m \in Members, CloseStorage(m)
  PROVE  Books' /\ Effect
  <1>1. /\ UNCHANGED <<inv, online, gid, member, known, level, charVars, toMap, up, events>>
        /\ m \in using /\ up /\ Keep(Close(Now, m))
    BY DEF CloseStorage, Settled, Books, Standing
  <1>2. UNCHANGED <<sqlInv, sqlStore, roster, sqlLevel, events>>
    BY <1>1 DEF charVars
  <1>3. /\ TypeOK /\ stor \in Storage /\ using = {m} /\ stor.status /\ stor.loaded
    BY <1>1, OneUses, Types
  <1> DEFINE r == <<>>
  <1>4. Saving(Now, m) \in Seq(ToChar)
    BY <1>3, SavingFacts
  <1>5. /\ r \in Seq(ToChar) /\ (\A p \in In(r) : p.kind = "retrieve")
        /\ Saving(Now, m) \o r = Saving(Now, m)
    BY <1>4, NothingMore
  <1>6. /\ stor' = [stor EXCEPT !.status = FALSE] /\ using' = using \ {m}
        /\ toChar' = toChar \o (<<>> \o Saving(Now, m))
    BY <1>1, <1>3 DEF Keep, Close, Now, Send
  <1>7. <<>> \o Saving(Now, m) = Saving(Now, m)
    BY <1>4, ConcatEmptySeq
  <1>8. toChar' = toChar \o (Saving(Now, m) \o r)
    BY <1>5, <1>6, <1>7
  <1> HIDE DEF r
  <1>9. /\ stor'.items = stor.items /\ stor'.loaded = stor.loaded /\ stor'.max = stor.max
        /\ stor'.dirty = stor.dirty /\ stor'.status = FALSE /\ using' = {}
    BY <1>3, <1>6 DEF Storage
  <1>10. Standing'
    BY <1>1, <1>2, <1>9 DEF Settled, Books, Standing
  <1>11. online' \subseteq online /\ online \ {m} \subseteq online' /\ \A x \in online' : inv'[x] = inv[x]
    BY <1>1
  <1>12. toMap' = toMap
    BY <1>1
  <1>13. Books' /\ Departs(m)
    BY <1>1, <1>2, <1>5, <1>8, <1>9, <1>10, <1>11, <1>12, Departure
  <1> QED BY <1>13 DEF Effect

(* The user moves an item. *)
LEMMA MoveBooks ==
  ASSUME Settled, TypeOK', NEW m \in using, NEW i \in Items,
         \/ /\ i \in inv[m]
            /\ stor' = [stor EXCEPT !.items = @ \cup {i}, !.dirty = TRUE]
            /\ inv' = [inv EXCEPT ![m] = @ \ {i}]
         \/ /\ i \in stor.items
            /\ stor' = [stor EXCEPT !.items = @ \ {i}, !.dirty = TRUE]
            /\ inv' = [inv EXCEPT ![m] = @ \cup {i}],
         UNCHANGED <<using, toChar, online, gid, member, known, level,
                     charVars, toMap, up, events>>
  PROVE  Books' /\ Effect
  <1>1. /\ TypeOK /\ stor \in Storage /\ using = {m} /\ stor.status /\ stor.loaded
        /\ m \in Members /\ m \in online /\ inv \in [Members -> SUBSET Items]
    BY OneUses, Types
  <1>2. UNCHANGED <<sqlInv, sqlStore, roster, sqlLevel>>
    BY DEF charVars
  <1>3. WrittenStore' = WrittenStore /\ \A x \in Members : WrittenInv(x)' = WrittenInv(x)
    BY <1>2, Unwritten
  <1>4. /\ stor'.loaded = stor.loaded /\ stor'.max = stor.max
        /\ stor'.dirty = TRUE /\ stor'.status = TRUE
        /\ \A x \in Members \ {m} : inv'[x] = inv[x]
    BY <1>1 DEF Storage
  <1>5. /\ CarriedNow \in [Members -> SUBSET Items]
        /\ \A x \in Members : CarriedNow[x] = IF x \in using THEN inv[x] ELSE WrittenInv(x)
    BY CarriedIs
  <1>6. Standing'
    BY <1>1, <1>2, <1>4 DEF Settled, Books, Standing
  <1>7. InStep'
    <2>1. \A x \in online \ using : inv'[x] = WrittenInv(x)'
      <3>1. \A x \in online \ using : x \in Members \ {m} /\ inv[x] = WrittenInv(x)
        BY <1>1, Types DEF Settled, Books, InStep
      <3> QED BY <1>3, <1>4, <3>1
    <2> QED BY <1>4, <2>1 DEF InStep
  <1>8. Orderly' /\ UpToDate'
    BY <1>2, <1>3, <1>4 DEF Settled, Books, Orderly, UpToDate
  <1>9. WrittenBags' = WrittenBags
    BY <1>3 DEF WrittenBags
  <1>10. /\ StoreNow = stor.items /\ StoreNow' = stor'.items
         /\ CarriedNow[m] = inv[m]
    BY <1>1, <1>4, <1>5 DEF StoreNow
  <1>11. CarriedNow' = [x \in Members |-> IF x \in online THEN inv'[x] ELSE WrittenInv(x)]
    BY <1>3 DEF CarriedNow
  <1>12. CarriedNow' = [CarriedNow EXCEPT ![m] = inv'[m]]
    <2>1. \A x \in Members \ {m} : (IF x \in online THEN inv'[x] ELSE WrittenInv(x)) = CarriedNow[x]
      BY <1>4 DEF CarriedNow
    <2>2. [CarriedNow EXCEPT ![m] = inv'[m]]
            = [x \in Members |-> IF x = m THEN inv'[m] ELSE CarriedNow[x]]
      <3> HIDE DEF CarriedNow
      <3> QED BY <1>5
    <2>3. \A x \in Members : (IF x \in online THEN inv'[x] ELSE WrittenInv(x))
                               = IF x = m THEN inv'[m] ELSE CarriedNow[x]
      BY <1>1, <2>1
    <2> QED BY <1>11, <2>2, <2>3
  <1>13. CASE /\ i \in inv[m]
              /\ stor' = [stor EXCEPT !.items = @ \cup {i}, !.dirty = TRUE]
              /\ inv' = [inv EXCEPT ![m] = @ \ {i}]
    <2>1. stor'.items = stor.items \cup {i} /\ inv'[m] = inv[m] \ {i}
      BY <1>1, <1>13 DEF Storage
    <2>2. Moves(m, i)
      BY <1>1, <1>3, <1>9, <1>10, <1>12, <1>13, <2>1 DEF Moves
    <2> QED BY <1>1, <1>6, <1>7, <1>8, <2>2 DEF Books, Effect
  <1>14. CASE /\ i \in stor.items
              /\ stor' = [stor EXCEPT !.items = @ \ {i}, !.dirty = TRUE]
              /\ inv' = [inv EXCEPT ![m] = @ \cup {i}]
    <2>1. stor'.items = stor.items \ {i} /\ inv'[m] = inv[m] \cup {i}
      BY <1>1, <1>14 DEF Storage
    <2>2. Moves(m, i)
      BY <1>1, <1>3, <1>9, <1>10, <1>12, <1>14, <2>1 DEF Moves
    <2> QED BY <1>1, <1>6, <1>7, <1>8, <2>2 DEF Books, Effect
  <1> QED BY <1>13, <1>14

LEMMA ItemBooks ==
  ASSUME Settled, TypeOK', NEW m \in Members, NEW i \in Items, NEW cart \in BOOLEAN,
         Deposit(m, i, cart) \/ Take(m, i, cart)
  PROVE  Books' /\ Effect
  <1>1. \A x \in using : ~stor.lock
    BY OneUses
  <1>2. CASE Deposit(m, i, cart)
    <2>1. m \in using /\ ~stor.lock
      BY <1>1, <1>2 DEF Deposit
    <2>2. /\ i \in inv[m]
          /\ stor' = [stor EXCEPT !.items = @ \cup {i}, !.dirty = TRUE]
          /\ inv' = [inv EXCEPT ![m] = @ \ {i}]
          /\ UNCHANGED <<using, toChar, online, gid, member, known, level,
                         charVars, toMap, up, events>>
      BY <1>2, <2>1 DEF Deposit
    <2> QED BY <2>1, <2>2, MoveBooks
  <1>3. CASE Take(m, i, cart)
    <2>1. m \in using /\ ~stor.lock
      BY <1>1, <1>3 DEF Take
    <2>2. /\ i \in stor.items
          /\ stor' = [stor EXCEPT !.items = @ \ {i}, !.dirty = TRUE]
          /\ inv' = [inv EXCEPT ![m] = @ \cup {i}]
          /\ UNCHANGED <<using, toChar, online, gid, member, known, level,
                         charVars, toMap, up, events>>
      BY <1>3, <2>1 DEF Take
    <2> QED BY <2>1, <2>2, MoveBooks
  <1> QED BY <1>2, <1>3

(* An answer that neither carries a storage nor says one was saved. *)
LEMMA Answered ==
  ASSUME Settled, TypeOK', NEW p \in ToMap, p.kind \in {"withdraw", "unlock"},
         toMap' = toMap \o <<p>>, sqlLevel' = sqlLevel, sqlStore' = sqlStore,
         stor' = stor, WrittenStore' = WrittenStore,
         toChar' = toChar \/ (toChar # <<>> /\ toChar' = Tail(toChar))
  PROVE  Orderly' /\ UpToDate'
  <1> DEFINE ps == <<p>>
  <1>1. toMap \in Seq(ToMap) /\ toChar \in Seq(ToChar)
    BY Types DEF Settled, IInv
  <1>2. ps \in Seq(ToMap) /\ In(ps) = {p} /\ toMap' = toMap \o ps
    BY InFew
  <1> HIDE DEF ps
  <1>3. In(toMap') = In(toMap) \cup {p}
    BY <1>1, <1>2, InConcat
  <1>4. ~Has(ps, "loaded") /\ ~Has(ps, "saved")
    BY <1>2 DEF Has
  <1>5. Before(toMap', "saved", "loaded")
    BY <1>1, <1>2, <1>4, BeforeConcat DEF Settled, Books, Orderly
  <1>6. In(toChar') \subseteq In(toChar) /\ Before(toChar', "store", "load")
    BY <1>1, InTail, BeforeTail DEF Settled, Books, Orderly
  <1>7. Has(toMap', "saved") => Has(toMap, "saved")
    BY <1>3 DEF Has
  <1>8. \A k : Has(toChar', k) => Has(toChar, k)
    BY <1>6 DEF Has
  <1>9. Orderly'
    BY <1>5, <1>6, <1>7, <1>8 DEF Settled, Books, Orderly
  <1>10. UpToDate'
    BY <1>3, <1>8 DEF Settled, Books, UpToDate
  <1> QED BY <1>9, <1>10

LEMMA LeaveBooks ==
  ASSUME Settled, TypeOK', NEW m \in Members, Leave(m)
  PROVE  Books' /\ Effect
  <1>1. /\ UNCHANGED <<mapVars, sqlInv, sqlLevel, toChar, up, events>>
        /\ roster' # {} /\ roster # {} /\ sqlStore' = sqlStore /\ up
        /\ toMap' = toMap \o (<<Withdraw(m)>> \o <<>>)
    <2>1. roster # {m} /\ m \in roster /\ roster' = roster \ {m}
      BY DEF Leave, Settled, Calm
    <2>2. roster' # {}
      BY <2>1
    <2> QED BY <2>1, <2>2 DEF Leave, Answer, Settled, Books, Standing
  <1>2. UNCHANGED <<stor, using, inv, online, gid, member, known, level>>
    BY <1>1 DEF mapVars
  <1>3. Withdraw(m) \in ToMap /\ Withdraw(m).kind = "withdraw"
    BY DEF Withdraw, ToMap
  <1>4. toMap' = toMap \o <<Withdraw(m)>>
    <2>1. <<Withdraw(m)>> \o <<>> = <<Withdraw(m)>>
      BY <1>3, InFew
    <2> QED BY <1>1, <2>1
  <1>5. Writing /\ Writing'
    BY <1>1, CalmWriting, CalmWritingNext DEF Settled, IInv, Calm
  <1>6. WrittenStore' = WrittenStore /\ \A x \in Members : WrittenInv(x)' = WrittenInv(x)
    BY <1>1, <1>5 DEF Writing
  <1>7. Orderly' /\ UpToDate'
    BY <1>1, <1>2, <1>3, <1>4, <1>6, Answered
  <1>8. Standing'
    BY <1>1, <1>2 DEF Settled, Books, Standing
  <1>9. using \subseteq online
    BY OneUses
  <1>10. Books' /\ Same
    BY <1>2, <1>6, <1>7, <1>8, <1>9, Still
  <1> QED BY <1>10 DEF Effect

-----------------------------------------------------------------------------
(* The first packet for the map-server. *)
LEMMA FirstPacket ==
  ASSUME Settled, Next0
  PROVE  /\ toMap # <<>> /\ toMap' = Tail(toMap) /\ toMap \in Seq(ToMap)
         /\ UNCHANGED <<sqlInv, sqlStore, roster, sqlLevel, up, events>> /\ up
         /\ Head0 \in In(toMap) /\ Head0 \in ToMap
         /\ Head0.kind \notin {"info", "broken", "retrieved"}
         /\ Head0.kind = "loaded" => /\ Head0.max = sqlLevel * Slots
                                     /\ Head0.items # WrittenStore => stor.dirty
         /\ In(toMap') \subseteq In(toMap) /\ Before(toMap', "saved", "loaded")
         /\ Head0.kind = "saved" => ~Has(toMap', "loaded") /\ ~Has(toChar, "load")
  <1>1. /\ toMap # <<>> /\ toMap' = Tail(toMap) /\ toMap \in Seq(ToMap)
        /\ UNCHANGED <<sqlInv, sqlStore, roster, sqlLevel, up, events>>
        /\ Head0 \in ToMap
    BY HeadOfMap, Types DEF Settled, IInv, Next0
  <1>2. Head0 \in In(toMap) /\ In(toMap') \subseteq In(toMap)
    BY <1>1, InTail DEF Head0
  <1>3. /\ Before(toMap', "saved", "loaded")
        /\ Head0.kind = "saved" => ~Has(toMap', "loaded")
    BY <1>1, BeforeTail DEF Head0, Settled, Books, Orderly
  <1>4. Head0.kind = "saved" => ~Has(toChar, "load")
    BY <1>2 DEF Has, Settled, Books, Orderly
  <1>5. up
    BY DEF Settled, Books, Standing
  <1> QED BY <1>1, <1>2, <1>3, <1>4, <1>5 DEF Settled, Books, UpToDate

LEMMA ReceiveStorageBooks ==
  ASSUME Settled, TypeOK', ReceiveStorage
  PROVE  Books' /\ Effect
  <1> DEFINE m == Head0.who
             s == Created(stor)
             fresh == [Unloaded EXCEPT !.loaded = TRUE, !.items = Head0.items, !.max = Head0.max]
  <1>1. /\ Next0 /\ Head0.kind = "loaded" /\ UNCHANGED <<inv, online, gid, member, known, level>>
    BY DEF ReceiveStorage
  <1>2. /\ toMap # <<>> /\ toMap' = Tail(toMap) /\ toMap \in Seq(ToMap)
        /\ UNCHANGED <<sqlInv, sqlStore, roster, sqlLevel, up, events>> /\ up
        /\ Head0.max = sqlLevel * Slots /\ (Head0.items # WrittenStore => stor.dirty)
        /\ Head0 \in ToMap
        /\ In(toMap') \subseteq In(toMap) /\ Before(toMap', "saved", "loaded")
    BY <1>1, FirstPacket
  <1>3. /\ TypeOK /\ stor \in Storage /\ toChar \in Seq(ToChar) /\ using \subseteq online
        /\ (stor.status => using # {}) /\ online \subseteq Members /\ gid \subseteq online
        /\ \A x \in using : using = {x} /\ stor.status /\ stor.loaded
    BY OneUses, Types DEF Settled, Books, Standing
  <1>4. m \in Members /\ Head0.items \in SUBSET Items /\ Head0.max \in 0 .. MaxLevel * Slots
    BY <1>1, <1>2, FromChar
  <1>5. s.status = stor.status /\ s.dirty = stor.dirty
    BY <1>3 DEF Created, Storage
  <1>6. Keep(IF m \notin online \/ ~known THEN Now
             ELSE IF s.status \/ s.dirty THEN [Now EXCEPT !.stor = s]
             ELSE OpenNow(fresh, m))
    BY DEF ReceiveStorage
  <1>7. /\ fresh.loaded = TRUE /\ fresh.items = Head0.items /\ fresh.max = Head0.max
        /\ fresh.status = FALSE /\ fresh.dirty = FALSE /\ fresh.lock = FALSE
        /\ fresh \in Storage
    BY <1>4 DEF Unloaded, Storage
  <1> HIDE DEF m, s, fresh
  <1>8. ASSUME stor' = stor, using' = using, toChar' = toChar
        PROVE  Books' /\ Effect
    <2>1. WrittenStore' = WrittenStore /\ \A x \in Members : WrittenInv(x)' = WrittenInv(x)
      BY <1>2, <1>8, Unwritten
    <2>2. Standing'
      BY <1>1, <1>2, <1>8 DEF Settled, Books, Standing
    <2>3. Before(toChar', "store", "load")
      BY <1>8 DEF Settled, Books, Orderly
    <2>4. Orderly' /\ UpToDate'
      BY <1>2, <1>8, <2>1, <2>3, Onward
    <2>5. \A x \in online' : inv'[x] = IF x \in online THEN inv[x] ELSE WrittenInv(x)
      BY <1>1
    <2>6. Books' /\ Same
      BY <1>1, <1>3, <1>8, <2>1, <2>2, <2>4, <2>5, Still
    <2> QED BY <2>6 DEF Effect
  <1>9. CASE m \notin online \/ ~known
    <2>1. stor' = stor /\ using' = using /\ toChar' = toChar
      BY <1>2, <1>3, <1>6, <1>9, NothingMore DEF Keep, Now, Send
    <2> QED BY <1>8, <2>1
  <1>10. CASE ~(m \notin online \/ ~known) /\ (s.status \/ s.dirty)
    <2>1. stor.loaded
      BY <1>3, <1>5, <1>10 DEF Settled, Books, Standing
    <2>2. s = stor
      BY <1>3, <2>1 DEF s, Created, Storage
    <2>3. stor' = stor /\ using' = using /\ toChar' = toChar
      BY <1>2, <1>3, <1>6, <1>10, <2>2, NothingMore DEF Keep, Now, Send
    <2> QED BY <1>8, <2>3
  <1>11. CASE ~(m \notin online \/ ~known) /\ ~(s.status \/ s.dirty)
    <2>1. /\ Keep(OpenNow(fresh, m)) /\ m \in online /\ known
          /\ stor.status = FALSE /\ stor.dirty = FALSE /\ using = {}
      BY <1>3, <1>5, <1>6, <1>11 DEF Storage
    <2>2. Head0.items = WrittenStore
      BY <1>2, <2>1
    <2>3. Current(fresh)
      BY <1>2, <1>7, <2>1 DEF Current, Settled, Books, Standing
    <2> DEFINE opens == Allowed(m)
    <2>4. /\ stor'.items = Head0.items /\ stor'.loaded = TRUE /\ stor'.max = Head0.max
          /\ stor'.dirty = FALSE /\ toChar' = toChar
          /\ using' = IF opens THEN {m} ELSE {}
      <3>1. CASE opens
        <4>1. stor' = [fresh EXCEPT !.status = TRUE] /\ using' = using \cup {m} /\ toChar' = toChar
          BY <1>2, <1>3, <1>7, <2>1, <2>3, <3>1, NothingMore DEF Keep, OpenNow, Send
        <4> QED BY <1>7, <2>1, <3>1, <4>1 DEF Storage
      <3>2. CASE ~opens
        <4>1. stor' = fresh /\ using' = using /\ toChar' = toChar
          BY <1>2, <1>3, <2>1, <3>2, NothingMore DEF Keep, OpenNow, Send
        <4> QED BY <1>7, <2>1, <3>2, <4>1
      <3> QED BY <3>1, <3>2
    <2> HIDE DEF opens
    <2>5. WrittenStore' = WrittenStore /\ \A x \in Members : WrittenInv(x)' = WrittenInv(x)
      BY <1>2, <2>4, Unwritten
    <2>6. Standing'
      BY <1>1, <1>2, <2>1, <2>4 DEF Settled, Books, Standing
    <2>7. Orderly' /\ UpToDate'
      <3>1. Before(toChar', "store", "load")
        BY <2>4 DEF Settled, Books, Orderly
      <3>2. stor.loaded => stor'.loaded
        BY <2>4
      <3>3. stor.dirty => stor'.dirty
        BY <2>1
      <3> QED BY <1>2, <2>4, <2>5, <3>1, <3>2, <3>3, Onward
    <2>8. InStep'
      <3>1. \A x \in online : inv[x] = WrittenInv(x)
        BY <2>1 DEF Settled, Books, InStep
      <3>2. \A x \in online : inv'[x] = WrittenInv(x)'
        BY <1>1, <1>3, <2>5, <3>1
      <3> QED BY <1>1, <2>1, <2>2, <2>4, <2>5, <3>2 DEF InStep
    <2>9. StoreNow = WrittenStore /\ StoreNow' = WrittenStore
      BY <2>1, <2>2, <2>4, CarriedIs DEF StoreNow
    <2>10. CarriedNow' = CarriedNow /\ WrittenBags' = WrittenBags
      BY <1>1, <2>5 DEF CarriedNow, WrittenBags
    <2>11. Same \/ Enters(m)
      BY <2>1, <2>4, <2>5, <2>9, <2>10 DEF Same, Enters
    <2> QED BY <1>4, <2>6, <2>7, <2>8, <2>11 DEF Books, Effect, m
  <1> QED BY <1>9, <1>10, <1>11

LEMMA ReceiveAnswerBooks ==
  ASSUME Settled, TypeOK', ReceiveSaved \/ ReceiveUnlock
  PROVE  Books' /\ Effect
  <1>1. /\ Next0 /\ UNCHANGED <<using, inv, online, gid, member, known, level, toChar>>
    BY DEF ReceiveSaved, ReceiveUnlock
  <1>2. /\ toMap # <<>> /\ toMap' = Tail(toMap) /\ toMap \in Seq(ToMap)
        /\ UNCHANGED <<sqlInv, sqlStore, roster, sqlLevel, up, events>> /\ up
        /\ In(toMap') \subseteq In(toMap) /\ Before(toMap', "saved", "loaded")
        /\ Head0.kind = "saved" => ~Has(toMap', "loaded") /\ ~Has(toChar, "load")
    BY <1>1, FirstPacket
  <1>3. stor \in Storage /\ using \subseteq online /\ online \subseteq Members
    BY OneUses, Types
  <1>4. WrittenStore' = WrittenStore /\ \A x \in Members : WrittenInv(x)' = WrittenInv(x)
    BY <1>1, <1>2, Unwritten
  <1>5. \A x \in online' : inv'[x] = IF x \in online THEN inv[x] ELSE WrittenInv(x)
    BY <1>1
  <1>6. Before(toChar', "store", "load")
    BY <1>1 DEF Settled, Books, Orderly
  <1>7. CASE ReceiveUnlock
    <2>1. /\ stor'.items = stor.items /\ stor'.loaded = stor.loaded /\ stor'.max = stor.max
          /\ stor'.dirty = stor.dirty /\ stor'.status = stor.status
      BY <1>3, <1>7 DEF ReceiveUnlock, Storage
    <2>2. Standing'
      BY <1>1, <1>2, <2>1 DEF Settled, Books, Standing
    <2>3. Orderly' /\ UpToDate'
      BY <1>1, <1>2, <1>4, <1>6, <2>1, Onward
    <2>4. Books' /\ Same
      BY <1>1, <1>3, <1>4, <1>5, <2>1, <2>2, <2>3, Still
    <2> QED BY <2>4 DEF Effect
  <1>8. CASE ReceiveSaved
    <2>1. /\ stor'.items = stor.items /\ stor'.loaded = stor.loaded /\ stor'.max = stor.max
          /\ stor'.dirty = (stor.dirty /\ stor.status) /\ stor'.status = stor.status
      BY <1>3, <1>8 DEF ReceiveSaved, Storage
    <2>2. Head0.kind = "saved"
      BY <1>8 DEF ReceiveSaved, Saved
    <2>3. Standing'
      BY <1>1, <1>2, <2>1 DEF Settled, Books, Standing
    <2>4. InStep'
      BY <1>1, <1>3, <1>4, <2>1 DEF Settled, Books, InStep
    <2>5. Orderly'
      BY <1>1, <1>2, <1>6, <2>1 DEF Settled, Books, Orderly, Has
    <2>6. UpToDate'
      <3>1. ~Has(toChar', "load") /\ \A p \in In(toMap') : p.kind # "loaded"
        BY <1>1, <1>2, <2>2 DEF Has
      <3> QED BY <1>2, <3>1 DEF Settled, Books, UpToDate
    <2>7. Same
      BY <1>1, <1>4, <2>1 DEF Same, StoreNow, CarriedNow, WrittenBags
    <2> QED BY <2>3, <2>4, <2>5, <2>6, <2>7 DEF Books, Effect
  <1> QED BY <1>7, <1>8

(* A member is out of the guild: whoever uses the storage is made to close *)
(* it; nothing is taken from the member, as nothing is bound.              *)
LEMMA WithdrawBooks ==
  ASSUME Settled, TypeOK', ReceiveWithdraw
  PROVE  Books' /\ Effect
  <1> DEFINE m == Head0.who
  <1>1. Next0 /\ Head0.kind = "withdraw" /\ UNCHANGED <<online, known, level>>
    BY DEF ReceiveWithdraw
  <1>2. /\ toMap # <<>> /\ toMap' = Tail(toMap)
        /\ UNCHANGED <<sqlInv, sqlStore, roster, sqlLevel, up, events>> /\ up
        /\ m \in Members
    BY <1>1, FirstPacket, FromChar
  <1>3. /\ TypeOK /\ stor \in Storage /\ toChar \in Seq(ToChar) /\ online \subseteq Members
        /\ using \subseteq online /\ using \subseteq gid /\ using \subseteq member
        /\ using \subseteq Members /\ gid \subseteq online
        /\ (stor.status => using # {})
        /\ \A x \in using : using = {x} /\ stor.status /\ stor.loaded
    BY OneUses, Types DEF Settled, Books, Standing
  <1>4. Locked(Items) = {}
    BY DEF Settled, Calm, Locked
  <1> HIDE DEF m
  <1>5. ASSUME stor'.items = stor.items, stor'.loaded = stor.loaded, stor'.max = stor.max,
               stor'.dirty = stor.dirty, gid' \subseteq gid
        PROVE  Standing'
    BY <1>1, <1>2, <1>5 DEF Settled, Books, Standing
  <1>6. ASSUME NEW x \in using, NEW r \in Seq(ToChar), \A p \in In(r) : p.kind = "retrieve",
               toChar' = toChar \o (Saving(Now, x) \o r),
               stor'.items = stor.items, stor'.loaded = stor.loaded, stor'.max = stor.max,
               stor'.dirty = stor.dirty, stor'.status = FALSE, using' = {}, inv' = inv,
               gid' \subseteq gid
        PROVE  Books' /\ Effect
    <2>1. Standing'
      BY <1>5, <1>6
    <2>2. online' \subseteq online /\ online \ {x} \subseteq online'
      BY <1>1
    <2>3. \A y \in online' : inv'[y] = inv[y]
      BY <1>6
    <2>4. Books' /\ Departs(x)
      BY <1>2, <1>6, <2>1, <2>2, <2>3, Departure
    <2> QED BY <1>3, <2>4 DEF Effect
  <1>7. ASSUME NEW r \in Seq(ToChar), \A p \in In(r) : p.kind = "retrieve",
               toChar' = toChar \o r, using' = using, inv' = inv,
               stor'.items = stor.items, stor'.loaded = stor.loaded, stor'.max = stor.max,
               stor'.dirty = stor.dirty, stor'.status = stor.status, gid' \subseteq gid
        PROVE  Books' /\ Effect
    <2>1. /\ WrittenStore' = Written(r, Stores, WrittenStore)
          /\ \A x \in Members : WrittenInv(x)' = Written(r, InvOf(x), WrittenInv(x))
      BY <1>2, <1>7, Sends
    <2>2. \A b : Written(r, Stores, b) = b /\ \A x \in Members : Written(r, InvOf(x), b) = b
      BY <1>7, WrittenSilent
    <2>3. WrittenStore' = WrittenStore /\ \A x \in Members : WrittenInv(x)' = WrittenInv(x)
      BY <2>1, <2>2
    <2>4. Standing'
      BY <1>5, <1>7
    <2>5. ~Has(r, "load") /\ ~Has(r, "store") /\ In(toChar') = In(toChar) \cup In(r)
      BY <1>3, <1>7, InConcat DEF Has
    <2>6. Before(toChar', "store", "load")
      BY <1>3, <1>7, <2>5, BeforeConcat DEF Settled, Books, Orderly
    <2>7. Orderly' /\ UpToDate'
      BY <1>2, <1>7, <2>3, <2>5, <2>6, Onward DEF Has
    <2>8. using \subseteq online' /\ \A x \in online' : inv'[x] = IF x \in online THEN inv[x] ELSE WrittenInv(x)
      BY <1>1, <1>3, <1>7
    <2>9. Books' /\ Same
      BY <1>7, <2>3, <2>4, <2>7, <2>8, Still
    <2> QED BY <2>9 DEF Effect
  <1>8. \A x \in using : Saving(Now, x) \in Seq(ToChar)
    BY <1>3, SavingFacts
  <1>9. <<>> \in Seq(ToChar) /\ In(<<>>) = {} /\ toChar \o <<>> = toChar
    BY <1>3, NothingMore
  <1>10. Now.stor = stor /\ Now.using = using /\ Now.sent = <<>>
    BY DEF Now
  <1>11. ASSUME NEW x \in using
         PROVE  /\ Close(Now, x) = [stor |-> [stor EXCEPT !.status = FALSE], using |-> using \ {x},
                                    sent |-> Saving(Now, x)]
                /\ using \ {x} = {}
    <2>1. <<>> \o Saving(Now, x) = Saving(Now, x)
      BY <1>8, ConcatEmptySeq
    <2> QED BY <1>3, <1>10, <2>1 DEF Close
  <1>12. CASE known /\ m \in member
    <2>1. PICK r \in IF m \in online THEN RetrieveOnline(m) ELSE RetrieveOffline(m) :
            /\ inv' = r.inv
            /\ Keep(IF m \in gid /\ m \in r.w.using THEN Close(r.w, m) ELSE r.w)
            /\ gid' = gid \ {m}
      BY <1>12 DEF ReceiveWithdraw, m
    <2>2. CASE m \in online
      <3>1. r = [w |-> Now, inv |-> inv]
        <4>1. BoundOf(m) = {}
          BY <1>4 DEF BoundOf
        <4> QED BY <2>1, <2>2, <4>1 DEF RetrieveOnline
      <3>2. CASE m \in using
        <4>1. Keep(Close(Now, m)) /\ inv' = inv /\ gid' \subseteq gid
          BY <1>3, <1>10, <2>1, <3>1, <3>2
        <4>2. /\ stor' = [stor EXCEPT !.status = FALSE] /\ using' = {}
              /\ toChar' = toChar \o Saving(Now, m)
          <5> DEFINE w == Close(Now, m)
                     s == [stor EXCEPT !.status = FALSE]
                     u == using \ {m}
                     p == Saving(Now, m)
          <5>3. w = [stor |-> s, using |-> u, sent |-> p] /\ u = {}
            BY <1>11, <3>2
          <5> HIDE DEF s, u, p, w
          <5>4. w.stor = s /\ w.using = {} /\ w.sent = p
            BY <5>3
          <5>1. w.stor = [stor EXCEPT !.status = FALSE] /\ w.using = {} /\ w.sent = Saving(Now, m)
            BY <5>4 DEF s, p
          <5>2. Keep(w)
            BY <4>1 DEF w
          <5> QED BY <1>2, <5>1, <5>2 DEF Keep, Send
        <4>3. /\ stor'.items = stor.items /\ stor'.loaded = stor.loaded /\ stor'.max = stor.max
              /\ stor'.dirty = stor.dirty /\ stor'.status = FALSE
          BY <1>3, <4>2 DEF Storage
        <4>4. Saving(Now, m) \o <<>> = Saving(Now, m)
          BY <1>8, <3>2, NothingMore
        <4>5. \A p \in In(<<>>) : p.kind = "retrieve"
          BY <1>9
        <4>6. toChar' = toChar \o (Saving(Now, m) \o <<>>)
          BY <4>2, <4>4
        <4> DEFINE rest == <<>>
        <4>7. rest \in Seq(ToChar) /\ (\A p \in In(rest) : p.kind = "retrieve")
              /\ toChar' = toChar \o (Saving(Now, m) \o rest)
          BY <1>9, <4>5, <4>6
        <4> HIDE DEF rest
        <4> QED BY <1>6, <3>2, <4>1, <4>2, <4>3, <4>7
      <3>3. CASE m \notin using
        <4>1. Keep(Now) /\ inv' = inv /\ gid' \subseteq gid
          BY <1>3, <1>10, <2>1, <3>1, <3>3
        <4> DEFINE rest == <<>>
        <4>2. /\ stor' = stor /\ using' = using /\ toChar' = toChar \o rest
              /\ rest \in Seq(ToChar) /\ \A p \in In(rest) : p.kind = "retrieve"
          BY <1>2, <1>9, <1>10, <4>1 DEF Keep, Send
        <4> HIDE DEF rest
        <4> QED BY <1>7, <4>1, <4>2
      <3> QED BY <3>2, <3>3
    <2>3. CASE m \notin online
      <3>1. PICK c \in Cleared(Now) :
              r = [w |-> [c EXCEPT !.sent = Append(@, Retrieve(m)),
                                   !.stor.lock = c.stor.loaded /\ (@ \/ up)],
                   inv |-> inv]
        BY <2>1, <2>3 DEF RetrieveOffline
      <3> DEFINE rest == <<Retrieve(m)>>
      <3>2. /\ Retrieve(m) \in ToChar /\ rest \in Seq(ToChar)
            /\ \A p \in In(rest) : p.kind = "retrieve"
        <4>1. Retrieve(m) \in ToChar /\ Retrieve(m).kind = "retrieve"
          BY <1>2 DEF Retrieve, ToChar
        <4>2. rest \in Seq(ToChar) /\ In(rest) = {Retrieve(m)}
          BY <4>1, InFew
        <4> QED BY <4>1, <4>2
      <3>3. m \notin gid
        BY <1>3, <2>3
      <3>4. Keep(r.w) /\ inv' = inv /\ gid' \subseteq gid
        BY <2>1, <3>1, <3>3
      <3>5. CASE using # {}
        <4>1. PICK x \in using : using = {x} /\ stor.status /\ stor.loaded
          BY <1>3, <3>5
        <4>2. Now.using \cap member = {x}
          BY <1>3, <1>10, <4>1
        <4>3. c = [Close(Now, x) EXCEPT !.using = @ \ member]
          BY <1>10, <4>1, <4>2 DEF Cleared
        <4>4. c = [stor |-> [stor EXCEPT !.status = FALSE], using |-> {}, sent |-> Saving(Now, x)]
          <5> DEFINE s == [stor EXCEPT !.status = FALSE]
                     w == Close(Now, x)
          <5>1. w = [stor |-> s, using |-> {}, sent |-> Saving(Now, x)]
            BY <1>11, <4>1
          <5>2. c = [w EXCEPT !.using = @ \ member]
            BY <4>3
          <5> HIDE DEF s, w
          <5>3. c = [stor |-> s, using |-> {}, sent |-> Saving(Now, x)]
            BY <5>1, <5>2
          <5> QED BY <5>3 DEF s
        <4>5. /\ r.w.sent = Append(Saving(Now, x), Retrieve(m)) /\ r.w.using = {}
              /\ r.w.stor.items = stor.items /\ r.w.stor.loaded = stor.loaded
              /\ r.w.stor.max = stor.max /\ r.w.stor.dirty = stor.dirty
              /\ r.w.stor.status = FALSE
          BY <1>3, <3>1, <4>4 DEF Storage
        <4>6. Append(Saving(Now, x), Retrieve(m)) = Saving(Now, x) \o rest
          <5>1. Saving(Now, x) \in Seq(ToChar)
            BY <1>8
          <5> QED BY <3>2, <5>1, AppendIsConcat
        <4>7. toChar' = toChar \o (Saving(Now, x) \o rest) /\ using' = {} /\ stor' = r.w.stor
          BY <1>2, <3>4, <4>5, <4>6 DEF Keep, Send
        <4> HIDE DEF rest
        <4> QED BY <1>6, <3>2, <3>4, <4>5, <4>7
      <3>6. CASE using = {}
        <4>1. c = Now
          BY <1>3, <1>10, <3>6 DEF Cleared
        <4>2. /\ r.w.sent = Append(<<>>, Retrieve(m)) /\ r.w.using = using
              /\ r.w.stor.items = stor.items /\ r.w.stor.loaded = stor.loaded
              /\ r.w.stor.max = stor.max /\ r.w.stor.dirty = stor.dirty
              /\ r.w.stor.status = stor.status
          BY <1>3, <3>1, <4>1 DEF Now, Storage
        <4>3. Append(<<>>, Retrieve(m)) = rest
          OBVIOUS
        <4>4. toChar' = toChar \o rest /\ using' = using /\ stor' = r.w.stor
          BY <1>2, <3>4, <4>2, <4>3 DEF Keep, Send
        <4> HIDE DEF rest
        <4> QED BY <1>7, <3>2, <3>4, <4>2, <4>4
      <3> QED BY <3>5, <3>6
    <2> QED BY <2>2, <2>3
  <1>13. CASE ~(known /\ m \in member)
    <2>1. UNCHANGED <<inv, stor, using, toChar, member, gid>>
      BY <1>13 DEF ReceiveWithdraw, m
    <2> DEFINE rest == <<>>
    <2>2. /\ rest \in Seq(ToChar) /\ (\A p \in In(rest) : p.kind = "retrieve")
          /\ toChar' = toChar \o rest /\ gid' \subseteq gid
      BY <1>9, <2>1
    <2> HIDE DEF rest
    <2> QED BY <1>7, <2>1, <2>2
  <1> QED BY <1>12, <1>13

-----------------------------------------------------------------------------
(* The first packet for the char-server. *)
LEMMA Handles ==
  ASSUME Settled, TypeOK', toChar # <<>>, toChar' = Tail(toChar),
         UNCHANGED <<mapVars, roster, sqlLevel, up, events>>,
         Head(toChar).kind = "inventory" =>
           /\ sqlInv' = [sqlInv EXCEPT ![Head(toChar).who] = Head(toChar).items]
           /\ sqlStore' = sqlStore,
         Head(toChar).kind = "store" =>
           /\ sqlStore' = IF roster = {} THEN sqlStore ELSE Head(toChar).items
           /\ sqlInv' = sqlInv,
         Head(toChar).kind \in {"load", "retrieve"} => UNCHANGED <<sqlInv, sqlStore>>
  PROVE  /\ WrittenStore' = WrittenStore /\ \A x \in Members : WrittenInv(x)' = WrittenInv(x)
         /\ Orderly' /\ UpToDate' => Books' /\ Same
         /\ In(toChar') \subseteq In(toChar) /\ Head(toChar) \in In(toChar)
         /\ Before(toChar', "store", "load")
         /\ Head(toChar).kind = "store" => ~Has(toChar', "load")
  <1> DEFINE p == Head(toChar)
  <1>1. /\ p \in ToChar /\ toChar \in Seq(ToChar) /\ sqlInv \in [Members -> SUBSET Items]
        /\ using \subseteq online /\ online \subseteq Members
    BY HeadOfChar, OneUses, Types
  <1>2. p.kind \in {"inventory", "store", "load", "retrieve"}
    BY <1>1 DEF ToChar
  <1>3. Writing /\ Writing'
    BY CalmWriting, CalmWritingNext DEF Settled, IInv, Calm
  <1>4. \A P, b : Written(toChar, P, b)
                    = Written(toChar', P, IF p \in P THEN p.items ELSE b)
    BY <1>1, WrittenTail
  <1>5. p \in Stores <=> p.kind = "store"
    BY <1>1 DEF Stores
  <1>6. \A x \in Members : p \in InvOf(x) <=> p.kind = "inventory" /\ p.who = x
    BY <1>1 DEF InvOf
  <1>7. UNCHANGED <<stor, using, inv, online, gid, member, known, level>>
    BY DEF mapVars
  <1>8. p.kind = "inventory" => p.who \in Members
    BY <1>1, FromMap
  <1>9. /\ In(toChar') \subseteq In(toChar) /\ p \in In(toChar)
        /\ Before(toChar', "store", "load")
        /\ p.kind = "store" => ~Has(toChar', "load")
    BY <1>1, InTail, BeforeTail DEF Settled, Books, Orderly
  <1> HIDE DEF p
  <1>10. WrittenStore' = WrittenStore
    <2>1. CASE roster = {}
      <3>1. sqlStore' = sqlStore
        BY <1>2, <2>1 DEF p
      <3> QED BY <1>3, <2>1, <3>1 DEF Writing
    <2>2. CASE roster # {}
      <3>1. sqlStore' = IF p \in Stores THEN p.items ELSE sqlStore
        BY <1>2, <1>5, <2>2 DEF p
      <3>2. Written(toChar, Stores, sqlStore) = Written(toChar', Stores, sqlStore')
        BY <1>4, <3>1
      <3> QED BY <1>3, <2>2, <3>2 DEF Writing
    <2> QED BY <2>1, <2>2
  <1>11. ASSUME NEW x \in Members PROVE WrittenInv(x)' = WrittenInv(x)
    <2>1. sqlInv'[x] = IF p \in InvOf(x) THEN p.items ELSE sqlInv[x]
      <3>1. CASE p.kind = "inventory"
        <4>1. sqlInv' = [sqlInv EXCEPT ![p.who] = p.items]
          BY <3>1 DEF p
        <4> QED BY <1>1, <1>6, <1>8, <3>1, <4>1
      <3>2. CASE p.kind # "inventory"
        <4>1. sqlInv' = sqlInv
          BY <1>2, <3>2 DEF p
        <4> QED BY <1>6, <3>2, <4>1
      <3> QED BY <3>1, <3>2
    <2>2. Written(toChar, InvOf(x), sqlInv[x]) = Written(toChar', InvOf(x), sqlInv'[x])
      BY <1>4, <2>1
    <2> QED BY <1>3, <2>2 DEF Writing
  <1>12. Standing'
    BY <1>7 DEF Settled, Books, Standing
  <1>13. ASSUME Orderly', UpToDate' PROVE Books' /\ Same
    <2>1. \A x \in online' : inv'[x] = IF x \in online THEN inv[x] ELSE WrittenInv(x)
      BY <1>7
    <2>2. \A x \in Members : WrittenInv(x)' = WrittenInv(x)
      BY <1>11
    <2> QED BY <1>1, <1>7, <1>10, <1>12, <1>13, <2>1, <2>2, Still
  <1> QED BY <1>9, <1>10, <1>11, <1>13 DEF p

LEMMA CharSaveBooks ==
  ASSUME Settled, TypeOK', CharSave
  PROVE  Books' /\ Effect
  <1>1. toChar # <<>> /\ toChar' = Tail(toChar) /\ UNCHANGED <<mapVars, roster, sqlLevel, up, events>>
    BY DEF CharSave
  <1>2. UNCHANGED <<stor, known, level>> /\ up /\ toMap \in Seq(ToMap)
    BY <1>1, Types DEF mapVars, Settled, IInv, Books, Standing
  <1>3. CASE /\ Head(toChar).kind = "inventory"
             /\ sqlInv' = [sqlInv EXCEPT ![Head(toChar).who] = Head(toChar).items]
             /\ UNCHANGED <<sqlStore, toMap>>
    <2>1. /\ WrittenStore' = WrittenStore /\ (Orderly' /\ UpToDate' => Books' /\ Same)
          /\ In(toChar') \subseteq In(toChar) /\ Before(toChar', "store", "load")
      BY <1>1, <1>3, Handles
    <2>2. Orderly' /\ UpToDate'
      BY <1>1, <1>2, <1>3, <2>1, Onward DEF Has
    <2> QED BY <2>1, <2>2 DEF Effect
  <1>4. CASE /\ Head(toChar).kind = "store"
             /\ sqlStore' = IF roster = {} THEN sqlStore ELSE Head(toChar).items
             /\ Answer(<<Saved>>) /\ UNCHANGED sqlInv
    <2>1. /\ WrittenStore' = WrittenStore /\ (Orderly' /\ UpToDate' => Books' /\ Same)
          /\ In(toChar') \subseteq In(toChar) /\ Before(toChar', "store", "load")
          /\ ~Has(toChar', "load") /\ Head(toChar) \in In(toChar)
      BY <1>1, <1>4, Handles
    <2> DEFINE ps == <<Saved>>
    <2>2. /\ ps \in Seq(ToMap) /\ In(ps) = {Saved} /\ Saved.kind = "saved" /\ toMap' = toMap \o ps
      <3>1. Saved \in ToMap /\ Saved.kind = "saved"
        BY DEF Saved, ToMap
      <3> QED BY <1>2, <1>4, <3>1, InFew DEF Answer
    <2> HIDE DEF ps
    <2>3. In(toMap') = In(toMap) \cup {Saved}
      BY <1>2, <2>2, InConcat
    <2>4. Before(toMap', "saved", "loaded")
      <3>1. ~Has(ps, "loaded")
        BY <2>2 DEF Has
      <3> QED BY <1>2, <2>2, <3>1, BeforeConcat DEF Settled, Books, Orderly
    <2>5. stor.loaded
      BY <1>4, <2>1 DEF Has, Settled, Books, Orderly
    <2>6. Orderly'
      BY <1>2, <2>1, <2>4, <2>5 DEF Orderly
    <2>7. UpToDate'
      BY <1>1, <1>2, <2>1, <2>2, <2>3 DEF Settled, Books, UpToDate
    <2> QED BY <2>1, <2>6, <2>7 DEF Effect
  <1> QED BY <1>3, <1>4 DEF CharSave

LEMMA CharLoadBooks ==
  ASSUME Settled, TypeOK', CharLoad
  PROVE  Books' /\ Effect
  <1> DEFINE p == Head(toChar)
             ps == IF roster = {} THEN <<>> ELSE <<Loaded(p.who, sqlStore, sqlLevel * Slots)>>
  <1>1. /\ toChar # <<>> /\ toChar' = Tail(toChar) /\ p.kind = "load"
        /\ UNCHANGED <<mapVars, charVars, up, events>> /\ Answer(ps)
    BY DEF CharLoad
  <1>2. /\ UNCHANGED <<stor, known, level, sqlInv, sqlStore, roster, sqlLevel>>
        /\ up /\ toMap \in Seq(ToMap)
    BY <1>1, Types DEF mapVars, charVars, Settled, IInv, Books, Standing
  <1>3. /\ WrittenStore' = WrittenStore /\ (Orderly' /\ UpToDate' => Books' /\ Same)
        /\ In(toChar') \subseteq In(toChar) /\ Before(toChar', "store", "load")
        /\ p \in In(toChar)
    BY <1>1, <1>2, Handles
  <1>4. /\ ps \in Seq(ToMap)
        /\ \A q \in In(ps) : /\ q.kind = "loaded" /\ q.max = sqlLevel * Slots
                             /\ q.items = sqlStore
    <2> DEFINE q == Loaded(p.who, sqlStore, sqlLevel * Slots)
    <2>1. q \in ToMap /\ q.kind = "loaded" /\ q.max = sqlLevel * Slots /\ q.items = sqlStore
      <3>1. p \in ToChar /\ p.who \in Members
        BY <1>1, HeadOfChar, FromMap DEF Settled, IInv
      <3>2. sqlStore \in SUBSET Items /\ sqlLevel \in 0 .. MaxLevel
        BY Types DEF Settled, IInv
      <3> QED BY <3>1, <3>2, PacketsToMap DEF Loaded
    <2> HIDE DEF q
    <2>2. <<q>> \in Seq(ToMap) /\ In(<<q>>) = {q} /\ <<>> \in Seq(ToMap) /\ In(<<>>) = {}
      BY <2>1, InFew
    <2>3. ps = IF roster = {} THEN <<>> ELSE <<q>>
      BY DEF q
    <2> QED BY <2>1, <2>2, <2>3
  <1>5. toMap' = toMap \o ps
    BY <1>1, <1>2 DEF Answer
  <1> HIDE DEF ps, p
  <1>6. In(toMap') = In(toMap) \cup In(ps)
    BY <1>2, <1>4, <1>5, InConcat
  <1>7. Has(toChar, "load")
    BY <1>1, <1>3 DEF Has
  <1>8. ~Has(toMap, "saved")
    BY <1>7 DEF Settled, Books, Orderly
  <1>9. ~Has(toMap', "saved") /\ ~Has(ps, "saved")
    BY <1>4, <1>6, <1>8 DEF Has
  <1>10. Before(toMap', "saved", "loaded")
    BY <1>2, <1>4, <1>5, <1>8, <1>9, BeforeConcat DEF Settled, Books, Orderly
  <1>11. Orderly'
    <2>1. Has(toChar', "store") => stor.loaded
      BY <1>3 DEF Has, Settled, Books, Orderly
    <2> QED BY <1>2, <1>3, <1>9, <1>10, <2>1 DEF Orderly
  <1>12. UpToDate'
    <2>1. sqlStore # WrittenStore => stor.dirty
      BY <1>7 DEF Settled, Books, UpToDate
    <2> QED BY <1>2, <1>3, <1>4, <1>6, <2>1 DEF Settled, Books, UpToDate
  <1> QED BY <1>3, <1>11, <1>12 DEF Effect

LEMMA CharRetrieveBooks ==
  ASSUME Settled, TypeOK', CharRetrieve
  PROVE  Books' /\ Effect
  <1>1. Locked(Items) = {}
    BY DEF Settled, Calm, Locked
  <1>2. /\ toChar # <<>> /\ toChar' = Tail(toChar) /\ Head(toChar).kind = "retrieve"
        /\ UNCHANGED <<mapVars, sqlStore, roster, sqlLevel, up, events>>
        /\ Answer(<<RetrieveDone>>)
        /\ sqlInv' = [sqlInv EXCEPT ![Head(toChar).who] = @ \ {}]
    BY <1>1 DEF CharRetrieve
  <1>3. sqlInv' = sqlInv
    <2>1. sqlInv \in [Members -> SUBSET Items]
      BY Types DEF Settled, IInv
    <2> QED BY <1>2, <2>1
  <1>4. /\ WrittenStore' = WrittenStore /\ (Orderly' /\ UpToDate' => Books' /\ Same)
    BY <1>2, <1>3, Handles
  <1>5. RetrieveDone \in ToMap /\ RetrieveDone.kind = "unlock"
    BY DEF RetrieveDone, ToMap
  <1>6. toMap' = toMap \o <<RetrieveDone>> /\ stor' = stor
    BY <1>2 DEF Answer, mapVars, Settled, Books, Standing
  <1>7. Orderly' /\ UpToDate'
    BY <1>2, <1>4, <1>5, <1>6, Answered
  <1> QED BY <1>4, <1>7 DEF Effect

(* A crash brings back what is written. *)
LEMMA CrashBooks ==
  ASSUME Settled, TypeOK', Crash
  PROVE  Books' /\ Effect
  <1>1. /\ sqlInv' = [m \in Members |-> WrittenInv(m)] /\ sqlStore' = WrittenStore
        /\ stor' = Unloaded /\ using' = {} /\ online' = {} /\ gid' = {} /\ known' = FALSE
        /\ toChar' = <<>> /\ toMap' = <<>> /\ up' = TRUE /\ UNCHANGED <<roster, sqlLevel, events>>
    BY DEF Crash
  <1>2. Writing'
    BY <1>1, CalmWritingNext DEF Settled, Calm
  <1>3. In(toChar') = {} /\ In(toMap') = {} /\ Len(toChar') = 0 /\ Len(toMap') = 0
    BY <1>1 DEF In
  <1>4. WrittenStore' = WrittenStore
    <2>1. Written(toChar', Stores, sqlStore') = sqlStore'
      BY <1>3, WrittenNone
    <2> QED BY <1>1, <1>2, <2>1 DEF Writing
  <1>5. \A x \in Members : WrittenInv(x)' = WrittenInv(x)
    <2>1. \A x \in Members : Written(toChar', InvOf(x), sqlInv'[x]) = sqlInv'[x]
      BY <1>3, WrittenNone
    <2> QED BY <1>1, <1>2, <2>1 DEF Writing
  <1>6. Standing' /\ InStep'
    BY <1>1 DEF Settled, Books, Standing, InStep, Unloaded
  <1>7. Orderly' /\ UpToDate'
    BY <1>1, <1>3 DEF Orderly, UpToDate, Has, Before
  <1>8. WrittenBags' = WrittenBags
    BY <1>5 DEF WrittenBags
  <1>9. CarriedNow' = WrittenBags
    BY <1>1, <1>5 DEF CarriedNow, WrittenBags
  <1>10. StoreNow' = WrittenStore
    BY <1>1, <1>4 DEF StoreNow, Unloaded
  <1> QED BY <1>1, <1>4, <1>6, <1>7, <1>8, <1>9, <1>10 DEF Books, Effect, Restores

-----------------------------------------------------------------------------
(* Every step without the rare events keeps the books, and does with the   *)
(* items what the abstract storage may do.                                 *)
LEMMA StepBooks == Settled /\ [Next]_vars => Settled' /\ Effect
  <1> SUFFICES ASSUME Settled, [Next]_vars PROVE Settled' /\ Effect
    OBVIOUS
  <1>1. IInv' /\ TypeOK'
    BY StepKeeps DEF Settled, IInv
  <1>2. Calm'
    BY DEF Settled, Calm, Next, vars, Receive, CharReceive, Login, Quit, Autosave, Open,
           CloseStorage, Leave, ScriptCount, ScriptDelete, Deposit, Take,
           ReceiveStorage, ReceiveSaved, ReceiveUnlock, ReceiveRetrieved, ReceiveInfo,
           ReceiveWithdraw, ReceiveBroken, Next0, CharSave, CharLoad, CharRetrieve,
           SkillUp, Break, LoseLink, Reconnect, Crash
  <1>3. CASE UNCHANGED vars
    <2>1. UNCHANGED <<stor, using, inv, online, gid, known, level, sqlInv, sqlStore, roster,
                      sqlLevel, toChar, toMap, up, events>>
      BY <1>3 DEF vars, mapVars, charVars
    <2>2. WrittenStore' = WrittenStore /\ \A x \in Members : WrittenInv(x)' = WrittenInv(x)
      BY <1>1, <2>1, Unwritten
    <2>3. Standing' /\ Orderly' /\ UpToDate'
      BY <2>1, <2>2 DEF Settled, Books, Standing, Orderly, UpToDate
    <2>4. using \subseteq online /\ \A x \in online' : inv'[x] = IF x \in online THEN inv[x] ELSE WrittenInv(x)
      BY <2>1, OneUses
    <2>5. Books' /\ Same
      BY <1>1, <2>1, <2>2, <2>3, <2>4, Still
    <2> QED BY <1>1, <1>2, <2>5 DEF Settled, Effect
  <1>4. ASSUME NEW m \in Members,
               Login(m) \/ Quit(m) \/ Autosave(m) \/ Open(m) \/ CloseStorage(m) \/ Leave(m)
        PROVE  Books' /\ Effect
    BY <1>1, <1>4, LoginBooks, QuitBooks, AutosaveBooks, OpenBooks, CloseBooks, LeaveBooks
  <1>5. ASSUME NEW m \in Members, NEW i \in Items, NEW cart \in BOOLEAN,
               Deposit(m, i, cart) \/ Take(m, i, cart)
        PROVE  Books' /\ Effect
    BY <1>1, <1>5, ItemBooks
  <1>6. ASSUME Receive PROVE Books' /\ Effect
    <2>1. CASE ReceiveRetrieved \/ ReceiveInfo \/ ReceiveBroken
      <3>2. Broken.kind = "broken"
        BY DEF Broken
      <3>1. Next0 /\ Head0.kind \in {"retrieved", "info", "broken"}
        BY <2>1, <3>2 DEF ReceiveRetrieved, ReceiveInfo, ReceiveBroken
      <3> QED BY <3>1, FirstPacket
    <2> QED
      BY <1>1, <1>6, <2>1, ReceiveStorageBooks, ReceiveAnswerBooks, WithdrawBooks DEF Receive
  <1>7. ASSUME CharReceive PROVE Books' /\ Effect
    BY <1>1, <1>7, CharSaveBooks, CharLoadBooks, CharRetrieveBooks DEF CharReceive
  <1>8. /\ ~SkillUp /\ ~Break /\ ~LoseLink /\ ~Reconnect
        /\ \A m \in Members : ~ScriptCount(m) /\ \A i \in Items : ~ScriptDelete(m, i)
    BY DEF Settled, Calm, Books, Standing, SkillUp, Break, LoseLink, Reconnect,
           ScriptCount, ScriptDelete
  <1>9. ASSUME Crash PROVE Books' /\ Effect
    BY <1>1, <1>9, CrashBooks
  <1>10. CASE Next
    <2>1. Books' /\ Effect
      BY <1>4, <1>5, <1>6, <1>7, <1>8, <1>9, <1>10 DEF Next
    <2> QED BY <1>1, <1>2, <2>1 DEF Settled
  <1> QED BY <1>3, <1>10

LEMMA NeverCalmAgain == [Next]_vars => (Calm' => Calm)
  BY DEF Calm, Next, vars, Receive, CharReceive, Login, Quit, Autosave, Open,
         CloseStorage, Leave, ScriptCount, ScriptDelete, Deposit, Take,
         ReceiveStorage, ReceiveSaved, ReceiveUnlock, ReceiveRetrieved, ReceiveInfo,
         ReceiveWithdraw, ReceiveBroken, Next0, CharSave, CharLoad, CharRetrieve,
         SkillUp, Break, LoseLink, Reconnect, Crash

LEMMA InitBooks ==
  ASSUME Init, Calm
  PROVE  Settled /\ WrittenStore = Chest /\ WrittenBags = Backpack
         /\ StoreNow = Chest /\ CarriedNow = Backpack /\ using = {}
  <1>1. /\ stor = Unloaded /\ using = {} /\ online = {} /\ gid = {} /\ known = FALSE
        /\ sqlInv = Backpack /\ sqlStore = Chest /\ roster = Members /\ sqlLevel = 1
        /\ toChar = <<>> /\ toMap = <<>> /\ up = TRUE
    BY DEF Init
  <1>2. IInv /\ TypeOK
    BY InitKeeps DEF IInv
  <1>3. Writing
    BY <1>2, CalmWriting
  <1>4. In(toChar) = {} /\ In(toMap) = {} /\ Len(toChar) = 0 /\ Len(toMap) = 0
    BY <1>1 DEF In
  <1>5. \A P, b : Written(toChar, P, b) = b
    BY <1>4, WrittenNone
  <1>6. WrittenStore = Chest /\ \A m \in Members : WrittenInv(m) = Backpack[m]
    BY <1>1, <1>3, <1>5 DEF Writing
  <1>7. Books
    BY <1>1, <1>4 DEF Books, Standing, InStep, Orderly, UpToDate, Has, Before, Unloaded
  <1>8. WrittenBags = Backpack
    <2>1. Backpack = [m \in Members |-> Backpack[m]]
      BY ItemsAssumption
    <2> QED BY <1>6, <2>1 DEF WrittenBags
  <1>9. StoreNow = WrittenStore
    BY <1>1 DEF StoreNow, Unloaded
  <1>10. CarriedNow = WrittenBags
    BY <1>1 DEF CarriedNow, WrittenBags
  <1> QED BY <1>1, <1>2, <1>6, <1>7, <1>8, <1>9, <1>10 DEF Settled

-----------------------------------------------------------------------------
(* Every item in one place: who has it, for each item.                     *)
Placed(store, carried) ==
  \A i \in Items : IF i \in store THEN \A m \in Members : i \notin carried[m]
                   ELSE \E m \in Members : {x \in Members : i \in carried[x]} = {m}

LEMMA OnceIsPlaced ==
  ASSUME NEW store, NEW carried
  PROVE  EachOnce(store, carried) <=> Placed(store, carried)
  <1>1. ASSUME NEW i \in Items
        PROVE  (Cardinality({m \in Members : i \in carried[m]}) + (IF i \in store THEN 1 ELSE 0) = 1)
               <=> IF i \in store THEN \A m \in Members : i \notin carried[m]
                   ELSE \E m \in Members : {x \in Members : i \in carried[x]} = {m}
    <2> DEFINE h == {x \in Members : i \in carried[x]}
    <2>1. h \in SUBSET Members
      OBVIOUS
    <2>2. (h = {}) <=> \A m \in Members : i \notin carried[m]
      OBVIOUS
    <2> HIDE DEF h
    <2>3. IsFiniteSet(h) /\ Cardinality(h) \in Nat
      BY <2>1, MembersAssumption, FS_Subset, FS_CardinalityType
    <2>4. (Cardinality(h) = 0 <=> h = {}) /\ (Cardinality(h) = 1 <=> \E x : h = {x})
      BY <2>3, FS_EmptySet, FS_Singleton
    <2>5. (\E x : h = {x}) <=> \E m \in Members : h = {m}
      BY <2>1
    <2>6. Cardinality(h) + 1 = 1 <=> h = {}
      BY <2>3, <2>4
    <2>7. Cardinality(h) + 0 = 1 <=> \E m \in Members : h = {m}
      <3>1. Cardinality(h) + 0 = Cardinality(h)
        BY <2>3
      <3> QED BY <2>4, <2>5, <3>1, Zenon
    <2>8. {m \in Members : i \in carried[m]} = h
      BY DEF h
    <2>9. (Cardinality(h) + (IF i \in store THEN 1 ELSE 0) = 1)
            <=> IF i \in store THEN \A m \in Members : i \notin carried[m]
                ELSE \E m \in Members : h = {m}
      BY <2>2, <2>6, <2>7
    <2>10. (Cardinality({m \in Members : i \in carried[m]}) + (IF i \in store THEN 1 ELSE 0) = 1)
            <=> IF i \in store THEN \A m \in Members : i \notin carried[m]
                ELSE \E m \in Members : h = {m}
      BY <2>8, <2>9, Zenon
    <2> QED BY <2>10, Zenon DEF h
  <1> QED BY <1>1 DEF EachOnce, Placed

(* Moving an item leaves every item in one place. *)
LEMMA MovePlaced ==
  ASSUME NEW store, NEW carried \in [Members -> SUBSET Items], Placed(store, carried),
         NEW m \in Members, NEW i \in Items, NEW s, NEW c,
         \/ /\ i \in carried[m] /\ s = store \cup {i}
            /\ c = [carried EXCEPT ![m] = carried[m] \ {i}]
         \/ /\ i \in store /\ s = store \ {i}
            /\ c = [carried EXCEPT ![m] = carried[m] \cup {i}]
  PROVE  Placed(s, c)
  <1>1. \A x \in Members : \A j \in Items \ {i} : j \in c[x] <=> j \in carried[x]
    OBVIOUS
  <1>2. \A j \in Items \ {i} : j \in s <=> j \in store
    OBVIOUS
  <1>3. ASSUME NEW j \in Items \ {i}
        PROVE  IF j \in s THEN \A x \in Members : j \notin c[x]
               ELSE \E n \in Members : {x \in Members : j \in c[x]} = {n}
    <2>1. {x \in Members : j \in c[x]} = {x \in Members : j \in carried[x]}
      BY <1>1
    <2> QED BY <1>1, <1>2, <2>1 DEF Placed
  <1>4. CASE /\ i \in carried[m] /\ s = store \cup {i}
             /\ c = [carried EXCEPT ![m] = carried[m] \ {i}]
    <2>1. i \notin store
      BY <1>4 DEF Placed
    <2>2. PICK n \in Members : {x \in Members : i \in carried[x]} = {n}
      BY <2>1 DEF Placed
    <2>3. n = m
      BY <1>4, <2>2
    <2>4. \A x \in Members : i \notin c[x]
      BY <1>4, <2>2, <2>3
    <2> QED BY <1>3, <1>4, <2>4 DEF Placed
  <1>5. CASE /\ i \in store /\ s = store \ {i}
             /\ c = [carried EXCEPT ![m] = carried[m] \cup {i}]
    <2>1. \A x \in Members : i \notin carried[x]
      BY <1>5 DEF Placed
    <2>2. {x \in Members : i \in c[x]} = {m}
      BY <1>5, <2>1
    <2> QED BY <1>3, <1>5, <2>2 DEF Placed
  <1> QED BY <1>4, <1>5

(* The items are never copied and never lost, in memory and written. *)
Accounted == Calm => /\ Books
                     /\ Placed(StoreNow, CarriedNow) /\ Placed(WrittenStore, WrittenBags)

LEMMA EffectPlaces ==
  ASSUME Settled, Effect, Placed(StoreNow, CarriedNow), Placed(WrittenStore, WrittenBags)
  PROVE  Placed(StoreNow', CarriedNow') /\ Placed(WrittenStore', WrittenBags')
  <1> DEFINE s == StoreNow
             c == CarriedNow
  <1>1. c \in [Members -> SUBSET Items]
    BY CarriedIs
  <1> HIDE DEF s, c
  <1>2. ASSUME NEW m \in Members, NEW i \in Items, Moves(m, i)
        PROVE  Placed(StoreNow', CarriedNow') /\ Placed(WrittenStore', WrittenBags')
    <2> DEFINE s2 == StoreNow'
               c2 == CarriedNow'
    <2>1. \/ /\ i \in c[m] /\ s2 = s \cup {i}
             /\ c2 = [c EXCEPT ![m] = c[m] \ {i}]
          \/ /\ i \in s /\ s2 = s \ {i}
             /\ c2 = [c EXCEPT ![m] = c[m] \cup {i}]
      BY <1>2 DEF Moves, s, c
    <2>2. Placed(s, c)
      BY DEF s, c
    <2> HIDE DEF s2, c2
    <2>3. Placed(s2, c2)
      BY <1>1, <2>1, <2>2, MovePlaced
    <2> QED BY <1>2, <2>3 DEF Moves, s2, c2
  <1> QED
    BY <1>2 DEF Effect, Same, Saves, Restores, Enters, Departs

LEMMA StepAccounted == IInv /\ Accounted /\ [Next]_vars => Accounted'
  <1> SUFFICES ASSUME IInv, Accounted, [Next]_vars, Calm' PROVE Accounted'
    BY DEF Accounted
  <1>1. Settled
    BY NeverCalmAgain DEF Accounted, Settled
  <1>2. Settled' /\ Effect
    BY <1>1, StepBooks
  <1>3. Placed(StoreNow', CarriedNow') /\ Placed(WrittenStore', WrittenBags')
    BY <1>1, <1>2, EffectPlaces DEF Accounted, Settled
  <1> QED BY <1>2, <1>3 DEF Accounted, Settled

LEMMA InitAccounted == Init => Accounted
  <1> SUFFICES ASSUME Init, Calm PROVE Accounted
    BY DEF Accounted
  <1>1. Settled /\ WrittenStore = Chest /\ WrittenBags = Backpack
        /\ StoreNow = Chest /\ CarriedNow = Backpack
    BY InitBooks
  <1>2. Placed(Chest, Backpack)
    BY ChestAssumption, OnceIsPlaced
  <1> QED BY <1>1, <1>2 DEF Accounted, Settled

LEMMA AllAccounted == Spec => [](IInv /\ Accounted)
  BY InitKeeps, StepKeeps, InitAccounted, StepAccounted, PTL DEF Spec

(* What the database will hold, once all that is under way is written, has *)
(* every item once, however members come and go, move items, wait for the  *)
(* storage, leave the guild, and however often the map-server crashes.     *)
THEOREM WrittenOnce == Spec => []DataSync
  <1>1. IInv /\ Accounted => DataSync
    BY OnceIsPlaced DEF Accounted, DataSync
  <1> QED BY <1>1, AllAccounted, PTL

(* No answer of the char-server brings back a storage that was changed     *)
(* since it was read: no item of the game is in two places or in none.     *)
THEOREM NothingIsCopied == Spec => []NothingCopied
  <1>1. IInv /\ Accounted => NothingCopied
    BY OnceIsPlaced DEF Accounted, NothingCopied
  <1> QED BY <1>1, AllAccounted, PTL

(* A closed storage that is not marked as changed is what is written.      *)
THEOREM CleanStorageIsSaved == Spec => []CleanIsSaved
  <1>1. IInv /\ Accounted => CleanIsSaved
    BY DEF Accounted, Books, InStep, CleanIsSaved
  <1> QED BY <1>1, AllAccounted, PTL

-----------------------------------------------------------------------------
(* The refinement of StorageLease: the place of an item is the one that    *)
(* has it.                                                                 *)
LEMMA PlaceOf ==
  ASSUME NEW store, NEW carried, Placed(store, carried), NEW i \in Items
  PROVE  /\ i \in store => Where(store, carried)[i] = Members
         /\ \A m \in Members : i \in carried[m] => /\ i \notin store
                                                   /\ Where(store, carried)[i] = m
         /\ i \notin store => \E m \in Members : i \in carried[m]
         /\ Where(store, carried)[i] \in Members \cup {Members}
  <1>1. CASE i \in store
    BY <1>1 DEF Where, Placed
  <1>2. CASE i \notin store
    <2>1. PICK n \in Members : {x \in Members : i \in carried[x]} = {n}
      BY <1>2 DEF Placed
    <2>2. /\ i \in carried[n] /\ \A m \in Members : i \in carried[m] => m = n
      BY <2>1
    <2>3. (CHOOSE m \in Members : i \in carried[m]) = n
      BY <2>2
    <2>4. Where(store, carried)[i] = n
      BY <1>2, <2>3 DEF Where
    <2> QED BY <1>2, <2>2, <2>4
  <1> QED BY <1>1, <1>2

(* Moving an item moves its place. *)
LEMMA MoveMapped ==
  ASSUME NEW store, NEW carried \in [Members -> SUBSET Items], Placed(store, carried),
         NEW m \in Members, NEW i \in Items, NEW s, NEW c, Placed(s, c),
         \/ /\ i \in carried[m] /\ s = store \cup {i}
            /\ c = [carried EXCEPT ![m] = carried[m] \ {i}]
         \/ /\ i \in store /\ s = store \ {i}
            /\ c = [carried EXCEPT ![m] = carried[m] \cup {i}]
  PROVE  \/ /\ Where(store, carried)[i] = m
            /\ Where(s, c) = [Where(store, carried) EXCEPT ![i] = Members]
         \/ /\ Where(store, carried)[i] = Members
            /\ Where(s, c) = [Where(store, carried) EXCEPT ![i] = m]
  <1> DEFINE w == Where(store, carried)
             v == Where(s, c)
  <1>1. w = [j \in Items |-> w[j]] /\ v = [j \in Items |-> v[j]]
    BY DEF Where
  <1>2. \A x \in Members : \A j \in Items \ {i} : j \in c[x] <=> j \in carried[x]
    OBVIOUS
  <1>3. \A j \in Items \ {i} : j \in s <=> j \in store
    OBVIOUS
  <1>4. ASSUME NEW j \in Items \ {i} PROVE v[j] = w[j]
    <2>1. CASE j \in store
      BY <1>3, <2>1, PlaceOf
    <2>2. CASE j \notin store
      <3>1. PICK x \in Members : j \in carried[x]
        BY <2>2, PlaceOf
      <3>2. w[j] = x
        BY <3>1, PlaceOf
      <3>3. j \in c[x]
        BY <1>2, <3>1
      <3>4. v[j] = x
        BY <3>3, PlaceOf
      <3> QED BY <3>2, <3>4
    <2> QED BY <2>1, <2>2
  <1> HIDE DEF w, v
  <1>5. CASE /\ i \in carried[m] /\ s = store \cup {i}
             /\ c = [carried EXCEPT ![m] = carried[m] \ {i}]
    <2>1. w[i] = m
      BY <1>5, PlaceOf DEF w
    <2>2. i \in s
      BY <1>5
    <2>3. v[i] = Members
      BY <2>2, PlaceOf DEF v
    <2>4. v = [w EXCEPT ![i] = Members]
      BY <1>1, <1>4, <2>3
    <2> QED BY <2>1, <2>4 DEF w, v
  <1>6. CASE /\ i \in store /\ s = store \ {i}
             /\ c = [carried EXCEPT ![m] = carried[m] \cup {i}]
    <2>1. w[i] = Members
      BY <1>6, PlaceOf DEF w
    <2>2. i \in c[m]
      BY <1>6
    <2>3. v[i] = m
      BY <2>2, PlaceOf DEF v
    <2>4. v = [w EXCEPT ![i] = m]
      BY <1>1, <1>4, <2>3
    <2> QED BY <2>1, <2>4 DEF w, v
  <1> QED BY <1>5, <1>6

(* What a step does with the items, the abstract storage does too. *)
LEMMA EffectMapped ==
  ASSUME Settled, Effect, Placed(StoreNow, CarriedNow), Placed(StoreNow', CarriedNow')
  PROVE  Lease!Next \/ UNCHANGED Lease!vars
  <1> DEFINE place == Where(StoreNow, CarriedNow)
             saved == Where(WrittenStore, WrittenBags)
  <1>1. CASE Same
    <2>1. place' = place /\ saved' = saved /\ using' = using
      BY <1>1 DEF Same, Where
    <2> QED BY <2>1 DEF Lease!vars
  <1>2. CASE Saves
    <2>1. saved' = place /\ place' = place /\ using' = using
      BY <1>2 DEF Saves, Where
    <2> QED BY <2>1 DEF Lease!Next, Lease!Save
  <1>3. CASE Restores
    <2>1. using' = {} /\ place' = saved /\ saved' = saved
      BY <1>3 DEF Restores, Where
    <2> QED BY <2>1 DEF Lease!Next, Lease!Crash
  <1>4. ASSUME NEW m \in Members, Enters(m) PROVE Lease!Enter(m)
    <2>1. using = {} /\ using' = {m} /\ place' = place /\ saved' = saved
      BY <1>4 DEF Enters, Where
    <2> QED BY <2>1 DEF Lease!Enter
  <1>5. ASSUME NEW m \in Members, Departs(m) PROVE Lease!Depart(m)
    <2>1. using = {m} /\ using' = {} /\ place' = place /\ saved' = place
      BY <1>5 DEF Departs, Where
    <2> QED BY <2>1 DEF Lease!Depart
  <1>6. ASSUME NEW m \in Members, NEW i \in Items, Moves(m, i) PROVE Lease!Move(m, i)
    <2> DEFINE s == StoreNow
               c == CarriedNow
               s2 == StoreNow'
               c2 == CarriedNow'
    <2>1. \/ /\ i \in c[m] /\ s2 = s \cup {i}
             /\ c2 = [c EXCEPT ![m] = c[m] \ {i}]
          \/ /\ i \in s /\ s2 = s \ {i}
             /\ c2 = [c EXCEPT ![m] = c[m] \cup {i}]
      BY <1>6 DEF Moves
    <2>2. c \in [Members -> SUBSET Items]
      BY CarriedIs
    <2>3. Placed(s, c) /\ Placed(s2, c2)
      OBVIOUS
    <2> HIDE DEF s, c, s2, c2
    <2>4. \/ /\ Where(s, c)[i] = m
             /\ Where(s2, c2) = [Where(s, c) EXCEPT ![i] = Members]
          \/ /\ Where(s, c)[i] = Members
             /\ Where(s2, c2) = [Where(s, c) EXCEPT ![i] = m]
      BY <2>1, <2>2, <2>3, MoveMapped
    <2>5. place = Where(s, c) /\ place' = Where(s2, c2)
      BY DEF s, c, s2, c2, Where
    <2>6. using = {m} /\ using' = using /\ saved' = saved
      BY <1>6 DEF Moves, Where
    <2> HIDE DEF place, saved
    <2>7. \/ place[i] = m /\ place' = [place EXCEPT ![i] = Members]
          \/ place[i] = Members /\ place' = [place EXCEPT ![i] = m]
      BY <2>4, <2>5
    <2> QED BY <2>6, <2>7 DEF Lease!Move, place, saved
  <1> QED BY <1>1, <1>2, <1>3, <1>4, <1>5, <1>6 DEF Effect, Lease!Next

(* Without the rare events the storage is used by one member at a time;    *)
(* every item is in one place; what is moved is safe once the user has     *)
(* left, and a crash brings back a moment at which all was saved together. *)
THEOREM LeaseRefinement == Spec => ImplementsLease
  <1>1. Init => (Calm => Lease!Init)
    <2> SUFFICES ASSUME Init, Calm PROVE Lease!Init
      OBVIOUS
    <2>1. Settled /\ WrittenStore = Chest /\ WrittenBags = Backpack
          /\ StoreNow = Chest /\ CarriedNow = Backpack /\ using = {}
      BY InitBooks
    <2>2. Placed(Chest, Backpack)
      BY ChestAssumption, OnceIsPlaced
    <2>3. Where(Chest, Backpack) \in [Items -> Members \cup {Members}]
      <3>1. \A i \in Items : Where(Chest, Backpack)[i] \in Members \cup {Members}
        BY <2>2, PlaceOf
      <3>2. Where(Chest, Backpack) = [i \in Items |-> Where(Chest, Backpack)[i]]
        BY DEF Where
      <3> QED BY <3>1, <3>2
    <2> QED BY <2>1, <2>3 DEF Lease!Init, Lease!Places
  <1>2. IInv /\ Accounted /\ [Next]_vars => [Calm => Lease!Next]_(Lease!vars)
    <2> SUFFICES ASSUME IInv, Accounted, [Next]_vars, Calm
                 PROVE  Lease!Next \/ UNCHANGED Lease!vars
      OBVIOUS
    <2>1. Settled /\ Placed(StoreNow, CarriedNow)
      BY DEF Accounted, Settled
    <2>2. Settled' /\ Effect /\ Accounted'
      BY <2>1, StepBooks, StepAccounted
    <2>3. Placed(StoreNow', CarriedNow')
      BY <2>2 DEF Accounted, Settled
    <2> QED BY <2>1, <2>2, <2>3, EffectMapped
  <1> QED BY <1>1, <1>2, AllAccounted, PTL DEF Spec, ImplementsLease
=============================================================================
