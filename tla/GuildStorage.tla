---------------------------- MODULE GuildStorage ----------------------------
(***************************************************************************)
(* The storage of one guild: storage.cpp on the map-server, int_storage.cpp *)
(* on the char-server, and the link between the two.  The map-server loads *)
(* the storage for the first member who opens it, keeps it in memory from  *)
(* then on, lets one member use it at a time and sends it back, with the   *)
(* inventory of that member, when it is closed.  Members enter and leave   *)
(* the game and the guild; scripts count and delete stored items; items    *)
(* bound to the guild are taken from members who leave it; the guild's     *)
(* skill makes the storage larger; the guild breaks; the link is lost and  *)
(* the map-server crashes.                                                 *)
(***************************************************************************)
EXTENDS Naturals, Sequences, FiniteSets

CONSTANTS Members,   \* members of the guild at first
          Items,     \* single items, each in one place
          Bound,     \* items bound to the guild
          Backpack,  \* Backpack[m]: what m carries at first
          Chest,     \* what the storage holds at first
          Slots,     \* slots per level of GD_GUILD_STORAGE
          MaxLevel,  \* highest level of that skill
          Events,    \* choices of the rare events a behaviour may see
          MaxSent    \* MaxSent[e]: bound on the packets that are under way

Rare == {"script", "bound", "levels", "link", "break"}

ASSUME ItemsAssumption == /\ Bound \subseteq Items /\ Chest \subseteq Items
                          /\ Backpack \in [Members -> SUBSET Items]
ASSUME MembersAssumption == IsFiniteSet(Members)
ASSUME SizesAssumption == {Slots, MaxLevel} \subseteq Nat /\ MaxLevel > 0
ASSUME EventsAssumption == Events \subseteq SUBSET Rare /\ MaxSent \in [Events -> Nat]

VARIABLES
  stor,    \* guild_storage_db: the storage in the map-server's memory
  using,   \* players whose state.storage_flag is 2
  inv,     \* inv[m]: inventory and cart of a player in the game
  online,  \* players in the game
  gid,     \* those whose status.guild_id is the guild
  member,  \* guild.member[] of the map-server
  known,   \* the map-server has the guild in guild_db
  level,   \* the skill's level there
  sqlInv, sqlStore,  \* what the database holds
  roster, sqlLevel,  \* the guild of the char-server; no member: no guild
  toChar, toMap,     \* the link, in order each way
  up,                \* the link is there
  events             \* the rare events of this behaviour

mapVars  == <<stor, using, inv, online, gid, member, known, level>>
charVars == <<sqlInv, sqlStore, roster, sqlLevel>>
vars == <<mapVars, charVars, toChar, toMap, up, events>>

Unloaded == [loaded |-> FALSE, items |-> {}, max |-> 0,
             status |-> FALSE, dirty |-> FALSE, lock |-> FALSE]
Storage == [loaded : BOOLEAN, items : SUBSET Items, max : 0 .. MaxLevel * Slots,
            status : BOOLEAN, dirty : BOOLEAN, lock : BOOLEAN]
Locked(items) == IF "bound" \in events THEN items \cap Bound ELSE {}

(* Packets to the char-server: inventory and storage to save, storage to   *)
(* load, bound items to take from a member who is not in the game.         *)
SaveInv(m, is) == [kind |-> "inventory", who |-> m, items |-> is]
SaveStore(is)  == [kind |-> "store", items |-> is]
Load(m)        == [kind |-> "load", who |-> m]
Retrieve(m)    == [kind |-> "retrieve", who |-> m]
ToChar == [kind : {"inventory"}, who : Members, items : SUBSET Items]
          \cup [kind : {"store"}, items : SUBSET Items]
          \cup [kind : {"load", "retrieve"}, who : Members]

(* Packets to the map-server.                                              *)
Loaded(m, is, n) == [kind |-> "loaded", who |-> m, items |-> is, max |-> n]
Saved        == [kind |-> "saved"]
RetrieveDone == [kind |-> "unlock"]
Retrieved(is) == [kind |-> "retrieved", items |-> is]
Info(n)      == [kind |-> "info", level |-> n]
Withdraw(m)  == [kind |-> "withdraw", who |-> m]
Broken       == [kind |-> "broken"]
ToMap == [kind : {"loaded"}, who : Members, items : SUBSET Items, max : 0 .. MaxLevel * Slots]
         \cup [kind : {"retrieved"}, items : SUBSET Items]
         \cup [kind : {"info"}, level : 0 .. MaxLevel]
         \cup [kind : {"withdraw"}, who : Members]
         \cup {Saved, RetrieveDone, Broken}

TypeOK ==
  /\ stor \in Storage
  /\ {using, online, gid, member, roster} \subseteq SUBSET Members
  /\ {inv, sqlInv} \subseteq [Members -> SUBSET Items]
  /\ sqlStore \in SUBSET Items
  /\ {level, sqlLevel} \subseteq 0 .. MaxLevel
  /\ {known, up} \subseteq BOOLEAN
  /\ toChar \in Seq(ToChar)
  /\ toMap \in Seq(ToMap)
  /\ events \in Events

Init ==
  /\ stor = Unloaded
  /\ using = {} /\ online = {} /\ gid = {} /\ member = {}
  /\ inv = [m \in Members |-> {}]
  /\ known = FALSE /\ level = 0
  /\ sqlInv = Backpack /\ sqlStore = Chest
  /\ roster = Members /\ sqlLevel = 1
  /\ toChar = <<>> /\ toMap = <<>>
  /\ up = TRUE
  /\ events \in Events

Send(packets) == toChar' = IF up THEN toChar \o packets ELSE toChar
Answer(packets) == toMap' = IF up THEN toMap \o packets ELSE toMap
Room == Len(toChar) + Len(toMap) < MaxSent[events]

-----------------------------------------------------------------------------
(* What a handler makes of the storage, of its users and of the packets.   *)
Now == [stor |-> stor, using |-> using, sent |-> <<>>]
Keep(w) == stor' = w.stor /\ using' = w.using /\ Send(w.sent)

(* Mutant: the inventory of the player who closes is not saved *)
SavingStoreOnly(w, m) == IF m \in w.using /\ w.stor.dirty
                         THEN <<SaveStore(w.stor.items)>> ELSE <<>>

(* chrif_save with inventory and cart: the storage goes along if the       *)
(* player has it open and it was changed.                                  *)
Saving(w, m) == <<SaveInv(m, inv[m])>>
                \o IF m \in w.using /\ w.stor.dirty
                   THEN <<SaveStore(w.stor.items)>> ELSE <<>>

(* Mutant: closing saves nothing *)
CloseUnsaved(w, m) ==
  IF ~w.stor.loaded THEN w
  ELSE [stor |-> [w.stor EXCEPT !.status = FALSE], using |-> w.using \ {m}, sent |-> w.sent]

(* storage_guild_storageclose *)
Close(w, m) ==
  IF ~w.stor.loaded THEN w
  ELSE [stor |-> [w.stor EXCEPT !.status = FALSE], using |-> w.using \ {m},
        sent |-> w.sent \o IF w.stor.status THEN Saving(w, m) ELSE <<>>]

(* Whoever uses the storage is made to close it, in the order of the       *)
(* guild's list: the first one saves it.                                   *)
Cleared(w) ==
  LET users == w.using \cap member
  IN  IF w.stor.status /\ users # {}
      THEN {[Close(w, first) EXCEPT !.using = @ \ member] : first \in users}
      ELSE {w}

(* guild2storage *)
Created(s) == IF known THEN [s EXCEPT !.loaded = TRUE] ELSE s

Free(s) == Cardinality(s.items) < s.max

(* What of items still finds a slot.                                       *)
Fitting(s, items) == {kept \in SUBSET items :
                        /\ Cardinality(s.items \cup kept) <= s.max \/ kept = {}
                        /\ kept # items => Cardinality(s.items \cup kept) >= s.max}

-----------------------------------------------------------------------------
(* What the database holds once all that is under way is written.          *)
LastSave(m) == LET at == {i \in 1 .. Len(toChar) : /\ toChar[i].kind = "inventory"
                                                   /\ toChar[i].who = m}
               IN  IF at = {} THEN 0 ELSE CHOOSE i \in at : \A j \in at : j <= i
WrittenInv(m) == LET last == LastSave(m)
                     kept == IF last = 0 THEN sqlInv[m] ELSE toChar[last].items
                 IN  IF \E i \in last + 1 .. Len(toChar) : toChar[i] = Retrieve(m)
                     THEN kept \ Locked(Items) ELSE kept
WrittenStore == LET at == {i \in 1 .. Len(toChar) : toChar[i].kind = "store"}
                IN  IF at = {} \/ roster = {} THEN sqlStore
                    ELSE toChar[CHOOSE i \in at : \A j \in at : j <= i].items

(* A character enters the game: its inventory is loaded over the same      *)
(* link, after everything sent before; the map-server asks for the guild   *)
(* if it does not have it.                                                 *)
Login(m) ==
  /\ m \notin online /\ up
  /\ online' = online \cup {m}
  /\ inv' = [inv EXCEPT ![m] = WrittenInv(m)]
  /\ IF m \in roster
     THEN /\ gid' = gid \cup {m} /\ known' = TRUE
          /\ member' = IF known THEN member \cup {m} ELSE roster
          /\ level' = IF known THEN level ELSE sqlLevel
     ELSE UNCHANGED <<gid, known, member, level>>
  /\ UNCHANGED <<stor, using, charVars, toChar, toMap, up, events>>

(* Mutant: leaving the game only resets the flag of the player *)
QuitFlagOnly(m) ==
  /\ m \in online /\ up /\ Room
  /\ online' = online \ {m} /\ gid' = gid \ {m}
  /\ inv' = [inv EXCEPT ![m] = {}]
  /\ Keep([Now EXCEPT !.using = @ \ {m}, !.sent = <<SaveInv(m, inv[m])>>])
  /\ UNCHANGED <<member, known, level, charVars, toMap, up, events>>

(* map_quit, with the link there: the storage is closed and saved if this  *)
(* player used it (storage_guild_storage_quit), and the inventory is saved.*)
Quit(m) ==
  /\ m \in online /\ up /\ Room
  /\ online' = online \ {m} /\ gid' = gid \ {m}
  /\ inv' = [inv EXCEPT ![m] = {}]
  /\ Keep(IF m \in using
          THEN [stor |-> [stor EXCEPT !.status = FALSE], using |-> using \ {m},
                sent |-> IF stor.status THEN Saving(Now, m)
                         ELSE <<SaveInv(m, inv[m])>>]
          ELSE [Now EXCEPT !.sent = <<SaveInv(m, inv[m])>>])
  /\ UNCHANGED <<member, known, level, charVars, toMap, up, events>>

(* pc_autosave *)
Autosave(m) ==
  /\ m \in online /\ Room
  /\ Send(Saving(Now, m))
  /\ UNCHANGED <<mapVars, charVars, toMap, up, events>>

-----------------------------------------------------------------------------
(* storage_guild_storageopen: refused without the skill; asks for the      *)
(* storage if it is not in memory or has not the size the skill gives it;  *)
(* refused while it is used or locked.                                     *)
Current(s) == s.loaded /\ s.max = level * Slots
Allowed(m) == m \in gid \ using /\ level > 0
(* Mutant: a storage that is in use can be opened *)
OpenNowInUse(s, m) ==
  IF Allowed(m) /\ Current(s) /\ ~s.lock
  THEN [stor |-> [s EXCEPT !.status = TRUE], using |-> using \cup {m}, sent |-> <<>>]
  ELSE [stor |-> s, using |-> using,
        sent |-> IF Allowed(m) /\ ~Current(s) THEN <<Load(m)>> ELSE <<>>]

OpenNow(s, m) ==
  IF Allowed(m) /\ Current(s) /\ ~s.status /\ ~s.lock
  THEN [stor |-> [s EXCEPT !.status = TRUE], using |-> using \cup {m}, sent |-> <<>>]
  ELSE [stor |-> s, using |-> using,
        sent |-> IF Allowed(m) /\ ~Current(s) THEN <<Load(m)>> ELSE <<>>]

Open(m) ==
  /\ m \in gid \ using /\ Room
  /\ Keep(OpenNow(stor, m))
  /\ UNCHANGED <<inv, online, gid, member, known, level, charVars, toMap, up, events>>

(* Items move between the storage and its user, from and to the inventory  *)
(* or the cart; only the inventory's handlers look at the lock.            *)
Deposit(m, i, cart) ==
  /\ m \in using /\ stor.loaded /\ stor.status /\ i \in inv[m] /\ Room
  /\ IF stor.lock /\ ~cart
     THEN Keep(Close(Now, m)) /\ UNCHANGED inv
     ELSE /\ Free(stor)
          /\ stor' = [stor EXCEPT !.items = @ \cup {i}, !.dirty = TRUE]
          /\ inv' = [inv EXCEPT ![m] = @ \ {i}]
          /\ UNCHANGED <<using, toChar>>
  /\ UNCHANGED <<online, gid, member, known, level, charVars, toMap, up, events>>

Take(m, i, cart) ==
  /\ m \in using /\ stor.loaded /\ stor.status /\ i \in stor.items /\ Room
  /\ IF stor.lock /\ ~cart
     THEN Keep(Close(Now, m)) /\ UNCHANGED inv
     ELSE /\ stor' = [stor EXCEPT !.items = @ \ {i}, !.dirty = TRUE]
          /\ inv' = [inv EXCEPT ![m] = @ \cup {i}]
          /\ UNCHANGED <<using, toChar>>
  /\ UNCHANGED <<online, gid, member, known, level, charVars, toMap, up, events>>

(* clif_parse_CloseKafra                                                   *)
CloseStorage(m) ==
  /\ m \in using /\ Room
  /\ Keep(Close(Now, m))
  /\ UNCHANGED <<inv, online, gid, member, known, level, charVars, toMap, up, events>>

(* guildstoragecountitem and guildstoragedelitem, run for a player who has *)
(* no storage open, close the guild storage whoever uses it.               *)
ScriptCount(m) ==
  /\ "script" \in events /\ m \in gid \ using /\ Room
  /\ Keep(Close([Now EXCEPT !.stor = Created(stor)], m))
  /\ UNCHANGED <<inv, online, gid, member, known, level, charVars, toMap, up, events>>

ScriptDelete(m, i) ==
  /\ "script" \in events /\ m \in gid \ using /\ i \in stor.items /\ Room
  /\ Keep(Close([Now EXCEPT !.stor.items = @ \ {i}, !.stor.dirty = TRUE], m))
  /\ UNCHANGED <<inv, online, gid, member, known, level, charVars, toMap, up, events>>

-----------------------------------------------------------------------------
(* What the map-server makes of a packet.                                  *)
Head0 == Head(toMap)
Next0 == toMap # <<>> /\ toMap' = Tail(toMap) /\ UNCHANGED <<charVars, up, events>>

(* Mutant: changes that are not saved do not matter *)
ReceiveStorageOver ==
  LET m == Head0.who
      s == Created(stor)
      fresh == [Unloaded EXCEPT !.loaded = TRUE, !.items = Head0.items, !.max = Head0.max]
  IN  /\ Next0 /\ Head0.kind = "loaded"
      /\ Keep(IF m \notin online \/ ~known THEN Now
              ELSE IF s.status THEN [Now EXCEPT !.stor = s]
              ELSE OpenNow(fresh, m))
      /\ UNCHANGED <<inv, online, gid, member, known, level>>

(* intif_parse_LoadGuildStorage: ignored if the player is gone, and if the *)
(* storage is open or was changed and not saved; otherwise everything is   *)
(* overwritten, and the storage is opened for the player.                  *)
ReceiveStorage ==
  LET m == Head0.who
      s == Created(stor)
      fresh == [Unloaded EXCEPT !.loaded = TRUE, !.items = Head0.items, !.max = Head0.max]
  IN  /\ Next0 /\ Head0.kind = "loaded"
      /\ Keep(IF m \notin online \/ ~known THEN Now
              ELSE IF s.status \/ s.dirty THEN [Now EXCEPT !.stor = s]
              ELSE OpenNow(fresh, m))
      /\ UNCHANGED <<inv, online, gid, member, known, level>>

(* Mutant: a storage that is open again is clean, too *)
ReceiveSavedOpen ==
  /\ Next0 /\ Head0 = Saved
  /\ stor' = [stor EXCEPT !.dirty = FALSE]
  /\ UNCHANGED <<using, inv, online, gid, member, known, level, toChar>>

(* storage_guild_storagesaved: the storage is clean once it is closed.     *)
ReceiveSaved ==
  /\ Next0 /\ Head0 = Saved
  /\ stor' = [stor EXCEPT !.dirty = @ /\ stor.status]
  /\ UNCHANGED <<using, inv, online, gid, member, known, level, toChar>>

(* intif_parse_itembound_ack                                               *)
ReceiveUnlock ==
  /\ Next0 /\ Head0 = RetrieveDone
  /\ stor' = [stor EXCEPT !.lock = FALSE]
  /\ UNCHANGED <<using, inv, online, gid, member, known, level, toChar>>

(* intif_parse_itembound_store2gstorage: what finds no slot is dropped.    *)
ReceiveRetrieved ==
  /\ Next0 /\ Head0.kind = "retrieved"
  /\ IF ~known THEN UNCHANGED stor
     ELSE \E kept \in Fitting(Created(stor), Head0.items) :
            stor' = [Created(stor) EXCEPT !.items = @ \cup kept, !.lock = FALSE,
                       !.status = FALSE, !.dirty = @ \/ kept # {}]
  /\ UNCHANGED <<using, inv, online, gid, member, known, level, toChar>>

(* guild_recv_info                                                         *)
ReceiveInfo ==
  /\ Next0 /\ Head0.kind = "info"
  /\ level' = IF known THEN Head0.level ELSE level
  /\ UNCHANGED <<stor, using, inv, online, gid, member, known, toChar>>

(* guild_broken: the inventories of the storage's users are saved          *)
(* (storage_guild_storage_quit with flag 1; the storage that goes along is *)
(* refused, the guild being gone), and the storage is forgotten.           *)
Orders(S) == {q \in [1 .. Cardinality(S) -> S] : \A x \in S : \E i \in DOMAIN q : q[i] = x}

(* Mutant: the storage is forgotten while it is open *)
ReceiveBrokenOpen ==
  /\ Next0 /\ Head0 = Broken
  /\ IF known
     THEN /\ stor' = Unloaded /\ gid' = gid \ member
          /\ known' = FALSE /\ member' = {} /\ level' = 0
     ELSE UNCHANGED <<stor, gid, known, member, level>>
  /\ UNCHANGED <<inv, online, using, toChar>>

ReceiveBroken ==
  /\ Next0 /\ Head0 = Broken
  /\ IF known
     THEN /\ \E q \in Orders(using \cap member) :
               Send([i \in DOMAIN q |-> SaveInv(q[i], inv[q[i]])])
          /\ stor' = Unloaded /\ using' = using \ member /\ gid' = gid \ member
          /\ known' = FALSE /\ member' = {} /\ level' = 0
     ELSE UNCHANGED <<stor, using, gid, known, member, level, toChar>>
  /\ UNCHANGED <<inv, online>>

(* guild_retrieveitembound.  In the game: the storage's users are made to  *)
(* close it and the bound items are put into it and taken from the player. *)
(* Not in the game: the char-server is asked, and the storage locked.      *)
Stored(w, kept) == [w EXCEPT !.stor.items = @ \cup kept, !.stor.dirty = @ \/ kept # {}]
BoundOf(m) == inv[m] \cap Locked(Items)
StorageOf(m) == IF m \in gid THEN Created(stor) ELSE Unloaded
Retrieval(m, w, kept) ==
  [w |-> IF m \in gid THEN Close(Stored(w, kept), m) ELSE Now,
   inv |-> [inv EXCEPT ![m] = @ \ BoundOf(m)]]
RetrieveOnline(m) ==
  IF BoundOf(m) = {} THEN {[w |-> Now, inv |-> inv]}
  ELSE {Retrieval(m, w, kept) : w \in Cleared([Now EXCEPT !.stor = StorageOf(m)]),
                                kept \in Fitting(StorageOf(m), BoundOf(m))}
RetrieveOffline(m) ==
  {[w |-> [c EXCEPT !.sent = Append(@, Retrieve(m)),
                    !.stor.lock = c.stor.loaded /\ (@ \/ up)], inv |-> inv] :
     c \in Cleared(Now)}

(* guild_member_withdraw: nothing more if no member is in the game.        *)
ReceiveWithdraw ==
  LET m == Head0.who
  IN  /\ Next0 /\ Head0.kind = "withdraw"
      /\ IF known /\ m \in member
         THEN \E r \in IF m \in online THEN RetrieveOnline(m) ELSE RetrieveOffline(m) :
                /\ inv' = r.inv
                /\ Keep(IF m \in gid /\ m \in r.w.using THEN Close(r.w, m) ELSE r.w)
                /\ member' = IF online \cap member = {} THEN member ELSE member \ {m}
                /\ gid' = gid \ {m}
         ELSE UNCHANGED <<inv, stor, using, toChar, member, gid>>
      /\ UNCHANGED <<online, known, level>>

-----------------------------------------------------------------------------
(* The char-server: int_storage.cpp and the guild's life in int_guild.cpp. *)
(* A save is acknowledged whether or not the guild is still there.         *)
CharSave ==
  /\ toChar # <<>> /\ toChar' = Tail(toChar)
  /\ LET p == Head(toChar)
     IN  \/ /\ p.kind = "inventory"
            /\ sqlInv' = [sqlInv EXCEPT ![p.who] = p.items]
            /\ UNCHANGED <<sqlStore, toMap>>
         \/ /\ p.kind = "store"
            /\ sqlStore' = IF roster = {} THEN sqlStore ELSE p.items
            /\ Answer(<<Saved>>)
            /\ UNCHANGED sqlInv
  /\ UNCHANGED <<mapVars, roster, sqlLevel, up, events>>

CharLoad ==
  /\ toChar # <<>> /\ toChar' = Tail(toChar)
  /\ LET p == Head(toChar)
     IN  /\ p.kind = "load"
         /\ Answer(IF roster = {} THEN <<>>
                   ELSE <<Loaded(p.who, sqlStore, sqlLevel * Slots)>>)
  /\ UNCHANGED <<mapVars, charVars, up, events>>

(* Mutant: no answer if there was nothing to retrieve *)
CharRetrieveSilent ==
  /\ toChar # <<>> /\ toChar' = Tail(toChar)
  /\ LET p == Head(toChar)
         taken == sqlInv[p.who] \cap Locked(Items)
     IN  /\ p.kind = "retrieve"
         /\ sqlInv' = [sqlInv EXCEPT ![p.who] = @ \ taken]
         /\ Answer(IF taken = {} THEN <<>> ELSE <<Retrieved(taken)>>)
  /\ UNCHANGED <<mapVars, sqlStore, roster, sqlLevel, up, events>>

CharRetrieve ==
  /\ toChar # <<>> /\ toChar' = Tail(toChar)
  /\ LET p == Head(toChar)
         taken == sqlInv[p.who] \cap Locked(Items)
     IN  /\ p.kind = "retrieve"
         /\ sqlInv' = [sqlInv EXCEPT ![p.who] = @ \ taken]
         /\ Answer(<<IF taken = {} THEN RetrieveDone ELSE Retrieved(taken)>>)
  /\ UNCHANGED <<mapVars, sqlStore, roster, sqlLevel, up, events>>

(* Mutant: the skill's highest level is not looked at *)
SkillUpPastMax ==
  /\ "levels" \in events /\ roster # {} /\ sqlLevel < MaxLevel + 1 /\ Room
  /\ sqlLevel' = sqlLevel + 1
  /\ Answer(<<Info(sqlLevel')>>)
  /\ UNCHANGED <<mapVars, sqlInv, sqlStore, roster, toChar, up, events>>

(* mapif_parse_GuildSkillUp, mapif_parse_GuildLeave, mapif_parse_BreakGuild *)
SkillUp ==
  /\ "levels" \in events /\ roster # {} /\ sqlLevel < MaxLevel /\ Room
  /\ sqlLevel' = sqlLevel + 1
  /\ Answer(<<Info(sqlLevel')>>)
  /\ UNCHANGED <<mapVars, sqlInv, sqlStore, roster, toChar, up, events>>

Leave(m) ==
  /\ m \in roster /\ Room
  /\ roster # {m} \/ "break" \in events
  /\ roster' = roster \ {m}
  /\ Answer(<<Withdraw(m)>> \o IF roster' = {} THEN <<Broken>> ELSE <<>>)
  /\ sqlStore' = IF roster' = {} THEN {} ELSE sqlStore
  /\ UNCHANGED <<mapVars, sqlInv, sqlLevel, toChar, up, events>>

Break ==
  /\ "break" \in events /\ roster # {} /\ Room
  /\ roster' = {} /\ sqlStore' = {}
  /\ Answer(<<Broken>>)
  /\ UNCHANGED <<mapVars, sqlInv, sqlLevel, toChar, up, events>>

-----------------------------------------------------------------------------
(* The link is lost with all that is under way; when it is back, a storage *)
(* that was changed and is closed is sent again (do_reconnect_storage).    *)
LoseLink ==
  /\ "link" \in events /\ up
  /\ up' = FALSE /\ toChar' = <<>> /\ toMap' = <<>>
  /\ UNCHANGED <<mapVars, charVars, events>>

Reconnect ==
  /\ ~up /\ up' = TRUE
  /\ toChar' = IF stor.loaded /\ stor.dirty /\ ~stor.status
               THEN <<SaveStore(stor.items)>> ELSE <<>>
  /\ UNCHANGED <<mapVars, charVars, toMap, events>>

(* The map-server crashes and is started again: what it handed to the      *)
(* network is still written, the answers are lost.                         *)
Crash ==
  /\ sqlInv' = [m \in Members |-> WrittenInv(m)] /\ sqlStore' = WrittenStore
  /\ stor' = Unloaded /\ using' = {} /\ online' = {} /\ gid' = {} /\ member' = {}
  /\ inv' = [m \in Members |-> {}]
  /\ known' = FALSE /\ level' = 0
  /\ toChar' = <<>> /\ toMap' = <<>> /\ up' = TRUE
  /\ UNCHANGED <<roster, sqlLevel, events>>

Receive == \/ ReceiveStorage \/ ReceiveSaved \/ ReceiveUnlock \/ ReceiveRetrieved
           \/ ReceiveInfo \/ ReceiveWithdraw \/ ReceiveBroken
CharReceive == CharSave \/ CharLoad \/ CharRetrieve
Next ==
  \/ \E m \in Members :
       \/ Login(m) \/ Quit(m) \/ Autosave(m) \/ Open(m) \/ CloseStorage(m) \/ Leave(m)
       \/ ScriptCount(m)
       \/ \E i \in Items : \/ \E cart \in BOOLEAN : Deposit(m, i, cart) \/ Take(m, i, cart)
                           \/ ScriptDelete(m, i)
  \/ Receive \/ CharReceive \/ SkillUp \/ Break
  \/ LoseLink \/ Reconnect \/ Crash

(* Both servers handle what they receive.                                  *)
Spec == Init /\ [][Next]_vars /\ WF_vars(Receive) /\ WF_vars(CharReceive)

-----------------------------------------------------------------------------
Calm == events = {}
StoreNow == IF stor.loaded THEN stor.items ELSE WrittenStore
CarriedNow == [m \in Members |-> IF m \in online THEN inv[m] ELSE WrittenInv(m)]
WrittenBags == [m \in Members |-> WrittenInv(m)]
EachOnce(store, carried) ==
  \A i \in Items : Cardinality({m \in Members : i \in carried[m]})
                  + (IF i \in store THEN 1 ELSE 0) = 1
(* Every item is in one place at first.                                    *)
ASSUME ChestAssumption == EachOnce(Chest, Backpack)

(* Whoever has the storage open is in the game and in the guild, and the   *)
(* storage is in memory: no handler of an open storage finds none.         *)
UsersBelong == using \subseteq gid /\ (using # {} => stor.loaded)

(* A storage that is marked open is open for somebody, who can close it:   *)
(* no leave, expulsion, break or answer leaves it open for nobody, which   *)
(* would keep the guild out of it until the map-server restarts.  Nor is   *)
(* it open while it is locked: "If locked, can't use storage when item     *)
(* bound retrieval" (mmo.hpp:389).                                         *)
OpenForSomebody == stor.status => using # {} /\ ~stor.lock

(* One member at a time uses the storage, however many wait for it while   *)
(* it is loaded, unless scripts or retrievals close it for its user.       *)
OneUser == events \cap {"script", "bound"} = {} => Cardinality(using) <= 1

(* "For data sync" (chrif_save): what will be in the database if the       *)
(* map-server stops now has every item once, wherever it was moved.        *)
DataSync == Calm => EachOnce(WrittenStore, WrittenBags)

(* No item of the game is in two places or in none: no answer of the       *)
(* char-server brings back a storage that was changed since.               *)
NothingCopied == Calm => EachOnce(StoreNow, CarriedNow)

(* "Storage has been correctly saved" (storage_guild_storagesaved): a      *)
(* closed storage that is not marked as changed is in the database, or on  *)
(* its way to it.                                                          *)
CleanIsSaved == Calm /\ stor.loaded /\ ~stor.dirty /\ ~stor.status
                  => stor.items = WrittenStore

(* A storage that comes in never replaces one that was changed since it    *)
(* was read: "Already have storage, and it has been modified and not saved *)
(* yet! Exploit!" (intif_parse_LoadGuildStorage).                          *)
NeverOutdated ==
  [][ReceiveStorage => stor'.items = StoreNow \/ ~stor.loaded]_vars

(* A retrieval ends, and the storage can be used again.                    *)
Unlocked == (stor.lock /\ "link" \notin events) ~> ~stor.lock

(* Without the rare events the storage is what its members are promised.   *)
Where(store, carried) ==
  [i \in Items |-> IF i \in store THEN Members
                   ELSE CHOOSE m \in Members : i \in carried[m]]
Lease == INSTANCE StorageLease WITH
           Chest <- Members, user <- using,
           place <- Where(StoreNow, CarriedNow), saved <- Where(WrittenStore, WrittenBags)
ImplementsLease == /\ Calm => Lease!Init
                   /\ [][Calm => Lease!Next]_(Lease!vars)
=============================================================================
