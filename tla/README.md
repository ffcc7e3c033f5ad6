# A TLA+ model of the ragnarok servers

The repository is a Ragnarok Online server emulator, a branch of rAthena: three
single-threaded C++ programs that talk over TCP. This directory models how an
account goes through them: how it is logged in, handed from one program to the
next, kicked, saved and forgotten; and what players do with each other: trade,
sell and buy, share a guild's storage, form parties. Two actors that act at once, a packet
that is overtaken by another one, a timer that fires between a question and its
answer: these are what loses a character's progress, copies an item or lets an account into the game
twice, and what no test of one program reaches.

Paths below are those of the repository.

## The system

    client ──► login-server ◄──► char-server ◄──► map-server (several)
                 tickets           auth nodes         auth nodes
                 online_db         online_char_db     players in the game
                 timers            saved characters   client connections

| component | state | operations | correct when |
|---|---|---|---|
| **login-server** `src/src/login/login.cpp`, `loginclif.cpp`, `loginchrif.cpp` | `auth_db` (tickets), `online_db` with a timer per entry, `ch_server[]` | end of a login, redeem a ticket, set online and offline, deadline, lost link | a ticket is used once; no account stays half logged in; a refused login is not refused for ever |
| **char-server, clients** `src/src/char/char_clif.cpp` | `session[]`, `online_char_db`, `auth_db` | present a ticket, select a character, leave | one connection per account; the account is not set offline while it plays |
| **char-server, map-servers** `src/src/char/char_mapif.cpp`, `char.cpp` | the same tables, the `char` SQL table, `map_server[]` | authorise a player, save, back to character selection, change of map-server, set offline, kicks and two timers | at most one map-server plays an account; saved data never goes back |
| **map-server, login and logout** `src/src/map/chrif.cpp`, parts of `clif.cpp`, `map.cpp`, `pc.cpp`, `intif.cpp` | `auth_db` with the states login, logout and map change; `id_db`/`pc_db`; `session[]` | connect, authorised, refused, registries, quit, delayed quit, restart, move away, save, cleanup | a player is in the game or between servers, never both; it plays on its newest data; nothing it gained is lost |
| **trade** `src/src/map/trade.cpp` | `trade_partner`, `deal`, `state.trading`, `state.deal_locked` of two players | request, answer, add item or zeny, lock, cancel, commit | items and zeny are conserved; what is exchanged is what both saw |
| **guild storage** `src/src/map/storage.cpp`, `src/src/char/int_storage.cpp`, parts of both `guild.cpp` and `int_guild.cpp` | `guild_storage_db` with status, lock, dirty; `storage_flag`; inventories; the SQL tables | open, load, add, get, save, acknowledge, close, retrieve bound items, leave, break, reconnect | one member at a time; no item twice or gone; a clean storage is stored; a lock ends |
| **vending, buying stores** `src/src/map/vending.cpp`, `buyingstore.cpp`, parts of `pc.cpp` and `intif.cpp` | the owner's list, limit and cart, the visitor's zeny, weight and slots | set up, open, look, buy, sell, close, save | conservation; who pays gets what it saw for what it saw; the limit holds |
| **parties** `src/src/map/party.cpp`, `src/src/char/int_party.cpp` | the inter-server's table and its copies on map-servers | create, invite, join, leave, expel, change leader and option, login, logout, move, level | copies agree when no packet is in flight; one party per player; even share within the level range that is kept |
| **guilds, clans** `src/src/map/guild.cpp`, `clan.cpp`, `src/src/char/int_guild.cpp` | as parties, with alliances, positions, skills and castles | | as parties |
| **duels, chat rooms, channels** `src/src/map/duel.cpp`, `chat.cpp`, `channel.cpp` | small tables of members | create, join, leave | no member of two, none empty |
| **timers, sockets** `src/src/common/timer.cpp`, `socket.cpp`, `core.cpp` | a heap of ticks; buffers and `flag.eof` per connection | add, delete, run; receive, parse, send, close | a deleted timer does not fire; packets in order |
| **content** scripts, NPCs, monsters, status, skills, battle | data files and an interpreter | | not a model checker's subject |

How they interact. Each program runs `do_timer`, then `do_sockets`, in one loop
(`src/src/common/core.cpp:409-413`): a handler runs to its end before the next
one starts, so the handler is the atomic step everywhere in this model. Between
programs there are only packets on TCP links, in order per link, with nothing to
order the links of two map-servers. Answers are matched by account, character
and ticket, never by request number, so an answer may meet a state other than
the one that asked. A client holds what it was last told (ticket, character,
where to go) and may close its connection, reconnect or open a second one.

What is hard: a second login while the first one plays, leaves or is being
moved; kicks that cross moves; final saves that cross loads; cleanup timers that
run on entries whose owner is only slow; links that break. `PROJECT.json` lists
each such place as a hazard, at its line, with the property that watches it or
the reason there is none.

## Modules

| module | models |
|---|---|
| `LoginLink` | links between the login-server and its char-servers, packets |
| `LoginServer` | `login.cpp`, `loginclif.cpp`, `loginchrif.cpp`: tickets, online table, deadlines |
| `TicketOffice` | abstract: tickets are issued in order, one is open per account, an open one is redeemed once |
| `LoginSystem` | the login-server with char-servers that send anything, and links that break |
| `MapLink` | links between the char-server and its map-servers, which may break, and what a client was told |
| `CharServer` | `char.cpp`, `char_clif.cpp`, `char_logif.cpp`, `char_mapif.cpp`: admission, hand-over, saved data |
| `MapServer` | `chrif.cpp` and the places of `clif.cpp`, `map.cpp`, `pc.cpp`, `intif.cpp` that create, use and free auth nodes |
| `Session` | all three programs composed; the properties of an account's whole way |
| `Trade` | `trade.cpp` with the parts of `pc.cpp`, `battle.cpp` and `unit.cpp` that change what traders own or whether they are there |
| `GuildStorage` | the guild storage on both servers and the link between them |
| `StorageLease` | abstract: one user at a time moves items in and out of a chest, and what it did is saved before the next one |
| `Shops` | `vending.cpp` and `buyingstore.cpp` with the cart and its saves |
| `Party` | `party.cpp` on several map-servers and `int_party.cpp`, with the logins and logouts that concern parties |
| `MCLoginSystem`, `MCSession`, `MCTrade`, `MCGuildStorage` | instances for TLC |
| `MCMapParts` | the instance of `Party` and `Shops`; a behaviour is about one of them |
| `LoginSystem_proofs`, `Session_proofs`, `Trade_proofs`, `GuildStorage_proofs`, `Shops_proofs`, `Party_proofs` | theorems about the modules they are named after |
| `PartyCopies_proofs` | theorems about `Party` that follow its messages: the copies, the count, the level range and the answers |
| `FoldTheorems` | theorems about folds, for the others |

Definitions carry the name of the function they model. Some choices need a word:

* A **ticket** is the pair `login_id1`, `login_id2` drawn at random for a login;
  tickets are numbered in the order of issue. That two random pairs are equal is
  left out.
* A **character's data** is a version: `Progress` makes the next one, whatever it
  was (loot, experience, a trade), and `best` remembers the highest one. Two
  questions matter: is a version older, and is it the newest. `place` is the map-server of
  `last_point`. The char-server's cache and its SQL table are one.
* **Version -1** is the zeroed status of a player nothing was loaded into.
* An account's **connection** to a server is a record with `eof`, set by the
  client or by `set_eof`, and served later by the parse function, as in
  `socket.cpp`. In between the handlers still see the session.
* `sd` of a map-server's connection: `session_data` still points to the player's
  data. `chrif_auth_delete` clears it; the branch of `clif_parse` on `eof`
  depends on it.
* **`clif_quitsave`** depends on whether the player fought in the last 10 s; the
  model takes both ways.
* **Byte 13** of the save packet is where the status starts, so
  `RFIFOB(fd,13)` is the low byte of the character's id. `ZeroByteChars` says
  whose is zero.
* The three **registry packets** are one.
* In `Trade` an item is a **kind**: `pc_additem` stacks equal kinds, and `Name[k]`
  is what `trade_check` compares, the id and the cards without the binding. Items
  that may not be traded, equipped items, distance and the reports on hacks are left
  out: they only keep an item out of a deal or a request from being made.
* A client shows the **TRADE button** when both deals are locked (`HasButton`); the
  server tests the lock of the one who presses it.
* `Asking` are the players who can **ask for a trade during one**: those in a chat
  room, which they may have entered since (`clif_parse_TradeRequest`,
  `src/src/map/clif.cpp:11985`, lets them; `chat.cpp` does not look at trades).
* In `GuildStorage` an **item** is one piece that is in one place. The guild's storage is
  requested, saved and acknowledged over one link with the inventories, in order.
  What the database will hold once everything under way is written (`WrittenStore`,
  `WrittenInv`) is what a login, or a stop of the map-server, finds. `Events` says which
  of the **rare events** a behaviour sees: scripts that count and delete stored items,
  items bound to the guild, a skill that is raised, a lost link, the guild's break. An event
  that is left out is left out of the whole behaviour, so that properties can say
  which events they need to be absent.
* `Saving` is `chrif_save`: storage and inventory leave in two packets, and the database
  writes them in that order. A crash of the map-server loses what was not sent.
* In `Shops` a **list** holds what was offered; `seen` is what a client was shown.
  `Wanted`, `Vendors` and `Collectors` limit who opens what. `WeightDrops`, `Costs`,
  `TakenFromCart` and `TakenFromBackpack` are what bonuses, skills, scripts and pets do to
  an owner meanwhile. `Kinds` with one `NameId` differ in their cards.
* In `Party` a member's **data** pointer is the set `data` of a copy; the levels are small
  numbers, which `party_send_levelup` reports when they rise (experience) and when they fall (`pc_resetlvl`, `src/src/map/pc.cpp:7773`; `pc_setparam`,
  `src/src/map/pc.cpp:8743`; `@baselevel`, `src/src/map/atcommand.cpp:1586`): `Leap` has the differences. A withdrawal from a party which the map-server does not know, of a player who is in it,
  reads `p->instance_id` through a null pointer (`src/src/map/party.cpp:676`): `Crash` of that map-server.
* `char_online_data_cleanup` walks its table; the model takes each entry as a
  step of its own, which allows more behaviours than the code has.

## Properties and runs

Login-server (`LoginSystem`; two accounts, two char-servers, two tickets, one
packet in flight each way; links break and come back, char-servers send every
packet of the protocol at any time):

| run | checks | shows |
|---|---|---|
| `login` | `TypeOK`, `TicketUsedOnce`, `HalfLoggedInExpires`, `ImplementsOffice`, `RefusalExpires` | whatever char-servers send, a ticket is accepted at most once, an open ticket is the account's last one, an account between the servers has a deadline and no deadline outlives its entry; a refused login is not refused for ever |
| `login_reset` | `OfflineServerHasNobody`, violated | see findings |

Two tickets are enough for a ticket that replaces another, two accounts for one
that is presented for the wrong account, two char-servers for a question that
races on two links. The theorems below hold for any number.

Whole system (`Session`; one account and one character unless said otherwise,
two tickets, one gain of progress, `MaxPackets` packets in flight before a
client or player may start something new; handlers are never held back):

| run | instance | checks | shows |
|---|---|---|---|
| `session` | two clients and two map-servers with one character, or one client with two characters, or one client and a link that breaks | `OnePresence`, `FreshData`, `NothingLost`, `SavedBeforeRemoved`, `PlayersAreOnline`, `NoRollback` | a second login kicks the first; a character is in the game once; the player who plays has the newest data, what it gained is saved, on its way, or held by a map-server; a player who moves is stored before its map-server forgets it; stored data never goes back; at rest the char-server and the login-server know who plays; saves and loads of two characters do not mix; after a broken link the char-server has what it missed |
| `session_timers` | one client, timers at any moment, zero low byte, fairness | `TypeOK`, `NodeXorPlayer`, `ImplementsLogin`, `KickedPlayerLeaves`, `NodesExpire` | types; a map-server never holds a player and a node of one account; what the login-server sees is a behaviour of `LoginSystem`, so its properties carry over; a player who is told to leave does; every auth node is resolved |
| `stale_registries`, `move_unsaved`, `links_move` | one client, for the last two with two map-servers, for the last one with a link that breaks | `NoBlankPlayer`, `SavedBeforeRemoved` and `SavedOnReconnect`, violated | see findings |

Bounds. Two clients are the account's two connections: the one that is dead or
is to be kicked, and the new one; symmetric. Two tickets are two logins. One gain
of progress makes a newer and an older version, two map-servers a source and a
target. `MaxPackets` is 1 or 2 and only holds back what starts something:
handlers answer beyond it, and a move to another map-server starts with two packets. `session_timers` has 2 of
them and no gain of progress: its properties do not look at data. `OneThing` in `session` keeps the second character apart
from second clients and servers, and breaks apart from both, because each of the three is a cause of
trouble by itself and together they are millions of states.

Two characters and two map-servers together would show that `OnePresence` is about characters: a character
that lost its connection in a fight, after it was granted the character selection, stays on its map-server
for ten seconds (`clif_delayquit`) while the account's other character plays on another one, and when it
leaves, its last save sets the account offline at the login-server (`src/src/char/char.cpp:188`).

Links that break. `LinkBreaks` empties a link, and both servers notice it in one step: `chmapif_on_disconnect`
marks the accounts of the map-server as unknown, the map-server keeps its players and auth nodes and sends
nothing (`chrif_check`). Clients may come, play, gain, quit and be turned away meanwhile, and the char-server's timers may
drop the accounts. `check_connect_char_server` makes a new link, on the slot the server had; the char-server's answer to
its maps makes it ready, and `chrif_on_ready` sends all players and resolves every auth node. `PlayersAreOnline` asks the login-server's
table only while no link broke: the char-server does not report the players of the new list, which only the list of online accounts
brings there later. A kick that is lost with the link is not
repeated, and `chmapif_parse_regmapuser` does not stop its timer: the account is set offline while its player plays on.
The bound `KicksArrive` leaves this out. What `links_move` is about, the save of a player who moves, is
written off in `best` (`CutOff`), so that `NothingLost` shows that nothing else is lost.

Trades (`Trade`; the packets of all players in any order, players who leave and
return, arrows that are shot and taken from a cart at any moment):

| run | instance | checks | shows |
|---|---|---|---|
| `trade` | three players, arrows and a sword, two slots, stacks of two, nobody in a chat room | `TypeOK`, `TradingPairs`, `Conserved`, `SeenIsFinal`, `Complete` | trades are between two who agree on it; from TRADE to the end the partner and the deals stay; if anything changes hands, everything does, provided that both can carry it; nothing is made or lost in between |

The third player is the one who asks meanwhile, and the next partner. Two slots
and stacks of two are full after a step or two, weights (a sword weighs two
arrows, a player carries three) such that an arrow from the cart makes an
accepted sword too heavy: the exchange is then partial, which `Complete` leaves
out and `Conserved` does not. One zeny is enough to be paid or not.

Guild storage (`GuildStorage`; players enter and leave the game and the guild, the
map-server may crash at any moment, the guild's skill, scripts, bound items, the link and the break as
the events of a behaviour allow):

| run | instance | checks | shows |
|---|---|---|---|
| `guild_storage` | see `MCGuildStorage` for the members, items and events of each choice | `TypeOK`, `UsersBelong`, `OpenForSomebody`, `OneUser`, `DataSync`, `NothingCopied`, `CleanIsSaved`, `Unlocked`, `ImplementsLease` | members who open the storage while it is loaded, saved or locked never use it together; whatever the map-server loses in a crash, every item is in one place afterwards; a late answer brings nothing back; a lock is lifted; without rare events the storage implements the lease |
| `guild_storage_reload` | the skill is raised | `NeverOutdated`, violated | see findings |

Two members are the user and the one who waits, leaves or comes back; a single item
in two places is the whole hazard, a second one makes the storage full. The bound on packets under
way grows with the events that need them; a link that is lost meets one member in the game (`OneAtTheLink`).

Shops and parties (`MCMapParts`; a behaviour belongs to one part):

| part | instance | what happens in it |
|---|---|---|
| `tags` | a vendor, two customers, two prices | the shop closes and opens with another price between the list and the order; a customer owns an apple with another card |
| `lines` | two lines, two customers | orders of several lines, a list that shrinks while it is seen |
| `late` | one customer, two answers under way | saves and reloads of the cart cross the set-up and the sales |
| `store` | a buying store, two sellers | limits, zeny and weight change between opening and sale |
| `members` | three players on two map-servers, a full party with two members away, a second party | creations, invitations, leaves, expulsions, logouts and logins cross |
| `founding` | a party of two, one of whom is away, and a third player | a party is founded by somebody who was let in to another one, joins and logs off before the answer |
| `sharing` | members with levels 2, 3 and 4 and another player with level 3, of 5 levels, who play on one of the map-servers | even share while levels rise by one or two and fall by two, past all others, and members come and go |

| run | checks | shows |
|---|---|---|
| `parts` | `TypeOK`, `NobodyWaits`, `PlayersAgree`, `CopiesAgree`, `PointersHold`, `SharingKept` of `Party`; `ShopTypes`, `NothingCopied`, `Delivered`, `PaysAsAgreed` | a customer pays what its own list says for what it gets, and gets it, except where `pc_checkadditem` misjudges; so does a buying store that has room for it, and it stays within its limit; at rest nobody waits for an answer, players and copies agree with the char-server, nobody is in two parties; no copy points to somebody who left the game or its party unless it is about to hear of it; members in the game are counted right, and the range runs between levels that they have |
| `even_share` | `EvenShare`, violated | see findings |

The three parts about parties differ in who is where at first (`Starts`) and in what players ask, and how often (`InMembers`,
`InFounding`, `InSharing`); the constants are the same, so that the run checks what the theorems about `Party` state. In `founding`
the member who is away stays away and the leader stays; in `sharing` nobody enters the second map-server, which handles each message
before the next one (`Prompt`). The party ids, levels and characters are the least that let two parties exist, a party be
full, and a member be in the middle of the levels, with one level below all others and one above them. A member in the middle may leave the range without the char-server
noticing (`src/src/char/int_party.cpp:718`): `SharingKept` therefore says that members in the game have the two levels which the range runs between, not that these are the lowest
and the highest, and that even share ends with the range that is kept. What the range should be is `EvenShare`, which fails.

`PointersHold` needs its
exception: a player who is let in to a party by an invitation and logs off before the answer may be back, in no party or a new one,
while the copy still lists it; the answer, which finds nobody who waits, makes it leave (`Leaving`). If it founds a party meanwhile and
logs off again, `party_send_logout` (`src/src/map/party.cpp:911`) clears the pointer in its new party's copy only, and the other
copy points to nobody until the withdrawal arrives.

`PlayersAgree` is about behaviours in which no map-server crashes with an answer under way; the run is too short for the others. If
`party_created` or `party_member_added` is lost with a map-server, the char-server has a member who does not know of its party after
the next login. `NobodyWaits`, `CopiesAgree`, `SharingKept` and `TypeOK` hold whoever crashes.

The parts about shops differ in what players own at first (`StockOf`) and in who acts, and how often (`InShops`): every vending shop is opened
or disturbed twice, a buying store three times; in `tags` and `lines` the char-server answers before anybody acts. Customers of a
vending shop have one slot for what they buy, the other holds a sword; `MaxZeny` is 3 so that a vendor with one zeny may be paid more than it
has room for; the weight that is left to a disturbed buying store is what it owns already.

The parts do not meet in the code and are in one run because each is small. What is in no part stays as it is at first. `CHECK_DEADLOCK
FALSE` there: players may stop, and the changes of a behaviour are bounded (`Bound`, `MaxEvents`).

Time. The modelled timers take from 10 s (`clif_delayquit`) to some minutes;
packets and event loops take milliseconds. With `Timely = TRUE` a timer fires only when no
packet is in flight and every closed connection and every player without one has been served;
with `Timely = FALSE` at any moment. Properties of data (`FreshData`,
`NothingLost`, `OnePresence`, `NoRollback`) need the first: a `changemap` packet
that is 30 s under way meets an account that was set offline meanwhile, and
then the code does let it in twice. Types, exclusion, refinement and
liveness are checked without it. `Prompt` holds back a client that returns while registries it
asked for are on the way; `stale_registries` shows what happens otherwise.

Clients use one connection at a time (`Unconnected`): a well-behaved client
closes the connection to one server before it opens the next, and the server
has noticed. A second client stands for the connection nobody knows to be dead.

`CHECK_DEADLOCK FALSE` in the session runs: clients may stop, tickets run out, and all is served.

Fairness. `FairSpec` of `LoginSystem` asks only that a running timer fires, which
`do_timer` does at every turn of the event loop. `FairSpec` of `Session` asks that
every handler with a packet or a closed connection is served (weak fairness)
and that due timers fire; they get strong fairness because `TimeOut` may hold
them back now and then. `Spec` of `GuildStorage` asks that both servers handle the
packets they receive, which `do_sockets` does at every turn; no member is fair. No client, player or login is fair: they may stop at any moment.

Each property of a passing run has a mutant in `PROJECT.json`: a definition
with a plausible bug (a dropped comparison, a reset that is missing, an index off by
one) under which the run finds the property violated. Mutants are defined
next to what they replace.

## Findings

1. `login_online_db_setoffline` (`src/src/login/login.cpp:173`) iterates over
   `online_db` by value and changes copies: accounts of a char-server that
   disconnects stay online at its slot. `login_reset`.
2. `pc_reg_received` (`src/src/map/pc.cpp:1872`) completes whatever login node the
   account has: registries of an earlier login let a later one into the game
   before its status arrived, with a zeroed status. `stale_registries`.
3. `chmapif_parse_reqsavechar` (`src/src/char/char_mapif.cpp:406`) reads byte 13,
   the low byte of the character id, along with the final-save flag. For 255 of
   256 characters a save is thus never checked against the online table.
   For the others the check is
   made, and `chmapif_parse_authok` has already taken the character off the table
   while it still plays: its save before a move to another map-server is refused,
   the move granted, the progress lost. `move_unsaved`. (The same way such a
   character can violate `NothingLost`.)
4. `storage_guild_storagesaved` (`src/src/map/storage.cpp:1076`) takes any acknowledgement
   for that of the last save, if the storage is closed. When `GD_GUILD_STORAGE` is raised while a
   member uses the storage, another member's open asks for it again
   (`src/src/map/storage.cpp:619`); if that question is between an autosave and the final save, the
   acknowledgement of the first one makes the storage clean and the answer replaces it by what was stored before
   the second. `guild_storage_reload`.
5. `chrif_reconnect` (`src/src/map/chrif.cpp:543`) means to repeat the request of a player who was to move to another
   map-server when the link broke, not its save. Not even the request is made: where the maps of the
   others are is told after the packet that makes the link ready (`src/src/char/char_mapif.cpp:261`), so the client is turned away,
   and the auth node with the newest data is thrown away a minute later. `links_move`.
6. `mapif_parse_PartyChangeMap` (`src/src/char/int_party.cpp:718`) re-checks the levels of a
   party only if the member was its lowest or highest. One in the middle that gains or loses several
   levels at once leaves the range and even share stays. `even_share`.

Noticed but not a run:

* `trade_traderequest` (`src/src/map/trade.cpp:57`) forgets the partner of a
  player who asks for another trade, but not the trade: `state.trading` of both
  stays set. From a chat room one can ask. `TradingPairs` fails with `Asking = {p1}`.
* `trade_check` (`src/src/map/trade.cpp:276`) finds stacks by id and cards,
  `pc_additem` (`src/src/map/pc.cpp:5061`) also by binding. With a full
  inventory the trial stacks an item that the exchange then refuses, after which
  the rest of the deal goes through. `Complete` fails with two kinds of one `Name`.
  `pc_checkadditem` (`src/src/map/pc.cpp:4770`) compares ids only, so that a shop's
  customer pays for an item which then is neither in its backpack nor in the cart (`MayMiss`).
* `buyingstore_trade` (`src/src/map/buyingstore.cpp:425`) subtracts the owner's weight from
  its maximum as unsigned numbers; an overweight owner takes anything, and `pc_additem` refuses it
  when it has left the seller (`MayMiss`). It also forgets to ask for a free slot.
* `intif_parse_StorageSaved` (`src/src/map/intif.cpp:3353`) requests the cart when a save
  is acknowledged while a shop is set up, and the answer overwrites the cart: what
  was sold or moved meanwhile is there again (`Reread`).
* `guildstoragecountitem` and `guildstoragedelitem` close the guild storage whoever uses it
  (`src/src/map/script.cpp:7140`, `8032`); what its user changes afterwards is not saved. A
  retrieval of bound items does not lock a storage that is not loaded yet, so a third
  member may open it, and drops the items if the storage is not there (`src/src/map/guild.cpp:1034`).
* A lost link leaves the storage locked if it lost the answer to a retrieval, and unsaved if it lost
  a save after the acknowledgement of an earlier one (`src/src/map/storage.cpp:138` looks at
  the mark only); a refused save is acknowledged all the same (`src/src/map/intif.cpp:1528`).
* A new leader (`src/src/map/party.cpp:774`) is not told to other map-servers, and takes the
  lead from the old one even if the new one has left on the char-server.
* `inter_party_CharOnline`, `inter_party_CharOffline` and `intif_break_party` have no callers.
* A late `setaccoffline` of an earlier session takes away
  the timer of a newer login and leaves its ticket open until it is redeemed or
  replaced (`src/src/login/login.cpp:119`); `TicketUsedOnce` holds all the same.
* Weight is checked when an item is offered and not at the exchange
  (`src/src/map/trade.cpp:419`), so a player who takes things from its cart
  meanwhile is paid for, or pays for, items that are refused.

## Proofs

`LoginSystem_proofs`, for any sets of accounts, char-servers and clients and any
bounds, from the assumptions named in `LoginLink` and `LoginSystem`:

* `TypeCorrect`: `Spec => []TypeOK`.
* `TicketSafety`: `Spec => [](TicketUsedOnce /\ OpenTicketFresh)`. `TicketUsedOnce`
  is not inductive: it needs that an open ticket has not been accepted, that it is
  open for one account only, and that tickets to come have not been accepted.
  `OpenTicketFresh` says this, and `TicketInv`, with the types, is the invariant.
* `DeadlineSafety`: `Spec => []HalfLoggedInExpires`, inductive with the types.
* `Refinement`: `Spec => ImplementsOffice`. Each step issues, redeems, voids or
  leaves the office alone; `TicketInv` shows that a redeemed ticket was open.

`Session_proofs`, for any number of accounts (finite), characters, servers, clients and packets:

* `NeverBoth`: `Spec => []NodeXorPlayer`. The tables of nodes and players are
  functions on map-servers and accounts (`Tables`, a part of the types); with it
  the property is inductive, since every action that sets a player frees the node,
  and every one that creates a node finds no player. A link that breaks changes neither table, a new one only
  removes nodes (`ReadyKeepsExclusive`).
* `SessionTypes`: `Spec => []TypeOK`. The types are not inductive by themselves: the char-server looks a
  character up in what a client told it, and hands tickets and descriptors from one packet to the next. The
  invariant `IInv` adds what a client, an auth node or a packet may hold of a ticket (`Guest`: whoever is on a map-server came with
  a ticket that was issued, and a client that still has it has picked a character; `ClientsOK`, `ToCharOK`, `ToMapOK`, `StateOK`). One lemma per handler; `Sorted` collects them. `chrif_reconnect` and
  `chmapif_parse_regmapuser` walk over tables and send for each entry: what they send (`Joined`) is a fold, and a sequence of
  packets because `FoldTheorems` says so.
* `LoginRefinement`: `Spec => ImplementsLogin`. The steps of `LoginServer` map to themselves, all others to
  something a char-server of `LoginSystem` may do, or to a stutter.
* `SessionTickets`: the invariants of `TicketSafety` and `DeadlineSafety` hold of the three programs together:
  `LoginSystem_proofs` is instantiated with the session's constants, its assumptions discharged, and
  `LoginRefinement` cited.

`Trade_proofs`, for any players (finitely many), kinds, sizes and amounts (`MAX_AMOUNT` at least 1):

* `Pairs`: `Spec => []TradingPairs`, and `Agreement`: `Spec => SeenIsFinal`, if `Asking` is empty. The
  invariant `Paired` says that requests, too, are mutual and between players in the
  game, that partners trade both or neither, that only traders lock deals, and that who
  pressed TRADE did so when the partner had locked. Each action either frees a
  pair (`FreedPaired`, for cancellation, refusal, exchange and departure), changes a deal
  that is not locked (`DealPaired`), or is taken by itself.
* `TradeTypes`: `Spec => []TypeOK`, and `NothingMadeOrLost`: `Spec => []Conserved`, whoever may ask. `IInv` joins them with
  `NotAlone` (nobody is its own partner: the zeny of such a deal would be doubled). What a player owns of a kind is a sum over
  slots, what all own a sum over players (`SumChange`: by how much a sum changes with one summand). From
  this, `pc_additem` and `pc_delitem` change what a player owns by what they return, and each step of
  the exchange's loop moves as many as the partner accepted. The loop is a recursive function of the entries
  that are left: that it exists, and that it preserves the goods, is shown by a least counterexample.

`GuildStorage_proofs`, for any members, items, sizes, events and packets under way:

* `StorageTypes`, `UsersAlwaysBelong`, `NeverOpenForNobody` and
  `OneUserAtATime`: `Spec => []P` for `TypeOK`, `UsersBelong`, `OpenForSomebody`
  and `OneUser`. None but the first is inductive. The invariant `IInv`
  joins the types with `GuildKnown` (who is in the guild is one of its members on the map-server,
  which knows the guild), `Serving` (users are in the guild and the storage is there for them, an
  open storage has one, a locked one is closed; undisturbed, a closed one has none and
  nobody shares it) and `Unretrieved` (where nothing is bound, nothing is locked or on its way to
  be retrieved). `Cleared` and `Close` are treated once, by what they make of a storage
  and its users; every action that opens or closes cites them.
* `WrittenOnce`, `NothingIsCopied` and `CleanStorageIsSaved`: `Spec => []P` for `DataSync`, `NothingCopied` and
  `CleanIsSaved`. They are about the order of packets, so the invariant is, too. `Books` says, of a behaviour without rare events:
  only questions, saves and their answers are under way and fit the members who are online (`Standing`); what will be written of a storage that is closed
  or clean is what it holds, and of a player who is not in the storage what it carries
  (`InStep`); no save is followed by a load, nor its answer by a storage (`Orderly`); and a storage that was read and is under way
  is the one that will be written, unless the one in memory was changed and the answer will be ignored (`UpToDate`). `Accounted` adds that every item is in one place in the
  game and in one of what will be written. What a queue writes of something is its last packet about it:
  the lemmas on `Written` say so for a packet that is appended, one that is handled and one that is lost. Each step then has one
  of six effects on the two placements (`Effect`: none, saves, restores, enters, departs, moves), and each effect keeps items in
  one place.
* `LeaseRefinement`: `Spec => ImplementsLease`, since each effect is a step of `StorageLease` or a stutter.

`Shops_proofs`, for any players (finitely many), kinds, slots, weights, prices and bounds:

* `ShopsTypeOK`: `ShopSpec => []ShopTypes`: no amount, limit or purse falls below zero. The invariant `ShopInv` adds to the types that kinds
  which share a slot have one in a backpack (`Owned`), that a list has a slot or kind once (`Lists`), and that what a visitor
  has seen has every line that is left of the shop while it is open, at the same price (`Views`). It may be older, because lists only shrink, but not
  of another shop of the same owner, because the number of a shop is new.
* `CustomersPayAsAgreed`: `ShopSpec => PaysAsAgreed`. The price is read from the current list and equals the one seen because of `Views`; each line
  of an order takes its pieces from one slot. A buying store buys kinds that share a slot, so that the seller has each in one slot.
* `NothingIsCopied`: `ShopSpec => NothingCopied`. An order is handed over line by line: by a least counterexample over the lines, what
  has arrived and what is left are together no more than there was (`HandedOver`). The sums over slots and players are
  compared summand by summand (`SumAdds`, `SumChanges`, `SumOfTwo`).
* `OrdersAreDelivered`: `ShopSpec => Delivered`. The number of pieces stays the same (`AllHandedOver`), since before each line what is still to be given
  fits: the weights of the lines that are left, the free slots that they need, and the stacks they go to, which are as they were
  at the check (`Underway`). This needs the invariant `CartsStacked`, so that two lines are of different kinds unless each piece has a slot of its own.
  The proof showed that `MayMiss` has to count the free slots: a buying store with one free slot and two kinds to come loses the second.

`Party_proofs` and `PartyCopies_proofs`, for any characters (finitely many), map-servers, levels and messages under way, crashes included:

* `PartyTypes`: `Spec => []Types`. `Types` is `TypeOK` with the messages (`Shape`) and what the types need:
  a character is let in to one map-server at a time and while it is out of the game (`LetIn`), its registries are asked for once
  (`Awaited`), and nobody speaks of a party that is not founded yet (`Fresh`).
* `PartySharing`: `Spec => []SharingKept`, and `PartyTypeOK`: `Spec => []TypeOK`. The char-server adds whoever asks to join
  without looking for it in the party, and looks at the range only when somebody at its border moves. Both need that no member joins again (`Fits`), which would be counted twice; then every party is `Sound`: the
  count is right, the range runs between levels of members in the game (`Ranges`) and even share ends with it. Levels may rise and fall: who sits at a border of the range and moves or leaves
  makes the char-server compute it anew (`LevelledFacts`, `ShownFacts`, `WithoutFacts`), and nobody else can take a border away.
  `Chain` follows each character from map-server to map-server: whoever waits for an answer asks once and is answered once (`Awaiting`, `JoinsOnce`, `Invited`);
  what it sent comes before its final save, and before that it is let in nowhere (`Saved`, `Sent`); where a member is or will be, the copy lists it before it
  is let in or hears that it has joined (`Near`), so that it accepts no second invitation.
* `CopiesFollowParties`: `Spec => []CopiesAgree`. The invariant `Agreed` follows one copy, one party and the link between
  them: if the copy is wrong about the party's existence, a member, whether the member plays or the sharing of experience, a message that puts it right is
  under way, and a message that says something wrong is followed by one that puts it right (`Says`, `Calm`). Every step is, for a party and a
  map-server, one of four turns (`Turn`: the party changes and all are told, it is founded, a message is heard, the map-server is
  gone), and each turn keeps each part of `Agreed`. That a party tells everybody when sharing ends by itself needs the soundness above.
* `EveryoneAnswered`: `Spec => []NobodyWaits`. Whoever waits has its request under way to the char-server or the answer under
  way back (`Served`); the char-server answers every request, the map-server every answer it reads, and
  every other step makes nobody begin to wait (`Bides`), but for the one that asks. Answers are lost only with the map-server
  that would read them, and with it who waits. It needs that a character is let in anew only when nothing it asked before is under way (`Chain`).

`FoldTheorems` holds what the other modules need of folds: `FoldUnfolds` (a fold of the
community modules over a function with a finite domain is what its recursion says); the sums of `Trade_proofs` and `Shops_proofs` are such folds, and so is what the receiver of an order gets. The induction theorems of the library take an operator and are out of the provers' reach; induction is
done here by the least element of a set of natural numbers (`LeastElement`, from `WFMin`), and over finite sets by the
least size of a set that is not in `Q` (`SubsetInduction`, `Q` a set of sets instead of an operator). Folds are those of a
module with constants `op` and `base`, instantiated for sums and for sequences.

Assumptions on constants are named in the modules that declare them and evaluated by TLC: sets of players and accounts are
finite, bounds are natural numbers, `MAX_AMOUNT` (30000 in the code) is at least 1, and every item is in one place at first
(`ChestAssumption`). What the theorems about `Party` and `Shops` assume of
their constants is `ConstantsOK` and `ShopConstantsOK`, which `MCMapParts` assumes. The latter says that backpacks and carts are well-formed at first and that buying stores list only kinds that
share a slot, as the item database sees to (`src/src/map/itemdb.cpp:539`): of others, `buyingstore_trade` (`src/src/map/buyingstore.cpp:373`) compares each line with what
is wanted and not their sum. Bound pieces, which only game masters can sell, and pieces with a unique id are left out: they share no slot with others.

Only model-checked: liveness (fairness is beyond the provers); `FreshData`, `NothingLost`, `OnePresence`, `NoRollback`,
`SavedBeforeRemoved` and `PlayersAreOnline`, which hold only if timers are slow (`Timely`), clients are
`Prompt`, no character has a zero low byte and the three causes of trouble are kept apart (`OneThing`), that is, along with bounds that are chosen per run: beyond them the code violates several of them, so there is no theorem to prove; `Complete`, of which weights at the time of the offer would have to be remembered;
`NeverOutdated`, which the code violates; and of `Party` `PlayersAgree`
and `PointersHold`: the first holds only without crashes, and both need who of the members knows of its party, through every login and logout.

## Not modelled, and why

* The loss of the link between login-server and char-server in `Session` (`LoginSystem` has it, with a
  char-server that sends anything), another slot for a map-server that comes back, and the crash of a
  map-server, whose players are gone with it.
* The hourly list of online accounts (`src/src/login/loginchrif.cpp:536` reads two bytes before
  where `src/src/char/char_logif.cpp:93` writes): the ids that arrive are no accounts in
  practice; planned as a module about the packet alone.
* `setalloffline`, the PIN code, web tokens, autotraders: small additions to the
  present modules.
* Zeny that a trader loses by dying, and items it uses or drops: `impossible_trade_check`
  watches for them, and arrows stand for all of them.
* SQL, configuration, logging, the console, tools and data: input and output.
* Scripts, skills, battle, monsters: an interpreter and formulas over data.

* The storage of an account and premium storages: one player, who waits for each answer. Storages on
  several map-servers: a guild's storage is then loaded by each, and the code has no lock between them.
* Autotraders that are read from the database, the search for stores, booking, families, maps
  and item options of parties, chat; a change of job that caps the base level (`src/src/map/pc.cpp:9190`) and tells the
  char-server only at the next change of map.
* A restart of the char-server, which reloads parties and players from the database.

## Plan

1. Core (done): `LoginServer`, `CharServer`, `MapServer`, `Session`.
2. `Trade`, `GuildStorage` with its lease and exclusion proved, `Shops`, `Party`, links that break
   in `Session` (done).
3. Guilds as replicas, with alliances; duels, chat rooms, channels.
4. Timer heap (`timer.cpp`) against a reference.
5. The PIN protocol, and the lost link to the login-server in `Session`.
6. Proofs: `PlayersAgree` (without crashes) and `PointersHold` of `Party`; `FreshData` and `NothingLost` for
   one map-server.
