------------------------------- MODULE Trade -------------------------------
(***************************************************************************)
(* Trades between players on a map-server, trade.cpp.  A player asks       *)
(* another one; when that one accepts, both put items and zeny into their  *)
(* deals, lock them, and confirm.  The second confirmation exchanges the   *)
(* deals, item by item.  Each step is a packet of one player; any of them  *)
(* may also leave the game, take things out of its cart, or shoot.         *)
(***************************************************************************)
EXTENDS Integers, Sequences, FiniteSets, Folds, Functions

CONSTANTS Players,    \* account ids, which are block ids
          Kinds,      \* kinds of items: what makes two of them equal
          Stackable,  \* kinds that share a slot
          Name,       \* Name[k]: nameid and cards, without binding
          Weight,     \* Weight[k]
          Ammo,       \* kinds that can be shot while trading
          Asking,     \* players who may ask for a trade during one: in a chat
                      \* room, which they may enter at any time
          MaxWeight,  \* max_weight
          Slots,      \* MAX_INVENTORY
          DealSlots,  \* length of deal.item
          MaxAmount,  \* MAX_AMOUNT
          MaxZeny,    \* MAX_ZENY
          Pieces,     \* amounts a player adds at a time
          Backpack,   \* Backpack[p]: the inventory at first
          Cart,       \* Cart[p]: the cart at first
          Purse,      \* Purse[p]: the zeny at first
          None        \* no player, no item

Nothing == [kind |-> None, amount |-> 0]
Stack == [kind : Kinds, amount : 1 .. MaxAmount]
Inventory == [1 .. Slots -> Stack \cup {Nothing}]
Load(k, n) == Weight[k] * n

ASSUME SizesAssumption == /\ {MaxWeight, Slots, DealSlots, MaxZeny} \subseteq Nat
                          /\ MaxAmount \in Nat \ {0} /\ Pieces \subseteq Nat
ASSUME PlayersAssumption == IsFiniteSet(Players)
ASSUME KindsAssumption == /\ Stackable \subseteq Kinds /\ Ammo \subseteq Kinds
                          /\ Weight \in [Kinds -> Nat] /\ Asking \subseteq Players
ASSUME TraderAssumption == None \notin Players \cup Kinds
ASSUME BelongingsAssumption == /\ Backpack \in [Players -> Inventory]
                               /\ Cart \in [Players -> [Kinds -> Nat]]
                               /\ Purse \in [Players -> 0 .. MaxZeny]

VARIABLES online,         \* who is in the game
          trade_partner,  \* trade_partner[p]: whom p trades with or has asked
          trading,        \* state.trading
          deal_locked,    \* state.deal_locked: 1 after OK, 2 after TRADE
          deal,           \* deal[p]: what p gives
          inventory,      \* inventory[p]
          cart,           \* cart[p]
          zeny            \* zeny[p]

flags == <<trade_partner, trading, deal_locked>>
goods == <<inventory, cart, zeny>>
vars == <<online, flags, deal, goods>>

(* An entry of a deal names an inventory slot. *)
DealItem == [index : 1 .. Slots, amount : 1 .. MaxAmount]
EmptyDeal == [item |-> <<>>, zeny |-> 0, weight |-> 0]

Init ==
  /\ online = Players
  /\ trade_partner = [p \in Players |-> None]
  /\ trading = [p \in Players |-> FALSE]
  /\ deal_locked = [p \in Players |-> 0]
  /\ deal = [p \in Players |-> EmptyDeal]
  /\ inventory = Backpack /\ cart = Cart /\ zeny = Purse

-----------------------------------------------------------------------------
(* Inventories, pc.cpp. *)

Sum(f) == FoldFunction(LAMBDA x, y : x + y, 0, f)
WeightOf(inv) ==
  Sum([i \in 1 .. Slots |-> IF inv[i] = Nothing THEN 0 ELSE Load(inv[i].kind, inv[i].amount)])

First(S) == CHOOSE i \in S : \A j \in S : i <= j
Free(inv) == {i \in 1 .. Slots : inv[i] = Nothing}
StackOf(inv, k) == {i \in 1 .. Slots : k \in Stackable /\ inv[i].kind = k}

(* pc_additem refuses what is too heavy, what makes a stack too high, and  *)
(* what needs a slot when there is none.                                   *)
Takes(inv, k, n) ==
  /\ WeightOf(inv) + Load(k, n) <= MaxWeight
  /\ IF StackOf(inv, k) # {} THEN n <= MaxAmount - inv[First(StackOf(inv, k))].amount
                             ELSE Free(inv) # {}

pc_additem(inv, k, n) ==
  IF StackOf(inv, k) # {} THEN [inv EXCEPT ![First(StackOf(inv, k))].amount = @ + n]
                          ELSE [inv EXCEPT ![First(Free(inv))] = [kind |-> k, amount |-> n]]

(* Mutant: leaves an empty stack in the slot. *)
still_there(inv, i, n) == [inv EXCEPT ![i].amount = @ - n]

pc_delitem(inv, i, n) ==
  [inv EXCEPT ![i] = IF inv[i].amount = n
                       THEN Nothing
                       ELSE [kind |-> inv[i].kind, amount |-> inv[i].amount - n]]

(* pc_getitemfromcart: nothing keeps a trader from doing it. *)
pc_getitemfromcart(p, k) ==
  /\ p \in online
  /\ cart[p][k] > 0 /\ Takes(inventory[p], k, 1)
  /\ inventory' = [inventory EXCEPT ![p] = pc_additem(@, k, 1)]
  /\ cart' = [cart EXCEPT ![p][k] = @ - 1]
  /\ UNCHANGED <<online, flags, deal, zeny>>

(* An attack that began before the trade goes on and uses up arrows. *)
battle_consume_ammo(p, i) ==
  /\ p \in online
  /\ inventory[p][i].kind \in Ammo
  /\ inventory' = [inventory EXCEPT ![p] = pc_delitem(@, i, 1)]
  /\ UNCHANGED <<online, flags, deal, cart, zeny>>

-----------------------------------------------------------------------------
(* Asking and answering. *)

(* map_id2sd(sd->trade_partner) is somebody. *)
Present(p) == trade_partner[p] # None /\ trade_partner[p] \in online

(* A player asks another one.  An earlier request, of or to anybody, is    *)
(* taken back first; the new one may then fail all the same: the other has *)
(* a partner, is too far, or one of them may not give items away.          *)
trade_traderequest(p, target) ==
  LET previous == IF Present(p) THEN {p, trade_partner[p]} ELSE {p}
      cleared == [x \in Players |-> IF x \in previous THEN None ELSE trade_partner[x]] IN
  /\ p \in online /\ target \in online /\ p # target
  /\ trading[p] => p \in Asking
  /\ \/ trade_partner' = cleared
     \/ /\ cleared[target] = None
        /\ trade_partner' = [cleared EXCEPT ![p] = target, ![target] = p]
  /\ UNCHANGED <<online, trading, deal_locked, deal, goods>>

Without(S) == trade_partner' = [x \in Players |-> IF x \in S THEN None ELSE trade_partner[x]]
Reset(S, locks) == deal_locked' = [x \in Players |-> IF x \in S THEN 0 ELSE locks[x]]

(* An answer makes sense between two that asked each other and do not trade. *)
Answers(p, q) == /\ trade_partner[p] = q
                 /\ q \in online /\ ~trading[q] /\ trade_partner[q] = p

(* The answer is no, or one of them is too far or busy: too far leaves     *)
(* deal_locked as it is.                                                   *)
TradeRefused(p, q) ==
  /\ Without({p, q})
  /\ Reset({p, q}, deal_locked) \/ UNCHANGED deal_locked
  /\ UNCHANGED <<trading, deal>>

TradeStarts(p, q) ==
  /\ trading' = [trading EXCEPT ![p] = TRUE, ![q] = TRUE]
  /\ deal' = [deal EXCEPT ![p] = EmptyDeal, ![q] = EmptyDeal]
  /\ UNCHANGED <<trade_partner, deal_locked>>

trade_tradeack(p) ==
  LET q == trade_partner[p] IN
  /\ p \in online /\ ~trading[p] /\ q # None
  /\ \/ ~Answers(p, q) /\ Without({p}) /\ UNCHANGED <<trading, deal_locked, deal>>
     \/ Answers(p, q) /\ TradeRefused(p, q)
     \/ Answers(p, q) /\ TradeStarts(p, q)
  /\ UNCHANGED <<online, goods>>

-----------------------------------------------------------------------------
(* Cancelling. *)

(* Mutant: does not free the partner. *)
only_myself(p) == {p}

(* Who is freed by trade_tradecancel(p): p and its partner, as p sees it.  *)
Parties(p) == IF Present(p) THEN {p, trade_partner[p]} ELSE {p}

(* A request that was not accepted is taken back; a trade is undone with   *)
(* the deals of both (deal.weight, which is not read again before the next *)
(* trade resets it, too).                                                  *)
CancelledAt(p, locks) ==
  /\ Without(Parties(p))
  /\ IF trading[p]
       THEN /\ trading' = [x \in Players |-> x \notin Parties(p) /\ trading[x]]
            /\ Reset(Parties(p), locks)
            /\ deal' = [x \in Players |-> IF x \in Parties(p) THEN EmptyDeal ELSE deal[x]]
       ELSE deal_locked' = locks /\ UNCHANGED <<trading, deal>>
Cancelled(p) == CancelledAt(p, deal_locked)

trade_tradecancel(p) ==
  /\ p \in online
  /\ Cancelled(p)
  /\ UNCHANGED <<online, goods>>

(* A player leaves the game or the map: unit_remove_map cancels.  One who  *)
(* comes back starts afresh.                                               *)
unit_remove_map(p) ==
  /\ p \in online
  /\ IF trade_partner[p] # None THEN Cancelled(p) ELSE UNCHANGED <<flags, deal>>
  /\ online' = online \ {p}
  /\ UNCHANGED goods

pc_reg_received(p) ==
  /\ p \notin online
  /\ online' = online \cup {p}
  /\ trade_partner' = [trade_partner EXCEPT ![p] = None]
  /\ trading' = [trading EXCEPT ![p] = FALSE]
  /\ deal_locked' = [deal_locked EXCEPT ![p] = 0]
  /\ deal' = [deal EXCEPT ![p] = EmptyDeal]
  /\ UNCHANGED goods

-----------------------------------------------------------------------------
(* The deals. *)

(* Mutant: does not look whether the deal is locked. *)
always_open(p) == trading[p]

MayAdd(p) == trading[p] /\ deal_locked[p] = 0

(* The position of slot i in the deal of p: where it is, or behind it. *)
Entry(p, i) ==
  LET d == deal[p].item
      there == {n \in DOMAIN d : d[n].index = i} IN
  IF there # {} THEN First(there) ELSE Len(d) + 1

(* Every packet of a trader whose partner is gone cancels the trade. *)
WithPartner(p, Handle) == IF Present(p) THEN Handle ELSE Cancelled(p)

(* n pieces of slot i go into the deal.  The weight is checked with n even *)
(* when fewer are left to add.                                             *)
AddItem(p, i, n) ==
  LET q == trade_partner[p]
      s == inventory[p][i]
      d == deal[p]
      e == Entry(p, i)
      new == e > Len(d.item)
      more == IF ~new /\ d.item[e].amount + n > s.amount THEN s.amount - d.item[e].amount
                                                       ELSE n
      items == IF new THEN Append(d.item, [index |-> i, amount |-> n])
                      ELSE [d.item EXCEPT ![e].amount = @ + more] IN
  /\ 0 < n /\ n <= s.amount
  /\ e <= DealSlots
  /\ WeightOf(inventory[q]) + d.weight + Load(s.kind, n) <= MaxWeight
  /\ deal' = [deal EXCEPT ![p].weight = @ + Load(s.kind, more), ![p].item = items]
  /\ UNCHANGED flags

trade_tradeadditem(p, i, n) ==
  /\ p \in online /\ MayAdd(p)
  /\ WithPartner(p, AddItem(p, i, n))
  /\ UNCHANGED <<online, goods>>

(* An amount that one does not have or the other cannot take cancels. *)
AddZeny(p, n) ==
  IF n > zeny[p] \/ n > MaxZeny - zeny[trade_partner[p]]
    THEN Cancelled(p)
    ELSE deal' = [deal EXCEPT ![p].zeny = n] /\ UNCHANGED flags

trade_tradeaddzeny(p, n) ==
  /\ p \in online /\ MayAdd(p)
  /\ WithPartner(p, AddZeny(p, n))
  /\ UNCHANGED <<online, goods>>

Lock(p) == /\ deal_locked' = [deal_locked EXCEPT ![p] = 1]
           /\ UNCHANGED <<trade_partner, trading, deal>>

trade_tradeok(p) ==
  /\ p \in online /\ MayAdd(p)
  /\ WithPartner(p, Lock(p))
  /\ UNCHANGED <<online, goods>>

-----------------------------------------------------------------------------
(* The exchange. *)

(* impossible_trade_check: p has what it gives. *)
HasDeal(p) ==
  /\ deal[p].zeny <= zeny[p]
  /\ \A n \in DOMAIN deal[p].item :
       deal[p].item[n].amount <= inventory[p][deal[p].item[n].index].amount

(* trade_check: the exchange tried out on copies of both inventories.  A   *)
(* slot that is emptied is not free yet, and stacks are found by name.     *)
Copy == [inv |-> inventory, ok |-> TRUE]

Tried(c, from, to, n) ==
  LET d == deal[from].item
      i == d[n].index
      k == c.inv[from][i].kind
      stack == {j \in 1 .. Slots : /\ k \in Stackable
                                   /\ c.inv[to][j] # Nothing
                                   /\ Name[c.inv[to][j].kind] = Name[k]}
      free == Free(c.inv[to])
      less == [c.inv EXCEPT ![from][i].amount = @ - d[n].amount] IN
  IF n > Len(d) \/ ~c.ok THEN c
  ELSE IF stack # {}
    THEN [inv |-> [less EXCEPT ![to][First(stack)].amount = @ + d[n].amount],
          ok |-> c.inv[to][First(stack)].amount + d[n].amount <= MaxAmount]
  ELSE IF free # {}
    THEN [inv |-> [less EXCEPT ![to][First(free)] = [kind |-> k, amount |-> d[n].amount]],
          ok |-> TRUE]
  ELSE [c EXCEPT !.ok = FALSE]

(* Mutant: looks at zeny only. *)
zeny_check(p, q) == zeny[q] <= MaxZeny - deal[p].zeny /\ zeny[p] <= MaxZeny - deal[q].zeny

trade_check(p, q) ==
  LET try[n \in 0 .. DealSlots] ==
        IF n = 0 THEN Copy ELSE Tried(Tried(try[n - 1], p, q, n), q, p, n) IN
  /\ zeny[q] <= MaxZeny - deal[p].zeny
  /\ zeny[p] <= MaxZeny - deal[q].zeny
  /\ try[DealSlots].ok

(* Mutant: takes the item even if the other did not get it. *)
given_away(inv, from, to, n) ==
  LET d == deal[from].item
      i == d[n].index
      k == inv[from][i].kind IN
  IF n > Len(d) THEN inv
  ELSE IF Takes(inv[to], k, d[n].amount)
    THEN [inv EXCEPT ![to] = pc_additem(@, k, d[n].amount),
                     ![from] = pc_delitem(@, i, d[n].amount)]
  ELSE [inv EXCEPT ![from] = pc_delitem(@, i, d[n].amount)]

(* Entry n of the deal of one is given to the other, or kept if the other  *)
(* cannot take it.                                                         *)
Given(inv, from, to, n) ==
  LET d == deal[from].item
      i == d[n].index
      k == inv[from][i].kind IN
  IF n <= Len(d) /\ Takes(inv[to], k, d[n].amount)
    THEN [inv EXCEPT ![to] = pc_additem(@, k, d[n].amount),
                     ![from] = pc_delitem(@, i, d[n].amount)]
    ELSE inv

Swapped(p, q) ==
  LET swap[n \in 0 .. DealSlots] ==
        IF n = 0 THEN inventory ELSE Given(Given(swap[n - 1], p, q, n), q, p, n) IN
  swap[DealSlots]

(* One pays what it has; a purse is never filled beyond MaxZeny. *)
Least(x, y) == IF x <= y THEN x ELSE y
pc_payzeny(z, p, n) == IF n <= z[p] THEN [z EXCEPT ![p] = @ - n] ELSE z
pc_getzeny(z, p, n) == [z EXCEPT ![p] = Least(MaxZeny, @ + n)]
Paid(z, from, to, n) == pc_getzeny(pc_payzeny(z, from, n), to, n)

Exchange(p, q) ==
  /\ inventory' = Swapped(p, q)
  /\ zeny' = Paid(Paid(zeny, p, q, deal[p].zeny), q, p, deal[q].zeny)
  /\ Without({p, q}) /\ Reset({p, q}, deal_locked)
  /\ trading' = [trading EXCEPT ![p] = FALSE, ![q] = FALSE]
  /\ deal' = [deal EXCEPT ![p] = EmptyDeal, ![q] = EmptyDeal]
  /\ UNCHANGED cart

Sound(p, q) == HasDeal(p) /\ HasDeal(q) /\ trade_check(p, q)

(* The one who confirms last makes the exchange happen, or all is          *)
(* cancelled, on behalf of whose deal cannot be.                           *)
Confirm(p) ==
  LET q == trade_partner[p]
      locks == [deal_locked EXCEPT ![p] = 2]
      who == IF HasDeal(p) /\ ~HasDeal(q) THEN q ELSE p IN
  \/ /\ deal_locked[q] # 2
     /\ deal_locked' = locks
     /\ UNCHANGED <<trade_partner, trading, deal, goods>>
  \/ deal_locked[q] = 2 /\ ~Sound(p, q) /\ CancelledAt(who, locks) /\ UNCHANGED goods
  \/ deal_locked[q] = 2 /\ Sound(p, q) /\ Exchange(p, q)

trade_tradecommit(p) ==
  /\ p \in online /\ trading[p] /\ deal_locked[p] > 0
  /\ IF Present(p) THEN Confirm(p) ELSE Cancelled(p) /\ UNCHANGED goods
  /\ UNCHANGED online

(* The client shows a TRADE button once it was told that both deals are    *)
(* locked; the server does not look whether the partner has locked.        *)
HasButton(p) == Present(p) => deal_locked[trade_partner[p]] > 0

-----------------------------------------------------------------------------
Next == \E p \in Players :
  \/ \E q \in Players : trade_traderequest(p, q)
  \/ trade_tradeack(p)
  \/ \E i \in 1 .. Slots : \/ \E n \in Pieces : trade_tradeadditem(p, i, n)
                           \/ battle_consume_ammo(p, i)
  \/ \E n \in 0 .. MaxZeny : trade_tradeaddzeny(p, n)
  \/ trade_tradeok(p)
  \/ trade_tradecancel(p)
  \/ HasButton(p) /\ trade_tradecommit(p)
  \/ unit_remove_map(p)
  \/ pc_reg_received(p)
  \/ \E k \in Kinds : pc_getitemfromcart(p, k)

Spec == Init /\ [][Next]_vars

-----------------------------------------------------------------------------
(* Types; a deal offers each slot of an inventory once. *)
Deal == [item : Seq(DealItem), zeny : 0 .. MaxZeny, weight : Int]
TypeOK ==
  /\ online \subseteq Players
  /\ trade_partner \in [Players -> Players \cup {None}]
  /\ trading \in [Players -> BOOLEAN]
  /\ deal_locked \in [Players -> 0 .. 2]
  /\ deal \in [Players -> Deal]
  /\ \A p \in Players : /\ Len(deal[p].item) <= DealSlots
                        /\ IsInjective([n \in DOMAIN deal[p].item |-> deal[p].item[n].index])
  /\ inventory \in [Players -> Inventory]
  /\ cart \in [Players -> [Kinds -> Nat]]
  /\ zeny \in [Players -> 0 .. MaxZeny]

(* "If a character tries to trade to another one then cancel the previous  *)
(* one" (trade.cpp:57): whoever trades has one partner, who trades with    *)
(* the same player.                                                        *)
TradingPairs ==
  \A p \in online : trading[p] =>
    /\ Present(p)
    /\ LET q == trade_partner[p] IN q # p /\ trading[q] /\ trade_partner[q] = p

(* A player and what it holds of a kind. *)
InBackpack(inv, k) ==
  Sum([i \in 1 .. Slots |-> IF inv[i].kind = k THEN inv[i].amount ELSE 0])
Holding(inv, c, k) == Sum([p \in Players |-> InBackpack(inv[p], k) + c[p][k]])

(* Whatever is exchanged, refused or cancelled, by whomever and with       *)
(* whatever in the way: nothing is made or lost, arrows only by shooting.  *)
Conserved ==
  /\ \A k \in Kinds \ Ammo : Holding(inventory, cart, k) = Holding(Backpack, Cart, k)
  /\ \A k \in Ammo : Holding(inventory, cart, k) <= Holding(Backpack, Cart, k)
  /\ Sum(zeny) = Sum(Purse)

(* What a player saw when it pressed TRADE is what it gets: from then on   *)
(* its partner, its deal and its partner's stay as they are, until all is  *)
(* exchanged or cancelled.                                                 *)
KeepsSeen ==
  \A p \in online : deal_locked[p] = 2 =>
    \/ deal_locked'[p] = 0
    \/ LET q == trade_partner[p] IN
         trade_partner'[p] = q /\ deal'[p] = deal[p] /\ deal'[q] = deal[q]
SeenIsFinal == [][KeepsSeen]_vars

(* What p gives of a kind. *)
Gives(p, k) == LET d == deal[p].item IN
  Sum([n \in DOMAIN d |-> IF inventory[p][d[n].index].kind = k THEN d[n].amount ELSE 0])

(* "check for full inventory (can not add traded items)" (trade.cpp:597)   *)
(* before "trade is accepted and correct." (trade.cpp:603): when a trade   *)
(* that both can carry is made and anything changes hands, everything      *)
(* does: nobody pays, or gives an item, for one that the other keeps.      *)
CanCarry(p, q) == WeightOf(inventory[q]) + deal[p].weight <= MaxWeight
Made(p, q) == /\ trade_partner[p] = q /\ deal_locked[p] > 0 /\ deal_locked[q] > 0
              /\ CanCarry(p, q) /\ CanCarry(q, p)
              /\ ~trading'[p] /\ goods' # goods
Complete ==
  [][\A p, q \in Players : Made(p, q) =>
       /\ zeny'[q] = zeny[q] + deal[p].zeny - deal[q].zeny
       /\ \A k \in Kinds : InBackpack(inventory'[q], k) =
                            InBackpack(inventory[q], k) + Gives(p, k) - Gives(q, k)]_vars
=============================================================================
