------------------------------- MODULE Shops -------------------------------
(***************************************************************************)
(* Shops of players on a map-server: vending.cpp, where a player sells     *)
(* what is in its cart, and buyingstore.cpp, where one buys up to some     *)
(* amounts and a limit of zeny.  Others see a list in their client and     *)
(* answer it later; meanwhile the shop sells to somebody else, closes and  *)
(* opens again with other prices, loses items or money to scripts, or its  *)
(* owner becomes weaker.  The owner may leave its shop alone (@autotrade). *)
(***************************************************************************)
EXTENDS Integers, Sequences, FiniteSets, Folds, Functions, SequencesExt

CONSTANTS Players,     \* account ids
          Vendors,     \* players with the vending skill and a cart
          Collectors,  \* players who open buying stores
          Kinds,       \* kinds of items: what makes two of them equal
          Stackable,   \* kinds that share a slot
          NameId,      \* NameId[k]: kinds that differ in cards have the same
          Wanted,      \* kinds a buying store may list
          Weight,      \* Weight[k]
          Strong, Weak,  \* max_weight with and without a passing bonus
          Slots,       \* MAX_INVENTORY
          CartSlots,   \* MAX_CART
          MaxAmount,   \* MAX_AMOUNT
          MaxZeny,     \* MAX_ZENY
          TaxMin, TaxRate,  \* vending_tax_min, vending_tax in percent
          PriceTags,   \* price tags of vending players: a price for each slot
          Offered,     \* prices of buying stores
          MaxEvents,   \* how many shops are opened and how often something
                       \* interferes from outside, in all
          MaxReplies,  \* bound on the answers on their way to a player
          Backpacks,   \* the inventories that players may have at first
          Carts,       \* the carts at first
          Purses,      \* the zeny at first
          Void         \* no item, no owner

VARIABLES online,     \* who is in the game
          shop,       \* shop[p]: "none", "vending" or "buyingstore"
          prevend,    \* state.prevend: "no", or the cart is read ("wait") before
                      \* the vending window opens ("window")
          stored,     \* stored[p]: the cart in the database
          reply,      \* reply[p]: on its way from the char-server: an acknowledged
                      \* save, or the cart
          uid,        \* vender_id, buyer_id
          list,       \* vending: lines of [index, amount, value];
                      \* buyingstore.items: lines of [kind, amount, price]
          zenylimit,  \* buyingstore.zenylimit
          autotrade,  \* state.autotrade
          seen,       \* seen[p]: the list in the client of p
          max_weight, \* max_weight[p]
          inventory, cart, zeny,
          nextid,     \* vending_nextid, buyingstore_nextid
          events

goods == <<inventory, cart, zeny>>
stalls == <<shop, prevend, uid, list, zenylimit, autotrade>>
server == <<stored, reply>>
shopvars == <<online, stalls, server, seen, max_weight, goods, nextid, events>>

Nothing == [kind |-> Void, amount |-> 0]
NotSeen == [owner |-> Void, uid |-> 0, list |-> <<>>]
ItemIn(S) == [kind : S, amount : 1 .. MaxAmount] \cup {Nothing}

(* Kinds that share a slot have one slot in an inventory or a cart. *)
Stacked(inv) == \A k \in Stackable : \A i, j \in DOMAIN inv : inv[i].kind = k /\ inv[j].kind = k => i = j

(* What the properties need of the constants.  The item database allows    *)
(* only kinds that share a slot in buying stores (itemdb.cpp:539).         *)
ShopConstantsOK ==
  /\ IsFiniteSet(Players) /\ Void \notin Players \cup Kinds
  /\ Stackable \subseteq Kinds /\ Wanted \subseteq Stackable /\ IsFiniteSet(Wanted)
  /\ Weight \in [Kinds -> Nat]
  /\ {Strong, Weak, Slots, CartSlots, MaxAmount, MaxZeny, TaxMin, MaxEvents} \subseteq Nat /\ TaxRate \in 0 .. 100
  /\ \A v \in PriceTags : \A i \in 1 .. CartSlots : v[i] \in Nat
  /\ Offered \subseteq Nat
  /\ Backpacks \subseteq [Players -> [1 .. Slots -> ItemIn(Kinds)]]
  /\ Carts \subseteq [Players -> [1 .. CartSlots -> ItemIn(Kinds)]]
  /\ \A has \in Backpacks \cup Carts : \A p \in Players : Stacked(has[p])
  /\ Purses \subseteq [Players -> 0 .. MaxZeny]

ShopInit ==
  /\ online = Players
  /\ shop = [p \in Players |-> "none"]
  /\ prevend = [p \in Players |-> "no"]
  /\ inventory \in Backpacks /\ cart \in Carts /\ zeny \in Purses
  /\ stored = cart /\ reply = [p \in Players |-> <<>>]
  /\ uid = [p \in Players |-> 0]
  /\ list = [p \in Players |-> <<>>]
  /\ zenylimit = [p \in Players |-> 0]
  /\ autotrade = [p \in Players |-> FALSE]
  /\ seen = [p \in Players |-> NotSeen]
  /\ max_weight = [p \in Players |-> Strong]
  /\ nextid = 0 /\ events = 0

-----------------------------------------------------------------------------
(* Inventories and purses, pc.cpp. *)

Sum(f) == FoldFunction(LAMBDA x, y : x + y, 0, f)
First(S) == CHOOSE i \in S : \A j \in S : i <= j
Load(item) == IF item = Nothing THEN 0 ELSE Weight[item.kind] * item.amount
WeightIn(inv) == Sum([i \in 1 .. Slots |-> Load(inv[i])])
WeightOf(p) == WeightIn(inventory[p])
FreeSlots(inv) == {i \in DOMAIN inv : inv[i] = Nothing}
StackOf(inv, k) == {i \in DOMAIN inv : k \in Stackable /\ inv[i].kind = k}

Alike(inv, k) == {i \in DOMAIN inv : inv[i] # Nothing /\ NameId[inv[i].kind] = NameId[k]}
(* Mutant: a stack for it is always there. *)
stacks_always(inv, k, n) == "exist"

(* It finds the first stack with the same nameid, whatever its cards are.  *)
pc_checkadditem(inv, k, n) ==
  CASE n > MaxAmount -> "overamount"
    [] k \notin Stackable \/ Alike(inv, k) = {} -> "new"
    [] OTHER -> IF n > MaxAmount - inv[First(Alike(inv, k))].amount THEN "overamount" ELSE "exist"

(* pc_additem and pc_cart_additem put an item on a stack of the same kind  *)
(* or into a free slot; what does not fit is left out, and vending and     *)
(* buying stores do not look at the result.                                *)
additem(inv, k, n, overweight) ==
  LET stack == StackOf(inv, k) IN
  CASE overweight -> inv
    [] ~overweight /\ stack # {} ->
         IF n > MaxAmount - inv[First(stack)].amount THEN inv
         ELSE [inv EXCEPT ![First(stack)].amount = @ + n]
    [] OTHER -> IF FreeSlots(inv) = {} THEN inv
                ELSE [inv EXCEPT ![First(FreeSlots(inv))] = [kind |-> k, amount |-> n]]

(* pc_delitem and pc_cart_delitem do nothing when there are fewer pieces.  *)
delitem(inv, i, n) ==
  [inv EXCEPT ![i] = CASE @.amount < n -> @
                       [] @.amount = n -> Nothing
                       [] OTHER -> [kind |-> @.kind, amount |-> @.amount - n]]

Room(p) == MaxZeny - zeny[p]
AtMost(n, limit) == IF n < limit THEN n ELSE limit

(* Items move between backpack and cart unless a shop is being set up. *)
MayMove(p) == p \in online \cap Vendors /\ shop[p] = "none" /\ prevend[p] = "no"

pc_putitemtocart(p, i) ==
  LET k == inventory[p][i].kind
      filled == additem(cart[p], k, 1, FALSE) IN
  /\ MayMove(p) /\ inventory[p][i] # Nothing /\ filled # cart[p]
  /\ cart' = [cart EXCEPT ![p] = filled]
  /\ inventory' = [inventory EXCEPT ![p] = delitem(@, i, 1)]
  /\ UNCHANGED <<online, stalls, server, seen, max_weight, zeny, nextid, events>>

pc_getitemfromcart(p, i) ==
  LET k == cart[p][i].kind
      filled == additem(inventory[p], k, 1, WeightOf(p) + Weight[k] > max_weight[p]) IN
  /\ MayMove(p) /\ cart[p][i] # Nothing /\ filled # inventory[p]
  /\ inventory' = [inventory EXCEPT ![p] = filled]
  /\ cart' = [cart EXCEPT ![p] = delitem(@, i, 1)]
  /\ UNCHANGED <<online, stalls, server, seen, max_weight, zeny, nextid, events>>

(* A bonus of a shop owner ends, a script or a hungry pet takes an item    *)
(* from its cart or backpack, or something costs zeny.                     *)
Interferes(p) == /\ p \in online /\ (shop[p] # "none" \/ prevend[p] # "no")
                 /\ nextid + events < MaxEvents /\ events' = events + 1

WeightDrops(p) ==
  /\ Interferes(p) /\ max_weight[p] = Strong
  /\ max_weight' = [max_weight EXCEPT ![p] = Weak]
  /\ UNCHANGED <<online, stalls, server, seen, goods, nextid>>

Costs(p) ==
  /\ Interferes(p) /\ zeny[p] > 0
  /\ zeny' = [zeny EXCEPT ![p] = @ - 1]
  /\ UNCHANGED <<online, stalls, server, seen, max_weight, inventory, cart, nextid>>

TakenFromCart(p, i) ==
  /\ Interferes(p) /\ cart[p][i] # Nothing
  /\ cart' = [cart EXCEPT ![p] = delitem(@, i, 1)]
  /\ UNCHANGED <<online, stalls, server, seen, max_weight, inventory, zeny, nextid>>

TakenFromBackpack(p, i) ==
  /\ Interferes(p) /\ inventory[p][i] # Nothing
  /\ inventory' = [inventory EXCEPT ![p] = delitem(@, i, 1)]
  /\ UNCHANGED <<online, stalls, server, seen, max_weight, cart, zeny, nextid>>

-----------------------------------------------------------------------------
(* Carts and the char-server. *)

Saved == [type |-> "saved", cart |-> <<>>]
Loaded(c) == [type |-> "cart", cart |-> c]

(* chrif_save with CSAVE_CART. *)
Saves(p) == /\ stored' = [stored EXCEPT ![p] = cart'[p]]
            /\ reply' = [reply EXCEPT ![p] = Append(@, Saved)]

pc_autosave_cart(p) ==
  /\ Interferes(p)
  /\ UNCHANGED cart /\ Saves(p)
  /\ UNCHANGED <<online, stalls, seen, max_weight, inventory, zeny, nextid>>

(* The numbers of S from the least on, and the entries of s that they name. *)
InOrder(S) == CHOOSE f \in [1 .. Cardinality(S) -> S] :
                \A i, j \in 1 .. Cardinality(S) : i < j => f[i] < f[j]
Entries(s, S) == [j \in 1 .. Cardinality(S) |-> s[InOrder(S)[j]]]

(* The database returns the items without the gaps between them. *)
Packed(c) == LET full == Entries(c, {i \in 1 .. CartSlots : c[i] # Nothing}) IN
             [i \in 1 .. CartSlots |-> IF i <= Len(full) THEN full[i] ELSE Nothing]

(* An acknowledged save makes a player who sets up a shop ask for the      *)
(* cart, and its answer replaces the cart whatever happened since.         *)
ReceiveReply(p) ==
  /\ reply[p] # <<>>
  /\ LET r == Head(reply[p])
         asks == r = Saved /\ prevend[p] # "no" /\ p \in online
         loaded == r # Saved /\ p \in online IN
     /\ reply' = [reply EXCEPT ![p] = IF asks THEN Append(Tail(@), Loaded(Packed(stored[p]))) ELSE Tail(@)]
     /\ cart' = IF loaded THEN [cart EXCEPT ![p] = r.cart] ELSE cart
     /\ prevend' = IF loaded /\ prevend[p] # "no" THEN [prevend EXCEPT ![p] = "window"] ELSE prevend
  /\ UNCHANGED <<online, shop, uid, list, zenylimit, autotrade, stored, seen, max_weight, inventory, zeny, nextid, events>>

-----------------------------------------------------------------------------
(* Opening and closing. *)

(* The vending skill: with an item in the cart that the database does not  *)
(* know, the cart is saved and read again before the window opens.         *)
SkillVending(p) ==
  /\ MayMove(p)
  /\ UNCHANGED cart
  /\ \/ prevend' = [prevend EXCEPT ![p] = "window"] /\ UNCHANGED server
     \/ prevend' = [prevend EXCEPT ![p] = "wait"] /\ Saves(p)
  /\ UNCHANGED <<online, shop, uid, list, zenylimit, autotrade, seen, max_weight,
                 inventory, zeny, nextid, events>>

(* The player cancels the window. *)
CancelVending(p) ==
  /\ p \in online /\ prevend[p] = "window"
  /\ prevend' = [prevend EXCEPT ![p] = "no"]
  /\ UNCHANGED <<online, shop, server, uid, list, zenylimit, autotrade, seen, max_weight,
                 goods, nextid, events>>

Opens(p, kind, lines) ==
  /\ nextid + events < MaxEvents /\ nextid' = nextid + 1
  /\ shop' = [shop EXCEPT ![p] = kind]
  /\ uid' = [uid EXCEPT ![p] = nextid + 1]
  /\ list' = [list EXCEPT ![p] = lines]

(* A shop with the slots S of the cart, n[i] pieces of each for v[i].  One *)
(* line that is not in the cart any more keeps the shop closed.            *)
vending_openvending(p, S, n, v) ==
  /\ p \in online /\ prevend[p] = "window" /\ shop[p] = "none"
  /\ \A i \in S : cart[p][i] # Nothing /\ n[i] <= cart[p][i].amount
  /\ Opens(p, "vending",
           [j \in 1 .. Cardinality(S) |->
              LET i == InOrder(S)[j] IN [index |-> i, amount |-> n[i], value |-> v[i]]])
  /\ prevend' = [prevend EXCEPT ![p] = "no"]
  /\ UNCHANGED cart /\ Saves(p)
  /\ UNCHANGED <<online, zenylimit, autotrade, seen, max_weight, inventory, zeny, events>>

(* A store that buys n[k] pieces of each kind of S for v[k]: one piece of  *)
(* each must be owned, and all must fit into nine tenths of max_weight.    *)
buyingstore_create(p, S, n, v, limit) ==
  /\ p \in online /\ shop[p] = "none" /\ p \in Collectors
  /\ 0 < limit /\ limit <= zeny[p]
  /\ \A k \in S : /\ Alike(inventory[p], k) # {}
                  /\ inventory[p][First(Alike(inventory[p], k))].amount + n[k] <= MaxAmount
  /\ WeightOf(p) + Sum([k \in S |-> Weight[k] * n[k]]) <= (max_weight[p] * 90) \div 100
  /\ Opens(p, "buyingstore",
           [j \in 1 .. Cardinality(S) |->
              LET k == SetToSeq(S)[j] IN [kind |-> k, amount |-> n[k], price |-> v[k]]])
  /\ zenylimit' = [zenylimit EXCEPT ![p] = limit]
  /\ UNCHANGED <<online, prevend, server, autotrade, seen, max_weight, goods, events>>

(* vending_closevending, buyingstore_close: nobody reads the list again.   *)
Closed(p) == /\ shop' = [shop EXCEPT ![p] = "none"]
             /\ uid' = [uid EXCEPT ![p] = 0]
             /\ list' = [list EXCEPT ![p] = <<>>]
             /\ zenylimit' = [zenylimit EXCEPT ![p] = 0]

Close(p) ==
  /\ p \in online /\ shop[p] # "none" /\ ~autotrade[p]
  /\ Closed(p)
  /\ UNCHANGED <<online, prevend, server, autotrade, seen, max_weight, goods, nextid, events>>

Autotrade(p) ==
  /\ Interferes(p) /\ shop[p] # "none" /\ ~autotrade[p]
  /\ autotrade' = [autotrade EXCEPT ![p] = TRUE]
  /\ UNCHANGED <<online, shop, prevend, uid, list, zenylimit, server, seen, max_weight, goods, nextid>>

(* map_quit closes the shop, too. *)
map_quit_shop(p) ==
  /\ Interferes(p)
  /\ online' = online \ {p}
  /\ Closed(p)
  /\ UNCHANGED cart /\ Saves(p)
  /\ UNCHANGED <<prevend, autotrade, seen, max_weight, inventory, zeny, nextid>>

(* A player looks at the shop of another one. *)
OpenList(p, owner) ==
  /\ p \in online /\ owner \in online \ {p} /\ shop[owner] # "none"
  /\ shop[p] = "none"
  /\ seen' = [seen EXCEPT ![p] = [owner |-> owner, uid |-> uid[owner], list |-> list[owner]]]
  /\ UNCHANGED <<online, stalls, server, max_weight, goods, nextid, events>>

-----------------------------------------------------------------------------
(* Deals.  An order takes n[j] pieces of each line j of S; a visitor acts  *)
(* on the list it has seen, and sees it no more afterwards.                *)

(* Mutant: does not compare the number of the shop. *)
any_shop_of_it(p, kind) == /\ p \in online /\ seen[p].owner \in online
                           /\ shop[seen[p].owner] = kind

(* The shop is the one that the visitor has seen. *)
SameShop(p, kind) == /\ p \in online /\ seen[p].owner \in online
                     /\ shop[seen[p].owner] = kind /\ uid[seen[p].owner] = seen[p].uid

Lines(p, i) == {j \in DOMAIN list[p] : list[p][j].index = i}

(* Mutant: does not look how many are in the cart. *)
as_listed(p, i) == IF cart[p][i] = Nothing THEN 0 ELSE list[p][First(Lines(p, i))].amount

(* What is left to sell in slot i of the cart: never more than is there.   *)
Left(p, i) == AtMost(list[p][First(Lines(p, i))].amount, cart[p][i].amount)

(* The receiver gets the pieces one line after the other. *)
Received(p, inv, order) ==
  FoldLeft(LAMBDA i, o : additem(i, o.kind, o.amount,
                                 WeightIn(i) + Weight[o.kind] * o.amount > max_weight[p]),
           inv, order)

(* pc_payzeny and pc_getzeny: what the receiver has no room for is lost. *)
Pays(payer, payee, cost, gain) ==
  zeny' = [zeny EXCEPT ![payer] = @ - cost, ![payee] = @ + AtMost(gain, Room(payee))]
vending_calc_tax(z) == IF z >= TaxMin THEN (z * (100 - TaxRate)) \div 100 ELSE z

(* A shop owner who is not there leaves when the shop is done. *)
Done(p) == /\ Closed(p)
           /\ online' = IF autotrade[p] THEN online \ {p} ELSE online

PurchaseAccepted(b, S, n) ==
  LET s == seen[b].owner
      at(j) == seen[b].list[j].index
      cost == Sum([j \in S |-> n[j] * list[s][First(Lines(s, at(j)))].value])
      weight == Sum([j \in S |-> n[j] * Weight[cart[s][at(j)].kind]])
      check(j) == pc_checkadditem(inventory[b], cart[s][at(j)].kind, n[j]) IN
  /\ SameShop(b, "vending")
  /\ Cardinality(S) <= Len(list[s])
  /\ \A j \in S : Lines(s, at(j)) # {} /\ n[j] <= Left(s, at(j))
  /\ cost <= zeny[b]
  /\ WeightOf(b) + weight <= max_weight[b]
  /\ \A j \in S : check(j) # "overamount"
  /\ Cardinality({j \in S : check(j) = "new"}) <= Cardinality(FreeSlots(inventory[b]))

Purchase(b, S, n) ==
  LET s == seen[b].owner
      at(j) == seen[b].list[j].index
      cost == Sum([j \in S |-> n[j] * list[s][First(Lines(s, at(j)))].value])
      order == [j \in 1 .. Cardinality(S) |->
                  [kind |-> cart[s][at(InOrder(S)[j])].kind, amount |-> n[InOrder(S)[j]]]]
      sold(i) == {j \in S : at(j) = i}
      sells(i) == IF sold(i) = {} THEN 0 ELSE n[First(sold(i))]
      left == [j \in DOMAIN list[s] |-> [list[s][j] EXCEPT !.amount = @ - sells(list[s][j].index)]]
      rest == Entries(left, {j \in DOMAIN left : left[j].amount > 0}) IN
  /\ inventory' = [inventory EXCEPT ![b] = Received(b, @, order)]
  /\ cart' = [cart EXCEPT ![s] = [i \in 1 .. CartSlots |->
                IF sold(i) = {} THEN @[i] ELSE delitem(@, i, sells(i))[i]]]
  /\ Pays(b, s, cost, vending_calc_tax(cost))
  /\ Saves(s)
  /\ IF autotrade[s] /\ rest = <<>>
       THEN Done(s)
       ELSE list' = [list EXCEPT ![s] = rest] /\ UNCHANGED <<online, shop, uid, zenylimit>>

vending_purchasereq(b, S, n) ==
  /\ b \in online /\ seen[b].owner # Void
  /\ seen' = [seen EXCEPT ![b] = NotSeen]
  /\ IF PurchaseAccepted(b, S, n) THEN Purchase(b, S, n)
     ELSE UNCHANGED <<online, shop, uid, list, zenylimit, server, goods>>
  /\ UNCHANGED <<prevend, autotrade, max_weight, nextid, events>>

(* Pieces that the store of p still wants of a kind, and what it pays.     *)
WantedLine(p, k) == {j \in DOMAIN list[p] : list[p][j].kind = k}
Wants(p, k) == list[p][First(WantedLine(p, k))]

(* Mutant: does not look at the limit. *)
has_the_zeny(o, cost, limit) == cost <= zeny[o]

(* The order stays within what the owner is ready to spend. *)
WithinLimit(o, cost, limit) == cost <= limit

(* The check of the weight is done on unsigned numbers: it always passes   *)
(* for an owner who is over its maximum already.                           *)
SaleAccepted(o, b, S, n, limit) ==
  LET k(i) == inventory[b][i].kind IN
  /\ \A i \in S : /\ WantedLine(o, k(i)) # {} /\ n[i] <= Wants(o, k(i)).amount
                  /\ n[i] <= inventory[b][i].amount
                  /\ pc_checkadditem(inventory[o], k(i), n[i]) # "overamount"
  /\ \/ WeightOf(o) > max_weight[o]
     \/ WeightOf(o) + Sum([i \in S |-> n[i] * Weight[k(i)]]) <= max_weight[o]
  /\ WithinLimit(o, Sum([i \in S |-> n[i] * Wants(o, k(i)).price]), limit)

Sale(o, b, S, n, limit) ==
  LET k(i) == inventory[b][i].kind
      cost == Sum([i \in S |-> n[i] * Wants(o, k(i)).price])
      order == [j \in 1 .. Cardinality(S) |->
                  [kind |-> k(InOrder(S)[j]), amount |-> n[InOrder(S)[j]]]]
      got(x) == Sum([i \in {i \in S : k(i) = x} |-> n[i]])
      left == [j \in DOMAIN list[o] |-> [list[o][j] EXCEPT !.amount = @ - got(list[o][j].kind)]] IN
  /\ inventory' = [inventory EXCEPT
                     ![o] = Received(o, @, order),
                     ![b] = [i \in 1 .. Slots |-> IF i \in S THEN delitem(@, i, n[i])[i] ELSE @[i]]]
  /\ Pays(o, b, cost, cost)
  /\ IF limit = cost \/ \A j \in DOMAIN left : left[j].amount = 0
       THEN Done(o)
       ELSE /\ list' = [list EXCEPT ![o] = left]
            /\ zenylimit' = [zenylimit EXCEPT ![o] = limit - cost]
            /\ UNCHANGED <<online, shop, uid>>

(* Mutant: the limit stays when the owner has less by now. *)
as_it_was(o) == zenylimit[o]

(* The buyer lost zeny in the mean time? *)
Limit(o) == AtMost(zenylimit[o], zeny[o])

(* A limit that the owner cannot pay any more is lowered, even when        *)
(* nothing is sold then.                                                   *)
buyingstore_trade(b, S, n) ==
  LET o == seen[b].owner
      limit == Limit(o) IN
  /\ b \in online /\ o # Void
  /\ seen' = [seen EXCEPT ![b] = NotSeen]
  /\ IF SameShop(b, "buyingstore") /\ shop[b] = "none"
       THEN IF SaleAccepted(o, b, S, n, limit) THEN Sale(o, b, S, n, limit)
            ELSE /\ zenylimit' = [zenylimit EXCEPT ![o] = limit]
                 /\ UNCHANGED <<online, shop, uid, list, inventory, zeny>>
       ELSE UNCHANGED <<online, shop, uid, list, zenylimit, inventory, zeny>>
  /\ UNCHANGED <<prevend, autotrade, server, cart, max_weight, nextid, events>>

-----------------------------------------------------------------------------
FewReplies == \A p \in Players : Len(reply[p]) < MaxReplies
Pieces(S, most(_)) == {n \in [S -> 1 .. MaxAmount] : \A j \in S : n[j] <= most(j)}
Chosen(S) == SUBSET S \ {{}}

SetsUpVending(p) ==
  \E S \in Chosen({i \in 1 .. CartSlots : cart[p][i] # Nothing}) :
  \E n \in Pieces(S, LAMBDA i : cart[p][i].amount), v \in PriceTags :
    vending_openvending(p, S, n, v)

SetsUpStore(p) ==
  \E S \in Chosen(Wanted), limit \in 1 .. MaxZeny :
  \E n \in [S -> 1 .. MaxAmount], v \in [S -> Offered] :
    buyingstore_create(p, S, n, v, limit)

(* The client answers a vending list with lines of it, and a list of wants *)
(* with slots of the backpack.                                             *)
IsVendingList(s) == \A j \in DOMAIN s.list : "index" \in DOMAIN s.list[j]
Buys(b) ==
  /\ IsVendingList(seen[b])
  /\ \E S \in Chosen(DOMAIN seen[b].list) :
     \E n \in Pieces(S, LAMBDA j : seen[b].list[j].amount) : vending_purchasereq(b, S, n)
Sells(b) ==
  /\ ~IsVendingList(seen[b])
  /\ \E S \in Chosen({i \in 1 .. Slots : \E j \in DOMAIN seen[b].list :
                        seen[b].list[j].kind = inventory[b][i].kind}) :
     \E n \in Pieces(S, LAMBDA i : inventory[b][i].amount) : buyingstore_trade(b, S, n)

Act(p) ==
  \/ \E i \in 1 .. Slots : pc_putitemtocart(p, i) \/ TakenFromBackpack(p, i)
  \/ \E i \in 1 .. CartSlots : pc_getitemfromcart(p, i) \/ TakenFromCart(p, i)
  \/ WeightDrops(p) \/ Costs(p) \/ pc_autosave_cart(p) \/ Autotrade(p) \/ map_quit_shop(p)
  \/ SkillVending(p) \/ CancelVending(p) \/ SetsUpVending(p)
  \/ SetsUpStore(p) \/ Close(p)
  \/ \E owner \in Players : OpenList(p, owner)
  \/ Buys(p) \/ Sells(p)

ShopNext == \E p \in Players : (FewReplies /\ Act(p)) \/ ReceiveReply(p)
ShopSpec == ShopInit /\ [][ShopNext]_shopvars

-----------------------------------------------------------------------------
(* Properties. *)

(* The state has the types that the code gives it: in particular, no       *)
(* amount, limit or purse ever falls below zero, where it would wrap       *)
(* around (uint16 amount of a buying store).                               *)
ShopTypes ==
  /\ online \subseteq Players
  /\ shop \in [Players -> {"none", "vending", "buyingstore"}]
  /\ prevend \in [Players -> {"no", "wait", "window"}]
  /\ uid \in [Players -> 0 .. MaxEvents] /\ nextid \in 0 .. MaxEvents
  /\ zenylimit \in [Players -> 0 .. MaxZeny] /\ zeny \in [Players -> 0 .. MaxZeny]
  /\ autotrade \in [Players -> BOOLEAN]
  /\ max_weight \in [Players -> {Strong, Weak}]
  /\ inventory \in [Players -> [1 .. Slots -> ItemIn(Kinds)]]
  /\ cart \in [Players -> [1 .. CartSlots -> ItemIn(Kinds)]]
  /\ \A p \in Players : \A j \in DOMAIN list[p] : list[p][j].amount \in 0 .. MaxAmount
  /\ events \in 0 .. MaxEvents

Count(inv, k) == Sum([i \in DOMAIN inv |-> IF inv[i].kind = k THEN inv[i].amount ELSE 0])
Total(invs, carts, k) == Sum([p \in Players |-> Count(invs[p], k) + Count(carts[p], k)])

(* However lists age and scripts take things, no step leaves more pieces   *)
(* of a kind or more zeny with the players than there were, but for a cart *)
(* that is read again.  Nothing is added up when nothing moves.            *)
Reread(p) == reply[p] # <<>> /\ Head(reply[p]) # Saved /\ reply'[p] = Tail(reply[p])
CopiesNothing ==
  /\ \A k \in Kinds : \/ Total(inventory', cart', k) <= Total(inventory, cart, k)
                       \/ \E p \in Players : Reread(p)
  /\ Sum(zeny') <= Sum(zeny)
NothingCopied == [][UNCHANGED goods \/ CopiesNothing]_goods

(* The receiver may miss pieces of the kinds that others hand over: it has *)
(* another kind with the same nameid, which pc_checkadditem takes for a    *)
(* stack to put them on, or it is a buying store that is over its maximal  *)
(* weight or has fewer free slots than there are kinds it has no stack of. *)
Gone(q) == {k \in Kinds : Count(inventory'[q], k) + Count(cart'[q], k) < Count(inventory[q], k) + Count(cart[q], k)}
MayMiss(p) ==
  LET moved == UNION {Gone(q) : q \in Players \ {p}} IN
  \/ \E k \in moved : \E i \in Alike(inventory[p], k) : inventory[p][i].kind # k
  \/ /\ shop[p] = "buyingstore"
     /\ \/ WeightOf(p) > max_weight[p]
        \/ Cardinality({k \in moved : StackOf(inventory[p], k) = {}}) > Cardinality(FreeSlots(inventory[p]))

(* A deal in which somebody pays moves the pieces to the one who pays: the *)
(* number of each kind stays the same.  pc_additem may still refuse what   *)
(* the checks of both shops let pass, only in the cases of MayMiss.        *)
Delivers ==
  \A p \in Players, k \in Kinds :
    zeny'[p] < zeny[p] =>
      Total(inventory', cart', k) = Total(inventory, cart, k) \/ MayMiss(p)
Delivered == [][Delivers]_goods

(* A customer of a vending shop pays for what leaves the cart what its own *)
(* list says, although the shop may have sold to others, closed and opened *)
(* again meanwhile.                                                        *)
PaysItsList ==
  \A b \in Players :
    (zeny'[b] < zeny[b] /\ cart' # cart) =>
      LET s == seen[b].owner
          paid(l) == l.value * (cart[s][l.index].amount - cart'[s][l.index].amount) IN
      zeny[b] - zeny'[b] = Sum([j \in DOMAIN seen[b].list |-> paid(seen[b].list[j])])

(* The owner of a buying store never pays beyond its limit, nor for a kind *)
(* or a piece more than it wants.                                          *)
KeepsBudget ==
  \A o \in Players : \A b \in Players \ {o} :
    (zeny'[o] < zeny[o] /\ inventory'[b] # inventory[b]) =>
      /\ zeny[o] - zeny'[o] <= zenylimit[o]
      /\ \A k \in Kinds :
           LET gone == Count(inventory[b], k) - Count(inventory'[b], k) IN
           gone > 0 => WantedLine(o, k) # {} /\ gone <= Wants(o, k).amount

(* Nobody pays in a shop but what it agreed to. *)
AgreedPrice == PaysItsList /\ KeepsBudget
PaysAsAgreed == [][AgreedPrice]_goods
=============================================================================
