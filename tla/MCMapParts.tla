----------------------------- MODULE MCMapParts -----------------------------
(* Parts of the map-server that do not meet in the code, checked in one    *)
(* run: a behaviour is one of a single part, a shop or a party.            *)
EXTENDS Party, Shops

CONSTANTS v1, c1, b1,              \* owner of a shop, and its visitors
          apple, signed, sword,    \* an apple, one with a card, and no apple
          a1, d1, e1               \* more members of parties

VARIABLE part

-----------------------------------------------------------------------------
(* The shops.  Two customers and two price tags, where the char-server     *)
(* answers before anybody acts; two lines; one customer and answers that   *)
(* come late; and a buying store.                                          *)
MCPlayers == {v1, c1, b1}
MCVendors == {v1}
MCCollectors == {c1}
MCKinds == {apple, signed, sword}
MCStackable == {apple, signed}
MCNameId == [k \in MCKinds |-> IF k = sword THEN sword ELSE apple]
MCWanted == {apple}
MCWeight == [k \in MCKinds |-> 1]
MCPriceTags == {<<1, 2>>, <<2, 1>>}
MCOffered == {1, 2}
ShopParts == {"tags", "lines", "late", "store"}

One(k, n) == [kind |-> k, amount |-> n]
(* Customers of a vending shop have one slot for what they buy. *)
BackpackOf == [p \in ShopParts |->
  IF p = "store" THEN c1 :> <<One(apple, 1), Nothing>> @@ b1 :> <<One(apple, 2), Nothing>>
                      @@ v1 :> <<One(signed, 1), One(apple, 1)>>
  ELSE v1 :> <<Nothing, Nothing>> @@ c1 :> <<Nothing, One(sword, 1)>>
       @@ b1 :> <<IF p = "tags" THEN One(signed, 1) ELSE Nothing, One(sword, 1)>>]
CartOf == [p \in ShopParts |-> [q \in MCPlayers |->
  CASE p = "store" \/ q # v1 -> <<Nothing, Nothing>>
    [] p = "lines" -> <<One(apple, 1), One(sword, 1)>>
    [] OTHER -> <<One(apple, 2), Nothing>>]]
PurseOf == [p \in ShopParts |->
  CASE p = "tags" -> v1 :> 1 @@ c1 :> 1 @@ b1 :> 2
    [] p = "store" -> v1 :> 0 @@ c1 :> 3 @@ b1 :> 0
    [] OTHER -> v1 :> 1 @@ c1 :> 2 @@ b1 :> 2]
MCBackpacks == {BackpackOf[p] : p \in ShopParts}
MCCarts == {CartOf[p] : p \in ShopParts}
MCPurses == {PurseOf[p] : p \in ShopParts}

(* Bounds: who acts in each part, and how often. *)
InShops(p) ==
  /\ Act(p)
  /\ part = "store" => UNCHANGED <<cart, prevend>>
  /\ part # "store" => nextid' + events' <= 2 /\ \A q \in Players : shop'[q] # "buyingstore"
  /\ part \in {"tags", "lines"} => \A q \in Players : reply[q] = <<>>
  /\ part = "late" => p # b1
  /\ part \in {"lines", "late"} => \A l \in DOMAIN list'[v1] : list'[v1][l].value = list'[v1][l].index

ASSUME ShopAssumption == ShopConstantsOK

-----------------------------------------------------------------------------
(* The parties.  Members of different levels, one of whom may rise above   *)
(* or fall below all others; for one part the party is full, for one       *)
(* everybody may play on one map-server.                                   *)
MCChars == {a1, b1, c1, d1, e1}
MCServers == {0, 1}
MCLevels == [c \in MCChars |-> CASE c = a1 -> 2 [] c = c1 -> 4 [] OTHER -> 3]
MCLeap == {-2, 1, 2}
MCAsked == {"create", "invite", "leave", "expel", "leader", "option", "level",
            "quit", "login", "save"}
Two == {a1, b1}
Three == {a1, b1, c1}
Four == {a1, b1, c1, d1}
Full == {a1, b1, d1, e1}
MCFounders == {Two, Three, Full}
Apart == [c \in MCChars |-> CASE c = b1 -> 1 [] c \in {a1, c1} -> 0 [] OTHER -> None]
OneAway == [c \in MCChars |-> IF c \in {a1, c1} THEN 0 ELSE None]
TwoAway == [c \in MCChars |-> IF c \in {a1, d1} THEN 0 ELSE None]
Together == [c \in MCChars |-> IF c = e1 THEN None ELSE 0]
MCPlaces == {Apart, OneAway, TwoAway, Together}

ASSUME PartyAssumption == ConstantsOK

(* A start of Party with these founders at these places. *)
Starts(founders, place) ==
  /\ DOMAIN party_db_[1].member = founders
  /\ \A c \in MCChars : player[c].at = place[c]
StartOf(p) == CASE p = "members" -> Starts(Full, Apart)
                [] p = "founding" -> Starts(Two, OneAway)
                [] OTHER -> Starts(Three, TwoAway) \/ Starts(Three, Together)
PartyParts == {"members", "founding", "sharing"}

(* Bounds: what players ask in each part, and how often.  Whoever is in no *)
(* part stays away.                                                        *)
Arrives(c) == clif_parse_LoadEndAck(c) \/ party_member_joined(c)
Invites(c, others) == \/ \E accepts \in BOOLEAN : party_reply_invite(c, accepts)
                      \/ \E t \in others : party_invite(c, t) \/ party_removemember(c, t)
InMembers(c) ==
  \/ Arrives(c)
  \/ asked < 4 /\ \/ Invites(c, Three) \/ party_create(c) \/ party_leave(c) \/ map_quit(c)
                  \/ \E s \in Servers : chmapif_parse_reqauth(c, s)
InFounding ==
  \/ \E c \in {a1, c1} : Arrives(c) \/ Invites(c, Three) \/ party_create(c)
  \/ map_quit(c1) \/ \E s \in Servers : chmapif_parse_reqauth(c1, s)
InSharing(c) ==
  \/ Arrives(c)
  \/ asked < 3 /\ \/ Invites(c, Four) \/ party_leave(c) \/ map_quit(c) \/ pc_autosave(c)
                  \/ chmapif_parse_reqauth(c, 0)
                  \/ \E exp \in BOOLEAN : party_changeoption(c, exp)
                  \/ \E n \in Leap : party_send_levelup(c, n)
                  \/ \E t \in Four : party_changeleader(c, t)
Prompt == part = "sharing" => Len(toMap[1]) <= 1

-----------------------------------------------------------------------------
StockOf(p) == inventory = BackpackOf[p] /\ cart = CartOf[p] /\ zeny = PurseOf[p]
PartsInit ==
  /\ Init /\ ShopInit
  /\ \/ part \in ShopParts /\ StockOf(part) /\ Starts(Two, OneAway)
     \/ part \in PartyParts /\ StockOf("tags") /\ StartOf(part)
PartsNext ==
  /\ UNCHANGED part
  /\ \/ part \in ShopParts /\ UNCHANGED vars
        /\ \E p \in Players : (FewReplies /\ InShops(p)) \/ ReceiveReply(p)
     \/ part \in PartyParts /\ UNCHANGED shopvars
        /\ \/ \E s \in Servers : CharServer(s) \/ MapServer(s)
           \/ part = "members" /\ \E c \in Three : InMembers(c)
           \/ part = "founding" /\ InFounding
           \/ part = "sharing" /\ \E c \in Four : InSharing(c)
PartsSpec == PartsInit /\ [][PartsNext]_<<part, shopvars, vars>>
=============================================================================
