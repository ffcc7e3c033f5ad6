SPECIFICATION PartsSpec
CONSTANTS
  v1 = v1
  c1 = c1
  b1 = b1
  a1 = a1
  d1 = d1
  e1 = e1
  apple = apple
  signed = signed
  sword = sword
  None = None
  Void = Void
  Players <- MCPlayers
  Vendors <- MCVendors
  Collectors <- MCCollectors
  Kinds <- MCKinds
  Stackable <- MCStackable
  NameId <- MCNameId
  Wanted <- MCWanted
  Weight <- MCWeight
  Strong = 4
  Weak = 1
  Slots = 2
  CartSlots = 2
  MaxAmount = 3
  MaxZeny = 3
  TaxMin = 2
  TaxRate = 50
  PriceTags <- MCPriceTags
  Offered <- MCOffered
  MaxEvents = 3
  MaxReplies = 2
  Backpacks <- MCBackpacks
  Carts <- MCCarts
  Purses <- MCPurses
  Chars <- MCChars
  Servers <- MCServers
  Founders <- MCFounders
  Chief = a1
  LastParty = 2
  MAX_PARTY = 4
  TopLevel = 5
  StartLevel <- MCLevels
  Leap <- MCLeap
  party_share_level = 2
  Asked <- MCAsked
  Bound = 5
  Places <- MCPlaces
CONSTRAINT Prompt
INVARIANT EvenShare
CHECK_DEADLOCK FALSE
