SPECIFICATION Spec
CONSTANTS
  p1 = p1
  p2 = p2
  p3 = p3
  sword = sword
  arrow = arrow
  None = None
  Players <- Trio
  Kinds <- MCKinds
  Stackable <- MCStackable
  Name <- Names
  Weight <- MCWeight
  Ammo = {arrow}
  Asking = {}
  MaxWeight = 3
  Slots = 2
  DealSlots = 2
  MaxAmount = 2
  MaxZeny = 1
  Pieces = {1}
  Backpack <- MCBackpack
  Cart <- MCCart
  Purse <- MCPurse
INVARIANTS
  TypeOK
  TradingPairs
  Conserved
PROPERTIES
  SeenIsFinal
  Complete
