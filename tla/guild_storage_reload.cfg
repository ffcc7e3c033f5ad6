SPECIFICATION Spec
CONSTANTS
  m1 = m1
  m2 = m2
  i1 = i1
  i2 = i2
  Members <- MCMembers
  Items <- MCItems
  Bound <- MCBound
  Backpack <- MCBackpack
  Chest <- MCChest
  Events <- Reload
  MaxSent <- ReloadMaxSent
  Slots = 1
  MaxLevel = 2
PROPERTIES
  NeverOutdated
