SPECIFICATION Spec
CONSTANTS
  m1 = m1
  m2 = m2
  i1 = i1
  i2 = i2
  Members <- MCMembers
  Items <- MCItems
  Bound <- MCBound
  Backpack <- MCBackpack
  Chest <- MCChest
  Events <- MCEvents
  MaxSent <- MCMaxSent
  Slots = 1
  MaxLevel = 2
CONSTRAINT OneAtTheLink
INVARIANTS
  TypeOK
  UsersBelong
  OpenForSomebody
  OneUser
  DataSync
  NothingCopied
  CleanIsSaved
PROPERTIES
  Unlocked
  ImplementsLease
