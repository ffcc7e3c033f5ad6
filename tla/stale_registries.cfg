SPECIFICATION Spec
CONSTANTS
  a1 = a1
  ch1 = ch1
  ch2 = ch2
  c1 = c1
  c2 = c2
  None = None
  Accounts <- MCAccounts
  Chars <- MCChars
  Owner <- MCOwner
  Home <- MCHome
  CharServers <- MCServers
  Clients <- TwoClients
  MapServers = {0}
  UpServers = {0}
  ZeroByteChars = {}
  Me = 0
  MaxId = 2
  MaxVersion = 1
  MaxBreaks = 0
  MaxPackets = 2
  Timely = TRUE
  Prompt = FALSE
CHECK_DEADLOCK FALSE
SYMMETRY ClientSymmetry
INVARIANTS
  NoBlankPlayer
