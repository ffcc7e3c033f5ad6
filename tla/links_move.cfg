SPECIFICATION Spec
CONSTANTS
  a1 = a1
  ch1 = ch1
  ch2 = ch2
  c1 = c1
  c2 = c2
  None = None
  Accounts <- MCAccounts
  Chars <- MCChars
  Owner <- MCOwner
  Home <- MCHome
  CharServers <- MCServers
  Clients <- OneClient
  MapServers = {0, 1}
  UpServers = {0, 1}
  ZeroByteChars = {}
  Me = 0
  MaxId = 2
  MaxVersion = 1
  MaxBreaks = 1
  MaxPackets = 1
  Timely = TRUE
  Prompt = TRUE
CHECK_DEADLOCK FALSE
INVARIANTS
  SavedOnReconnect
