SPECIFICATION FairSpec
CONSTANTS
  a1 = a1
  ch1 = ch1
  ch2 = ch2
  c1 = c1
  c2 = c2
  None = None
  Accounts <- MCAccounts
  Chars <- MCChars
  Owner <- MCOwner
  Home <- MCHome
  CharServers <- MCServers
  Clients <- OneClient
  MapServers = {0}
  UpServers = {0}
  ZeroByteChars <- MCChars
  Me = 0
  MaxId = 2
  MaxVersion = 0
  MaxBreaks = 0
  MaxPackets = 2
  Timely = FALSE
  Prompt = TRUE
CHECK_DEADLOCK FALSE
INVARIANTS
  TypeOK
  NodeXorPlayer
PROPERTIES
  ImplementsLogin
  KickedPlayerLeaves
  NodesExpire
