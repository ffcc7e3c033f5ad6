SPECIFICATION FairSpec
CONSTANTS
  a1 = a1
  a2 = a2
  c1 = c1
  Accounts <- MCAccounts
  CharServers <- MCServers
  Clients <- MCClients
  MaxId = 2
  MaxQueue = 1
INVARIANTS
  TypeOK
  TicketUsedOnce
  HalfLoggedInExpires
PROPERTIES
  ImplementsOffice
  RefusalExpires
