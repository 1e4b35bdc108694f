SPECIFICATION FairSpec
CONSTANTS
  c1 = c1
  a1 = a1
  a2 = a2
  a3 = a3
  Clients <- MCClients
  ANodes <- MCANodes
  MinArchiveNodes = 2
  TxsOf <- MCTxsOf
  FilterLists <- MCFilterLists
  Lower <- MCLower
  MaxReports = 4
  MaxSubscriptions = 2
INVARIANTS
  TypeOK
  BroadcastsAreConfirmed
  UpdatesAreExact
PROPERTIES
  ClientsAreForgotten
