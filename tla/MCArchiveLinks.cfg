SPECIFICATION FairSpec
CONSTANTS
  a1 = a1
  a2 = a2
  ANodes <- MCNodes
  MinArchiveNodes = 1
  MaxFaults = 1
  MaxReconnectAttempts = 1
  MaxLinks = 2
INVARIANTS
  TypeOK
  ConnectionsAreOpen
  ManagerFollowsDiscovery
PROPERTIES
  RestoresConnections
