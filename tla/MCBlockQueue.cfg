SPECIFICATION FairSpec
CONSTANTS
  i1 = i1
  i2 = i2
  i3 = i3
  i4 = i4
  b1 = b1
  b2 = b2
  b3 = b3
  Inserts <- MCInserts
  Blocks <- MCBlocks
  BlockOf <- MCBlockOf
  Connections = 2
  PageSize = 2
  MaxRequests = 2
  MaxFaults = 1
INVARIANTS
  TypeOK
  OffsetCovers
  CursorCovers
PROPERTIES
  ImplementsFeed
  ArchivalCatchesUp
CHECK_DEADLOCK FALSE
