SPECIFICATION FairSpec
CONSTANTS
  c1 = c1
  c2 = c2
  c3 = c3
  c4 = c4
  Calls <- MCCalls
  Size <- MCSize
  MaxTxs = 3
  MaxBytes = 4
  MaxCrashes = 1
INVARIANTS
  TypeOK
  ExactlyOnceInOrder
  PublishedWithinLimits
PROPERTIES
  BlocksAreFinal
  AcceptedTxSettles
CHECK_DEADLOCK FALSE
