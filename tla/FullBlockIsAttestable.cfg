SPECIFICATION Spec
CONSTANTS
  c1 = c1
  c2 = c2
  c3 = c3
  c4 = c4
  Calls <- MCCalls
  Size <- MCSize
  MaxTxs = 2
  MaxBytes = 9
  MaxCrashes = 0
INVARIANT FullBlockIsAttestable
CHECK_DEADLOCK FALSE
