SPECIFICATION Spec
CONSTANTS
  s1 = s1
  s2 = s2
  s3 = s3
  a1 = a1
  a2 = a2
  key = key
  tx = tx
  StorageNodes = {s1, s2, s3}
  ArchivalNodes = {a1, a2}
  ShardNodes = {s1, s2, s3}
  AccountKey = key
  TxKeys = {tx}
  MaxVersion <- MCVersions
  MaxChanges = 2
  MaxReads = 2
SYMMETRY Symmetry
INVARIANTS
  TypeOK
  ItemsAreSupported
  NothingIsMissed
  ReadsAreMonotone
CHECK_DEADLOCK FALSE
