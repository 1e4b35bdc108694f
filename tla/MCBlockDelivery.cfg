SPECIFICATION FairSpec
CONSTANTS
  s1 = s1
  s2 = s2
  a1 = a1
  VNodes = {}
  SNodes = {s1, s2}
  ANodes = {a1}
  ArchivalNodesOn = TRUE
  Statuses = {"OK", "Banned"}
  ShardMaps <- MCShardMaps
  MaxChanges = 2
  AffectedShards = {1}
  WithUrl = {s1, s2, a1}
  RetryCount = 2
  Flaky = {s1}
INVARIANTS
  TypeOK
  ViewFollowsContract
  ShardsAreServed
PROPERTIES
  PublicationEnds
\* The changes and the block are bounded: everything may be over.
CHECK_DEADLOCK FALSE
