SPECIFICATION FairSpec
CONSTANTS
  v1 = v1
  v2 = v2
  v3 = v3
  Validators = {v1, v2, v3}
  Proposer = v1
  Configs <- MCConfigs
  MaxCrashes = 2
INVARIANTS
  TypeOK
  CopiesWereValid
  PublishedIsBackedUp
PROPERTIES
  ImplementsCertificate
  BlockSettles
CHECK_DEADLOCK FALSE
