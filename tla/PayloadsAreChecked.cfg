CONSTANTS
  Empty = Empty
  Stranger = Stranger
  Token = token
  alice = alice
  master = master
  wallet = wallet
  data = data
  salt = salt
  token = token
  key = key
  p = p
  a1 = a1
  a2 = a2
  Proposer = p
  Attestors <- MCAttestors
  Requests <- MCAnyRequests
  MaxTransactions = 2
  MaxBlocks = 2
SPECIFICATION Spec
CHECK_DEADLOCK FALSE
INVARIANT
  PayloadsAreChecked
