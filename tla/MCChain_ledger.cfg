SPECIFICATION Spec

CONSTANTS
  n1 = n1
  n2 = n2
  Mint = mint
  mint = mint
  Procs = {n1, n2}
  Payments <- MCPayments
  Reward = 1
  MaxBlocks = 5
  MaxKills = 1
  MaxSyncs = 1

CONSTRAINT OneOrTwo
INVARIANTS
  TypeOK
  OwnAfterFirst
  SealedChain
  FileLoads
  OverdraftBounded
PROPERTY ImplementsLedger
CHECK_DEADLOCK FALSE
