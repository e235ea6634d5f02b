SPECIFICATION Spec

CONSTANTS
  n1 = n1
  n2 = n2
  Mint = mint
  mint = mint
  Procs = {n1, n2}
  Payments <- MCPayments
  Reward = 1
  MaxBlocks = 4
  MaxKills = 0
  MaxSyncs = 0

CONSTRAINTS
  Unraced
  OneListens
INVARIANT BlockIsCompared
CHECK_DEADLOCK FALSE
