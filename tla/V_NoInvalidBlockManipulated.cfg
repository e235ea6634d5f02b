SPECIFICATION Spec

CONSTANTS
  c1 = c1
  c2 = c2
  w1 = w1
  Calls = {c1, c2}
  Workers = {w1}
  NoCall = NoCall
  NoWorker = NoWorker
  MinTx = 1

INVARIANT
  NoInvalidBlockManipulated
CHECK_DEADLOCK FALSE
