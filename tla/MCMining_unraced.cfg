SPECIFICATION Spec

CONSTANTS
  c1 = c1
  c2 = c2
  c3 = c3
  w1 = w1
  w2 = w2
  Calls = {c1, c2, c3}
  Workers = {w1, w2}
  NoCall = NoCall
  NoWorker = NoWorker
  MinTx = 1

CONSTRAINT Unraced
SYMMETRY ThreadSymmetry

INVARIANTS
  SoundUnlessRaced
  FileReloadsUnlessRaced
  WireUnlessRaced

PROPERTY SealedImmutable

CHECK_DEADLOCK FALSE
