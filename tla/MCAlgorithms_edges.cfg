SPECIFICATION MCSpec

CONSTANTS
  Half <- MCHalf
  VERSION = 1
  Bodies <- MCBodiesTyped
  Bytes = {0, 1, 57, 58, 255}
  MaxSize = 4
  Signatures = {1, 2, 3}
  MaxSignatures = 5
  HashBytes = {0, 1, 15, 16, 255}
  MaxDifficulty = 5

INVARIANTS
  NumbersSurvive
  OneHandlerRuns
  ArraysSurvive
  BuffersSuffice
  RootDecides
  DifficultyCounted
