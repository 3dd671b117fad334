SPECIFICATION CoordinatorSpec
CONSTANTS
  Requests = {r1, r2}
  Ranks = {k1}
  MaxFaults = 0
  Expiring = FALSE
  PromptTokens = 3
  CalibrationStart = 1
  ReuseEnd = 2
  BlockSize = 1
  Copies = 2
INVARIANTS
  NoHole
PROPERTIES
  OthersUndisturbed
SYMMETRY Interchangeable
