SPECIFICATION CoordinatorSpec
CONSTANTS
  Requests = {r1}
  Ranks = {k1, k2}
  MaxFaults = 3
  Expiring = TRUE
  PromptTokens = 5
  CalibrationStart = 1
  ReuseEnd = 3
  BlockSize = 2
  Copies = 1
INVARIANTS
  NoHole
  ReleasedIsEnded
  WorkersGiveBack
  HandoffNeverRaises
  ReadyEverywhere
PROPERTIES
  ImplementsPrefill
  RanksKeepLifecycle
  GrantNeedsAllRanks
  HeldIsDecided
  FinishedLetsGo
