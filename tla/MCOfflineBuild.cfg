SPECIFICATION BuildSpec
CONSTANTS
  Rows = 2
  Names = {s1, s2}
  Versions = {v1, v2}
  Chunks = {k1, k2}
  Slots = {a, b}
  MaxSaves = 2
  MaxKills = 2
SYMMETRY Symmetric
INVARIANTS
  PublishedIsStored
  NothingForgotten
PROPERTIES
  ImplementsCatalog
CHECK_DEADLOCK FALSE
