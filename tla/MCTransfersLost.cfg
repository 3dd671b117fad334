SPECIFICATION TransferSpec
CONSTANTS
  Loads = {1}
  Layers = 2
  Backends = {"raw_block"}
  Objects <- OneObject
  Prompts <- OnePrompt
  HostChunks = {2}
  Minimum = 1
  Capacity = 12
INVARIANTS
  AllAllocationsReturn
CHECK_DEADLOCK FALSE
