SPECIFICATION TransferSpec
CONSTANTS
  Loads = {1, 2}
  Layers = 2
  Backends = {"raw_block", "local_disk"}
  Objects <- MCObjects
  Prompts <- MCPrompts
  HostChunks = {1, 3}
  Minimum = 1
  Capacity = 16
INVARIANTS
  RegionsAccounted
  LongestPrefixFound
  NothingRefused
  StagedIsRight
CHECK_DEADLOCK FALSE
