SPECIFICATION ExecutionSpec
CONSTANTS
  Layers = 4
  CheckLayers <- InsideAndPast
  MaxExecutions = 3
INVARIANTS
  ProtocolKept
  MarkedIsInstalled
  CompleteOrReported
  DrainedBeforeEnd
PROPERTIES
  ImplementsInstall
CHECK_DEADLOCK FALSE
