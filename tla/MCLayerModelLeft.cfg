SPECIFICATION ExecutionSpec
CONSTANTS
  Layers = 2
  CheckLayers <- InsideAndPast
  MaxExecutions = 2
INVARIANTS
  ActiveModelIsOpen
CHECK_DEADLOCK FALSE
