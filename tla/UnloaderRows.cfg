CONSTANTS
  NumStmts = 2
  iBulkSize = 2
  MaxRows = 2
SPECIFICATION Spec
CHECK_DEADLOCK FALSE
INVARIANT
  EveryRowIsUnloaded
