CONSTANTS
  iConcurrency = 2
  NumTasks = 3
SPECIFICATION PooledFairSpec
CHECK_DEADLOCK FALSE
INVARIANTS
  WaitsOnlyForTheLost
PROPERTY
  CallReturnsOrPoolIsLost
