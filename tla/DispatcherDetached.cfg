CONSTANTS
  iConcurrency = 2
  NumTasks = 2
SPECIFICATION Spec
INVARIANT
  PooledThreadsAreDetached
