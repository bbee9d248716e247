CONSTANTS
  iConcurrency = 2
  NumTasks = 4
SPECIFICATION FairSpec
INVARIANTS
  ExclusiveThreads
  NothingOutlivesTheCall
  AtMostOneLateStart
PROPERTIES
  EarliestExceptionWins
  ExecutorSpec
  CallReturns
