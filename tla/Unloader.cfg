CONSTANTS
  NumStmts = 2
  iBulkSize = 2
  MaxRows = 3
SPECIFICATION FairSpec
CHECK_DEADLOCK FALSE
INVARIANTS
  FileIsFaithful
  RowsAreComplete
  RaisedIsRethrown
  NoThreadSurvives
  ActionFollowsTheFile
PROPERTY
  CallEnds
