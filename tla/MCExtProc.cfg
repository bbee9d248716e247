CONSTANTS
  Programs <- MCPrograms
  Remarks <- MCRemarks
  MaxList <- MCMaxList
  IgnList <- MCIgnList
  NumLines = 3
  iConcurrency = 2
  iNumPhisicalCores = 2
  Starts <- MCStarts
SPECIFICATION MpxSpec
CHECK_DEADLOCK FALSE
INVARIANTS
  GroupsRunInOrder
  CancelReachesTheRest
  CancelledForACause
  WholeBlocks
PROPERTY
  MpxEnds
