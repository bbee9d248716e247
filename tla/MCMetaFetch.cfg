CONSTANTS
  Readers <- MCReaders
  oQueue <- MCQueue
  NumInstant = 2
  Cloned = "AllTabColumns"
  Arrays <- MCArrays
  rTable <- MCTable
  Rows <- MCRows
  BulkSize = 2
  iConcurrency = 2
SPECIFICATION FetchSpec
INVARIANTS
  ListsAreTheirQueries
  ScriptIsWhole
