CONSTANTS
  Given <- MCGiven
  MaxRuns = 2
  iNumPhisicalCores = 2
  MaxMissing = 1
SPECIFICATION Spec
INVARIANTS
  TargetsAreTheTablesAsked
  EveryRowIsUnloadedOnce
  ConstraintsAreThoseOfTheTargets
  ScriptsRestore
  LoadsAreUnchecked
CHECK_DEADLOCK FALSE
