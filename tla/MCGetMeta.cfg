CONSTANT
  Dictionaries <- MCDictionaries
SPECIFICATION Spec
INVARIANTS
  RowsStayWhileRead
  EverythingIsCreatedOnce
  ScriptIsInOrder
  NothingIsForgotten
  BannerCounts
