SPECIFICATION Spec
CONSTANTS
  Bits = 3
  Keys <- PlainKeys
  Times <- MCTimes
  FlushThreshold = 40
  MinThreshold = 2
  MaxWrites = 3
INVARIANTS
  MemtableAccounts
  FilesReadBack
  QueryIsExact
  QueryInventsNothing
  PruneKeepsMatches
  RebuiltIndexIsSame
CHECK_DEADLOCK FALSE
