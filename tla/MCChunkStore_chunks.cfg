SPECIFICATION Spec
CHECK_DEADLOCK FALSE
VIEW Essential
CONSTANTS
  Series = {1, 2}
  NumShards = 2
  ShardOf <- DealtOut
  Times = {1, 2}
  Sizes = {1}
  MinThreshold = 2
  SizeRatio = 2
  Queries = {q1}
  MaxVersions = 2
  MaxWrites = 3
  MaxChunks = 4
INVARIANTS
  TypeOK
  FlushedStaysReachable
  IndexedFilesExist
  QueryMissesNothingSettled
