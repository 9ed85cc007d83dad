SPECIFICATION Spec
CHECK_DEADLOCK FALSE
CONSTANTS
  Series = {1}
  NumShards = 1
  ShardOf <- DealtOut
  Times = {1, 2}
  Sizes = {1}
  MinThreshold = 2
  SizeRatio = 2
  Queries = {}
  MaxVersions = 1
  MaxWrites = 2
  MaxChunks = 4
INVARIANTS
  SnapshotFilesExist
