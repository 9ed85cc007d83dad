SPECIFICATION FairSpec
CONSTANTS
  Reqs = {r1}
  NumShards = 2
  Snapshotters = {k1}
  SegmentCap = 1
  FlushAt = 1
  MaxCrashes = 0
  MaxFaults = 1
INVARIANTS
  TypeOK
  WalBeforeMemtable
PROPERTIES
  DueMemtableIsIndexed
  AppendsAnswered
