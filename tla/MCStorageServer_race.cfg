SPECIFICATION Spec
CONSTANTS
  Reqs = {r1, r2}
  NumShards = 1
  Snapshotters = {k1}
  SegmentCap = 1
  FlushAt = 1
  MaxCrashes = 0
  MaxFaults = 0
SYMMETRY Symmetry
INVARIANTS
  AckedRecoverable
