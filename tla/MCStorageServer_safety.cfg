SPECIFICATION Spec
CONSTANTS
  Reqs = {r1, r2}
  NumShards = 1
  Snapshotters = {k1, k2}
  SegmentCap = 1
  FlushAt = 1
  MaxCrashes = 1
  MaxFaults = 1
SYMMETRY Symmetry
INVARIANTS
  AckedRecoverableUnlessExposed
  SnapshotCoversWatermark
  AckedStaysInEngine
