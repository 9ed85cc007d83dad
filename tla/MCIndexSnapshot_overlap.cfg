SPECIFICATION Spec
CONSTANTS
  Ticker = ticker
  Rpcs = {k1}
  Inodes = {i1, i2, i3}
  Absent = absent
  MaxFlushes = 2
SYMMETRY Symmetry
INVARIANTS
  DeletedIsSaved
