SPECIFICATION Spec
CONSTANTS
  Clients = {1, 2}
  Drainers = {3}
  Rotators = {}
  Capacity = 1
  MaxBatch = 1
  SegmentCap = 1
  FaultKinds = {}
  MaxFaults = 0
  MaxCrashes = 2
PROPERTIES
  ImplementsDurableLog
CHECK_DEADLOCK FALSE
