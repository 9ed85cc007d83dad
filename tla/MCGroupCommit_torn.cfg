SPECIFICATION Spec
CONSTANTS
  Clients = {1, 2}
  Drainers = {}
  Rotators = {}
  Capacity = 2
  MaxBatch = 2
  SegmentCap = 2
  FaultKinds = {"torn"}
  MaxFaults = 1
  MaxCrashes = 0
PROPERTIES
  ImplementsDurableLog
CHECK_DEADLOCK FALSE
