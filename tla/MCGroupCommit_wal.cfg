SPECIFICATION FairSpec
ACTION_CONSTRAINT InTurn
CONSTANTS
  Clients = {1, 2}
  Drainers = {3}
  Rotators = {4, 5}
  Capacity = 2
  MaxBatch = 2
  SegmentCap = 1
  FaultKinds = {"write", "torn", "sync", "rotate"}
  MaxFaults = 1
  MaxCrashes = 1
INVARIANTS
  TypeOK
  PublishedIsDurable
  ReplyIsPublished
  LogIsOrdered
  FirstRunNotOvertaken
PROPERTIES
  ImplementsCleanLog
  EveryMessageIsAnswered
CHECK_DEADLOCK FALSE
