CONSTANTS
  QueueCap = 1
  MaxTun = 1
  MaxNet = 1
SPECIFICATION FairSpec
PROPERTIES
  LoopEnds
  GoroutinesExit
