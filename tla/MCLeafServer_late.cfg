CONSTANTS
  Timestamps <- MCTimestamps
  WindowSize = 2
  Scenarios <- LateInBatch
  MaxRecords = 4
  NoCube = NoCube
SPECIFICATION FairSpec
INVARIANT ContentExact
CHECK_DEADLOCK FALSE
