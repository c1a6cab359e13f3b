CONSTANTS
  Timestamps <- MCTimestamps
  WindowSize = 2
  Scenarios <- OneByOne
  MaxRecords = 1
  NoCube = NoCube
SPECIFICATION FairSpec
PROPERTY ShutdownEnds
CHECK_DEADLOCK FALSE
