CONSTANTS
  Timestamps <- MCTimestamps
  WindowSize = 2
  Scenarios <- MCScenarios
  MaxRecords = 5
  NoCube = NoCube
SPECIFICATION FairSpec
INVARIANTS TypeOK ContentExact RepliesConsistent AtMostMaximum
PROPERTIES QueriesAnswered EndsWithStdin
CHECK_DEADLOCK FALSE
