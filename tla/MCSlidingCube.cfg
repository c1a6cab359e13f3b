CONSTANTS
  Records <- MCRecords
  WindowSize = 2
  NoCube = NoCube
SPECIFICATION Spec
INVARIANTS TypeOK VisitsCubes WindowsComplete Adjacent NothingMissed
PROPERTY ImplementsTwoWindows
CHECK_DEADLOCK FALSE
