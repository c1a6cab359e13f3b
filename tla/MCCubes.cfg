CONSTANTS
  Kind <- QuadQuad
  Paths <- PathsQuadQuad
  MaxAdds = 4
  MaxMixed = 3
  MaxAsked = 2
  MaxSteps = 50
SPECIFICATION CubesSpec
INVARIANTS SchemaTypeOK NoFault NoDanglingPointer OneOwner NothingLeaks OnlyChildShared QuadsExact QueriesExact
PROPERTY ImplementsCube
CHECK_DEADLOCK FALSE
