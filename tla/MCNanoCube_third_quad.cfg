CONSTANTS
  Kind <- QuadFlatQuad
  Paths <- PathsQuadFlatQuad
  MaxAdds = 2
  MaxSteps = 50
SPECIFICATION Spec
INVARIANT NoFault
CHECK_DEADLOCK FALSE
