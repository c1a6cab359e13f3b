CONSTANTS
  Kind <- FlatFlatQuad
  Paths <- PathsFlatFlatQuad
  MaxAdds = 4
  MaxSteps = 80
SPECIFICATION Spec
INVARIANT ExactUntilFault
CHECK_DEADLOCK FALSE
