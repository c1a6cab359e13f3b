CONSTANTS
  HalfRange = 4
  WordRange = 32
  SizeRange = 8
  Times <- AllTimes
  Values <- MCValues
  MaxAdds = 5
SPECIFICATION Spec
INVARIANTS WindowExact
CHECK_DEADLOCK FALSE
