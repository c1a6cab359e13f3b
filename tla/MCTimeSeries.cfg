CONSTANTS
  HalfRange = 4
  WordRange = 32
  SizeRange = 8
  Times <- LowTimes
  Values <- MCValues
  MaxAdds = 5
SPECIFICATION Spec
INVARIANTS TypeOK Sorted WindowExact
PROPERTY EntriesKept
CHECK_DEADLOCK FALSE
