CONSTANTS
  HalfRange = 4
  WordRange = 32
  SizeRange = 8
  Times <- AllTimes
  Values = {1}
  MaxAdds = 8
SPECIFICATION Spec
PROPERTY EntriesKept
CHECK_DEADLOCK FALSE
