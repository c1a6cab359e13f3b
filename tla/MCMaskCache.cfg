CONSTANTS
  Keys <- MCKeys
  Regions <- MCRegions
  Budget = 4
  MaxItems = 6
SPECIFICATION Spec
INVARIANTS TypeOK RecencyOrder FindsOwnMask ComputedOnce
CHECK_DEADLOCK FALSE
