CONSTANTS
  Keys <- MCKeys
  Regions <- MCRegions
  Budget = 4
  MaxItems = 6
SPECIFICATION Spec
PROPERTY ReducedToBudget
CHECK_DEADLOCK FALSE
