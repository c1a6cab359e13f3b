CONSTANTS
  Shapes = {"p", "r"}
  Polygons = {"p"}
  Geoms <- MCGeoms
  Data <- MCData
  Cats = {1, 2}
  Width = 3
  Spans <- MCSpans
  Views <- MCViews
  FirstView <- Near
  MaxLevel = 25
  Elem = 3
  Horizon = 32
  Bins = {1, 2, 5, 32}
  Plans <- OneBrush
SPECIFICATION Spec
INVARIANT TotalExact
CHECK_DEADLOCK FALSE
