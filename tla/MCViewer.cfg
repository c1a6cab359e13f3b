CONSTANTS
  Shapes = {"p", "r"}
  Polygons = {"p"}
  Geoms <- MCGeoms
  Data <- MCData
  Cats = {1, 2}
  Width = 3
  Spans <- MCSpans
  Views <- MCViews
  FirstView <- Near
  MaxLevel = 25
  Elem = 3
  Horizon = 32
  Bins = {1, 2, 5, 32}
  Plans <- MCPlans
SPECIFICATION Spec
INVARIANTS OneTool EveryShapeSelects MapMatchesModel TimerNeedsTool ChartsCurrent TotalCurrent SameScale TilesCurrent ProcessedOnce BoundsExact
PROPERTY Loads
CHECK_DEADLOCK FALSE
