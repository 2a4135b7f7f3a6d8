SPECIFICATION Spec
CONSTANTS
  One = 20
  Models = {"SIMPLE_PINHOLE", "PINHOLE"}
  Values = {0, 14}
  BoardSide = 3
  Widths = {8, 11, 14, 20}
  Corners = {0, 3}
  PictureWidths = {2, 5}
  PictureHeights = {2, 3}
  MaxPictures = 4
  Margin = 1
  SpaceX = 1
  SpaceY = 1
  Positions = {0, 1, 3}
  MaxViews = 4
  LowerBound = 0
  UpperBound = 2
  Costs = {0, 2, 5, 99}
  Unusable = 99
  AvgLimit = 2
  AvgTolerance = 1
  MaxTurns = 3
INVARIANTS ImportRestores BoardIds NaturalOrder LayoutFits MedianOfViews AnnealingKeepsBest
CHECK_DEADLOCK FALSE
