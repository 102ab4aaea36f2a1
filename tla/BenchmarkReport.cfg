SPECIFICATION Spec
CONSTANTS
  NumModes = 2
  Pixels = {top, bottom}
  Sides = {1, 2}
  MaxPictures = 2
  top = top
  bottom = bottom
INVARIANT
  ReportsAverages
CHECK_DEADLOCK FALSE
