SPECIFICATION Spec
CONSTANTS
  NumModes = 2
  Pixels = {top, bottom}
  Sides = {1, 2, 3, 4, 5, 6}
  MaxPictures = 2
  top = top
  bottom = bottom
INVARIANT
  PlacedInside
  MattersFreed
  AverageCounts
  OnlyMisfitsExit
\* The benchmark ends.
CHECK_DEADLOCK FALSE
