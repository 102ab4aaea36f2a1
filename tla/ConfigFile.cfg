SPECIFICATION Spec
CONSTANTS
  w1 = w1
  w2 = w2
  none = none
  neg = neg
  cut = cut
  threshold = threshold
  downscale = downscale
  default = default
  short = short
  Absent = Absent
  Empty = Empty
  Broken = Broken
  Nothing = Nothing
  Workers = {w1, w2}
  Modes = {none, neg, cut}
  Fields <- MCFields
  Rank <- MCRank
  Values = {default, short}
  LongValues = {default}
  BadValues = {short}
  DefaultValue = default
SYMMETRY Symmetry
INVARIANTS
  ExportFresh
  ImportApplied
