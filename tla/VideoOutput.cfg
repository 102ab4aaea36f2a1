SPECIFICATION Spec
CONSTANTS
  NbBuffers = 2
  Length = 2
  MaxWrite = 3
  MaxRows = 2
  MaxCols = 4
  OtherSizes <- MCOtherSizes
  yuyv = yuyv
  mjpg = mjpg
  Nothing = Nothing
  Asked = yuyv
  Formats = {yuyv, mjpg}
INVARIANTS
  TypeOK
  CrashExplained
  NothingLeft
  HeldBuffers
  FormatKnown
PROPERTY
  SentPacked
\* A NULL output, or a crash, ends the program.
CHECK_DEADLOCK FALSE
