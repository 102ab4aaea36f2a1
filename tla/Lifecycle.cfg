SPECIFICATION FairSpec
CONSTANTS
  Main = Main
  w1 = w1
  p1 = p1
  Workers = {w1}
  Pids = {p1}
  Failed = Failed
  NoPid = NoPid
  Nobody = Nobody
  MaxSignals = 1
INVARIANT
  TypeOK
  ExitComplete
  CamerasAfterServer
  RecordingStopped
PROPERTY
  CleanupEnds
\* The process exits.
CHECK_DEADLOCK FALSE
