SPECIFICATION Spec
CONSTANTS
  none = none
  neg = neg
  cut = cut
  w1 = w1
  w2 = w2
  threshold = threshold
  downscale = downscale
  components = components
  good = good
  better = better
  bad = bad
  p1 = p1
  p2 = p2
  o1 = o1
  o2 = o2
  o3 = o3
  o4 = o4
  Main = Main
  AppLock = AppLock
  ManagerLock = ManagerLock
  Free = Free
  Null = Null
  None = None
  Empty = Empty
  Workers <- TwoWorkers
  Threads <- TwoWorkersThreads
  Locks <- MCLocks
  Users <- MCUsers
  Modes = {none, cut}
  InitialMode = none
  Rank <- MCRank
  PlateModes = {cut}
  Fields <- CutDownscale
  FrameFields = {threshold}
  CtorFields = {}
  Values = {good}
  BadValues = {}
  DefaultValue = good
  Plates = {p1}
  EmptyGrabs = FALSE
  Objects = {o1, o2, o3}
SYMMETRY WorkerSymmetry
INVARIANTS
  SoleGrabber
  Exclusion
PROPERTIES
  LeakIsForever
  FrameUndisturbed
  MutexSpec
CONSTRAINT NoImports
CHECK_DEADLOCK FALSE
