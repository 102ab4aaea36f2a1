SPECIFICATION SerialSpec
CONSTANTS
  none = none
  neg = neg
  cut = cut
  w1 = w1
  w2 = w2
  threshold = threshold
  downscale = downscale
  components = components
  good = good
  better = better
  bad = bad
  p1 = p1
  p2 = p2
  o1 = o1
  o2 = o2
  o3 = o3
  o4 = o4
  Main = Main
  AppLock = AppLock
  ManagerLock = ManagerLock
  Free = Free
  Null = Null
  None = None
  Empty = Empty
  Workers <- TwoWorkers
  Threads <- TwoWorkersThreads
  Locks <- MCLocks
  Users <- MCUsers
  Modes = {none, neg, cut}
  InitialMode = none
  Rank <- MCRank
  PlateModes = {neg, cut}
  Fields <- MCFields
  FrameFields = {threshold}
  CtorFields = {components}
  Values = {good, bad}
  BadValues = {bad}
  DefaultValue = good
  Plates = {p1, p2}
  EmptyGrabs = TRUE
  Objects = {o1, o2, o3, o4}
SYMMETRY SerialSymmetry
INVARIANTS
  TypeOK
  FrameMatter
  Ownership
  LeakExplained
PROPERTY
  ConfigSteady
  ServiceSpec
