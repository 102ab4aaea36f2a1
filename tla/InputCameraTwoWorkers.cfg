SPECIFICATION Spec
CONSTANTS
  Main = Main
  w1 = w1
  w2 = w2
  AppLock = AppLock
  ManagerLock = ManagerLock
  Free = Free
  d1 = d1
  d2 = d2
  cam = cam
  preview = preview
  Closed = Closed
  NoDigits = NoDigits
  Workers = {w1, w2}
  Threads <- MCThreads
  Locks <- MCLocks
  Users <- MCUsers
  Devices = {d1, d2, cam}
  Outputs = {cam, preview}
  Listings <- MCListings
  FirstDevice = d1
  Rolls = 1
  PlateModes = 1
  EmptyGrabs = TRUE
  Refusals = TRUE
SYMMETRY MCSymmetry
INVARIANT
  CameraConsistent
  DeviceExclusion
  
  DevicesOffered
\* The process exits.
CHECK_DEADLOCK FALSE
