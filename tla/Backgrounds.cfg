SPECIFICATION FairSpec
CONSTANTS
  Main = Main
  w1 = w1
  AppLock = AppLock
  BackgroundLock = BackgroundLock
  Free = Free
  img = img
  Green = Green
  Unreadable = Unreadable
  desk = desk
  single = single
  two = two
  short = short
  Nothing = Nothing
  Workers = {w1}
  Threads <- MCThreads
  Locks <- MCLocks
  Users <- MCUsers
  Images = {img}
  Sizes = {63}
  DefaultSize = 63
  Desktops = {desk}
  Videos = {single, two, short}
  FrameCount <- MCFrameCount
  Frames <- MCFrames
  MaxReads = 3
INVARIANTS
  ModeHasItsData
  RewindNotMissed
PROPERTIES
  FrameSettingsSteady
  FramesEnd
\* A lost mutex, or a video of one frame, stops the frame loop for good.
CHECK_DEADLOCK FALSE
