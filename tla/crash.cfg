CONSTANTS
  main = main  w1 = w1
  Threads = {main, w1}
  Main = main
  Platforms = {"win32", "posix"}
  FrameLimit = 3
  CodeAddrs = {3}
  FramePointers = {1}
  Memories <- SmallMemories
  MaxGone = 1
  Images <- SmallImages
  None = None
SPECIFICATION FairSpec
CHECK_DEADLOCK FALSE
INVARIANTS OneReporter DeathIsReported FramesNamed
PROPERTY FaultEndsProcess
