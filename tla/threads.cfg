CONSTANTS
  main = main  w1 = w1  w2 = w2  b1 = b1  b2 = b2
  Threads = {main, w1, w2}
  Main = main
  Blocks = {b1, b2}
  Sizes = {3, 4, 6}
  HeaderSize = 1
  SizeMax = 6
  MaxCalls = 1
  None = None
SPECIFICATION FairSpec
CHECK_DEADLOCK FALSE
INVARIANTS BlocksExact BytesExact JoinIsSafe NoLostUpdate
PROPERTY EveryJoinReturns
