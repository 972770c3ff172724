CONSTANTS
  server = server  client = client
  Server = server
  Client = client
  None = None
  Engine = Engine
  Bytes <- Output
  Newlines = {2, 7}
  Returns = {4}
  PipeSize = 5
  Chunk = 2
  DrainGuard = 2
  LineBuf = 2
  MaxSessions = 2
  LogLines = 3
  LogCols = 2
SPECIFICATION FairSpec
CHECK_DEADLOCK FALSE
INVARIANTS LogInOrder ExitLosesLittle Supervised
PROPERTY ChildrenServed
