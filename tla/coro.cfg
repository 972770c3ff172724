CONSTANTS
  c1 = c1
  c2 = c2
  r1 = r1
  Coros = {c1, c2}
  Addrs = {a1, a2}
  Runners = {r1}
  Wakers = {w1}
  Null = Null
  Backends = {"iocp", "posix"}
  Plans <- OneRunner
  Steps = 2
  MaxOps = 2
SPECIFICATION FairSpec
CHECK_DEADLOCK FALSE
INVARIANTS ReadyListExact NoWakeLost StepsLiveTask
PROPERTY CoroutineCompletes
