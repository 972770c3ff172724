CONSTANTS
  s1 = s1  s2 = s2
  Senders = {s1, s2}
  Receivers = {r1, r2}
  Closers = {k}
  Items <- TwoEach
  Nil = Nil
  Requests = {0, 1, 2}
  FirstGrow = 2
SPECIFICATION FairSpec
INVARIANTS InOrder CloseLosesNothing NobodyLeftBehind
PROPERTY EverySendEnds
