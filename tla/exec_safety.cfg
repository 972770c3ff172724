CONSTANTS
  a = a  b = b  d = d  main = main  aux = aux
  w1 = w1  w2 = w2
  Tasks = {a, b, d}
  Workers = {w1, w2}
  Clients = {main, aux}
  None = None
  Scripts <- Stopping
  DefaultCapacity = 1
  DefaultWorkers = 2
SPECIFICATION Spec
INVARIANTS CountersExact StoppedIsQuiet NoLostWakeup
PROPERTIES DrainWaitsForAll ImplementsLifecycle
CHECK_DEADLOCK FALSE
