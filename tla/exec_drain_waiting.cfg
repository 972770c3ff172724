CONSTANTS
  a = a  b = b  d = d  main = main  aux = aux
  w1 = w1  w2 = w2
  Tasks = {a, b, d}
  Workers = {w1}
  Clients = {main, aux}
  None = None
  Scripts <- Draining
  DefaultCapacity = 1
  DefaultWorkers = 2
SPECIFICATION FairSpec
PROPERTIES ShutdownReturns
CHECK_DEADLOCK FALSE
