CONSTANTS
  a = a  b = b  d = d  main = main  aux = aux
  w1 = w1  w2 = w2
  Tasks = {a, b, d}
  Workers = {w1, w2}
  Clients = {main, aux}
  None = None
  Scripts <- Finishing
  DefaultCapacity = 1
  DefaultWorkers = 2
SPECIFICATION FairSpec
PROPERTIES EveryTaskEnds CallsReturn
CHECK_DEADLOCK FALSE
