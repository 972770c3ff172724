CONSTANTS
  Headers = {a, b, d}
  Null = Null
  Capacity = 4
SPECIFICATION RingSpec
PROPERTY ImplementsQueue
