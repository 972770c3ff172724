CONSTANTS
  Ids = {1, 2}
  Placed = {1}
  Room = 2
  MaxMoves = 1
  MaxPresses = 1
  MaxCuts = 1
SPECIFICATION FairSpec
CHECK_DEADLOCK FALSE
INVARIANTS SceneIsWhole PressSeenOnce NothingInvented
PROPERTIES SessionSettles CleanEndEndsBoth
