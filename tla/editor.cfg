CONSTANTS
  x = x  y = y
  Chars = {x, y}
  Typed = {x}
  CR = CR
  Nil = Nil
  Clips <- Pasted
  Files <- SmallFiles
  CodeCap = 5
  RecCap = 3
  ArenaCap = 3
  Beyond = FALSE
  Cap = 3
  TerrainCap = 1
  Guard = 2
  MaxId = 4
  Heights = {0, 1}
  Shades = {0}
  Painted = {1}
  Rotations <- Angles
  Upright = 0
  Renormalised <- Unturned
  MaxChanges = 5
  MaxEdits = 2
SPECIFICATION MCSpec
CHECK_DEADLOCK FALSE
INVARIANTS InsideText CleanIsSaved ReferencesHold CleanIsOnDisk
PROPERTIES HistoryExact LoadKeepsIds
