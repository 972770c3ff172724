CONSTANTS
  x = x  y = y
  Chars = {x, y}
  Typed = {x, y}
  CR = CR
  Nil = Nil
  Clips <- Nothing
  Files <- EmptyFile
  CodeCap = 6
  RecCap = 6
  ArenaCap = 5
  Beyond = TRUE
SPECIFICATION Spec
PROPERTY ReplaysExactly
