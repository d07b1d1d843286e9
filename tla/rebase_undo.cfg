SPECIFICATION Spec
CONSTANTS
  p1 = p1
  p2 = p2
  b1 = b1
  b2 = b2
  absent = absent
  Procs = {p1}
  NFiles = 1
  Migrations = {1}
  Conditional = {}
  Scopes <- WholeTree
  Bodies = {b1}
  None = absent
  MaxStarts = 2
  MaxUps = 2
  MaxEdits = 0
  MaxAborts = 0
PROPERTY UndoReverses
CHECK_DEADLOCK FALSE
