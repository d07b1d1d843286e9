SPECIFICATION Spec
CONSTANTS
  b1 = b1
  b2 = b2
  absent = absent
  empty = empty
  NFiles = 2
  Migrations = {1}
  StepOf <- stepOf
  Conditional = {}
  Bodies = {b1}
  None = absent
  Empty = empty
  MayForce = FALSE
  MaxStarts = 2
  MaxUps = 2
  MaxEdits = 0
  MaxAborts = 0
PROPERTY FoldedHasRun
CHECK_DEADLOCK FALSE
