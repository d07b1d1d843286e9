SPECIFICATION Spec
CONSTANTS
  p1 = p1
  p2 = p2
  b1 = b1
  b2 = b2
  absent = absent
  Procs = {p1, p2}
  NFiles = 2
  Migrations = {1}
  Conditional = {2}
  Scopes <- WholeTree
  Bodies = {b1, b2}
  None = absent
  MaxStarts = 2
  MaxUps = 2
  MaxEdits = 2
  MaxAborts = 1
SYMMETRY Symmetry
INVARIANTS TypeOK SnapshotsWereShown AppliedIsAccounted FoldedWasAbsent
CHECK_DEADLOCK FALSE
