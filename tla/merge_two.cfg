SPECIFICATION Spec
CONSTANTS
  b1 = b1
  b2 = b2
  absent = absent
  empty = empty
  NFiles = 2
  Migrations = {1}
  StepOf <- stepOf
  Conditional = {"base"}
  Bodies = {b1, b2}
  None = absent
  Empty = empty
  MayForce = TRUE
  MaxStarts = 3
  MaxUps = 2
  MaxEdits = 1
  MaxAborts = 1
SYMMETRY Symmetry
INVARIANTS TypeOK AppliedHasRun RanIsSettled  AgreesAfterApply
PROPERTY ContentIsKept
CHECK_DEADLOCK FALSE
