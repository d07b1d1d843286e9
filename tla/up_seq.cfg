SPECIFICATION Spec
CONSTANTS
  p1 = p1
  p2 = p2
  b1 = b1
  b2 = b2
  absent = absent
  Procs = {p1}
  Commands = {"up", "check", "run"}
  NFiles = 3
  StepOf <- ThreeFiles
  NSteps = 2
  Migrations = {2, 3}
  Bodies = {b1, b2}
  None = absent
  MaxRuns = 2
  MaxEdits = 2
  MaxAborts = 1
  MaxFails = 1
SYMMETRY SeqSymmetry
INVARIANTS AppliedShaIsCurrent EarlierFilesFirst MigrationRunsOnce
PROPERTY MigrationFrozen
CHECK_DEADLOCK FALSE
