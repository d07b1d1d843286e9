SPECIFICATION Spec
CONSTANTS
  p1 = p1
  p2 = p2
  b1 = b1
  b2 = b2
  absent = absent
  Procs = {p1, p2}
  Commands = {"up", "check"}
  NFiles = 1
  StepOf <- OneFile
  NSteps = 1
  Migrations = {}
  Bodies = {b1, b2}
  None = absent
  MaxRuns = 2
  MaxEdits = 1
  MaxAborts = 0
  MaxFails = 0
INVARIANT DriftIsReplayed
CHECK_DEADLOCK FALSE
