SPECIFICATION Spec
CONSTANTS
  p1 = p1
  p2 = p2
  b1 = b1
  b2 = b2
  absent = absent
  Procs = {p1, p2}
  Commands = {"up", "run"}
  NFiles = 2
  StepOf <- TwoFiles
  NSteps = 2
  Migrations = {2}
  Bodies = {b1, b2}
  None = absent
  MaxRuns = 2
  MaxEdits = 1
  MaxAborts = 1
  MaxFails = 0
SYMMETRY Symmetry
INVARIANTS TypeOK AppliedIsBacked LocalsHold HistoryMatchesRuns RunsInOrder
PROPERTY KeepsPromise
CHECK_DEADLOCK FALSE
