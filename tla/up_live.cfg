SPECIFICATION FairSpec
CONSTANTS
  p1 = p1
  p2 = p2
  b1 = b1
  b2 = b2
  absent = absent
  Procs = {p1}
  Commands = {"up"}
  NFiles = 2
  StepOf <- TwoFiles
  NSteps = 2
  Migrations = {2}
  Bodies = {b1, b2}
  None = absent
  MaxRuns = 20
  MaxEdits = 1
  MaxAborts = 1
  MaxFails = 1
PROPERTY Converges
