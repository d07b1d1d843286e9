SPECIFICATION FairSpec
CONSTANTS
  p1 = p1
  p2 = p2
  t1 = t1
  t2 = t2
  y1 = y1
  y2 = y2
  absent = absent
  None = absent
  Released = {t1, t2}
  Tools = {t2}
  Yamls = {y1, y2}
  Procs = {p1}
  Forcing = FALSE
  MaxEdits = 1
  MaxAborts = 2
INVARIANTS Upgradable WorksAligned
PROPERTY GateOpens
