SPECIFICATION DownSpec
CONSTANTS
  d1 = d1
  t1 = t1
  nothing = nothing
  Downs = {d1}
  NMigrations = 1
  Texts = {t1}
  Nothing = nothing
  MaxTurns = 2
  MaxBlocks = 2
  MaxDowns = 1
  MaxUpSteps = 4
  MaxChanges = 0
  MaxKills = 0
INVARIANT AppliedIsPresent
CHECK_DEADLOCK FALSE
