SPECIFICATION StandaloneSpec
CONSTANTS
  d1 = d1
  t1 = t1
  t2 = t2
  nothing = nothing
  noroot = noroot
  r1 = r1
  r2 = r2
  nofile = nofile
  cutoff = cutoff
  Downs = {d1}
  NMigrations = 2
  Texts = {t1, t2}
  Nothing = nothing
  MaxTurns = 2
  MaxBlocks = 2
  MaxDowns = 2
  MaxUpSteps = 4
  MaxChanges = 2
  MaxKills = 1
  Names = {1, 2, 3, 4, 5}
  Version <- MCVersion
  Excluded = {5}
  Folders = {"a", "b"}
  SnapshotNames <- MCSnapshots
  NoRoot = noroot
  IncludeLists <- MCLists
  Trees <- MCTrees
  Offers <- MCOffers
  MaxLists = 2
  MaxMoves = 1
  Gates = {"p", "q"}
  Objects <- MCObjects
  Builtin <- MCBuiltin
  SqlTrees <- MCSql
  MaxGates = 2
  MaxShifts = 1
  DbObjects = {1, 2, 3, 4, 5, 6, 7, 8}
  KindOf <- MCKind
  SchemaOf <- MCSchema
  NeedsOf <- MCNeeds
  OwnerOf <- MCOwner
  NoOwner = 0
  Declared <- MCDeclared
  Creates = {1, 3, 4, 5, 6, 7}
  MaxDestroys = 1
  MaxEvents = 1
  Tables = {1, 2}
  ParentOf <- MCParent
  Rows = {r1, r2}
  NoFile = nofile
  CutOff = cutoff
  MaxRuns = 2
  MaxWrites = 3
  NTree = 2
  Reviewed = {2}
  Optional = {1}
  Definitions = {"a", "b"}
  Unstable = "unstable"
  Broken = "broken"
  Empty = "empty"
  Absent = "none"
  MaxProofs = 1
  MaxTouches = 1
INVARIANTS
  DownTypeOK RunsWhatWasAccepted OnlyUpTakesAway
  ListsTheSources SortedByVersion
  GateDecides RecordIsTrue
  RestoresTheDump
  PassedIsProved NothingLeftBehind
PROPERTIES
  SessionEnds
  DestroyIsWhole DropsTheTree
  LoadIsWhole
CHECK_DEADLOCK FALSE
