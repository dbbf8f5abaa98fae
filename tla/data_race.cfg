CONSTANTS
  Pids = {p1, p2}
  Walk <- TwoFiles
  Database = "xwiki.db"
  Unlocked = Unlocked
  MaxWrites = 2
  MaxWipes = 1
  MaxCrashes = 1
SYMMETRY Symmetry
SPECIFICATION Spec
INVARIANT DataLockExcludes
