CONSTANTS
  Pids = {p1}
  Walk <- TwoFiles
  Database = "xwiki.db"
  Unlocked = Unlocked
  MaxWrites = 3
  MaxWipes = 1
  MaxCrashes = 1
SPECIFICATION Spec
INVARIANT BackupRestores
