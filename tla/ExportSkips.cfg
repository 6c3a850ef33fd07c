\* A purge between two pages of an export shifts the pages: rows are skipped.
SPECIFICATION Spec
CONSTANTS
  Retention = 1
  BatchSize = 2
  PageMax = 2
  MaxRounds = 2
  Cooldown = 1
  MaxEvents = 4
  MaxTime = 3
  MaxFailures = 1
  MaxExits = 1
INVARIANT
  ExportIsComplete
CHECK_DEADLOCK FALSE
