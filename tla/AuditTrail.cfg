\* Four events, two to a batch and two to a page; a failure and a restart.
SPECIFICATION FairSpec
CONSTANTS
  Retention = 1
  BatchSize = 2
  PageMax = 2
  MaxRounds = 2
  Cooldown = 1
  MaxEvents = 4
  MaxTime = 3
  MaxFailures = 1
  MaxExits = 1
INVARIANTS
  TrailHasNoHoles
  ExportGoesForward
PROPERTIES
  StaleRowsGo
\* Out of events and time, the instance goes on purging.
CHECK_DEADLOCK FALSE
