\* Two updates and a check that overlap in every way, one push, one death.
SPECIFICATION FairSpec
CONSTANTS
  u1 = u1
  u2 = u2
  Update <- Updates
  Check = {c1}
  MaxPushes = 1
  MaxDeaths = 1
  NoCommit = none
INVARIANTS
  ReportsAddUp
PROPERTIES
  OkIsServed
  UpdatesEnd
\* Out of requests, the instance may stop.
CHECK_DEADLOCK FALSE
