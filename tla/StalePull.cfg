\* An update whose last steps fail, or that another one's reload cuts off.
SPECIFICATION FairSpec
CONSTANTS
  u1 = u1
  u2 = u2
  Update <- Updates
  Check = {}
  MaxPushes = 1
  MaxDeaths = 0
  NoCommit = none
INVARIANTS
  HeadIsServed
CHECK_DEADLOCK FALSE
