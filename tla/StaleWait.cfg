\* A readiness wait superseded by a stop.
SPECIFICATION Spec
CONSTANTS
  c1 = c1
  c2 = c2
  b1 = b1
  r1 = r1
  Control <- OneControl
  Bootstrap <- OneBoot
  Refresh <- OneRefresh
  Hand = hand
  NoProc = none
  Attempts = 1
  Setups <- AllSetups
PROPERTY StaleWaitNeverWins
\* Out of requests and boots, the instance may stop.
CHECK_DEADLOCK FALSE
