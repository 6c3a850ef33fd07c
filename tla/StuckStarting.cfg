\* A start without a start script against the protocol's word for "starting".
SPECIFICATION Spec
CONSTANTS
  c1 = c1
  c2 = c2
  b1 = b1
  r1 = r1
  Control <- OneControl
  Bootstrap <- OneBoot
  Refresh <- OneRefresh
  Hand = hand
  NoProc = none
  Attempts = 1
  Setups <- AllSetups
INVARIANT StartingIsAnAction
\* Out of requests and boots, the instance may stop.
CHECK_DEADLOCK FALSE
