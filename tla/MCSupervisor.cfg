\* Two requests of every kind that overlap in every way, the boot, one refresh.
SPECIFICATION Spec
CONSTANTS
  c1 = c1
  c2 = c2
  b1 = b1
  r1 = r1
  Control <- Controls
  Bootstrap <- OneBoot
  Refresh <- OneRefresh
  Hand = hand
  NoProc = none
  Attempts = 1
  Setups <- FourSetups
SYMMETRY Symmetry
INVARIANTS
  StartingIsInFlight
  OneChild
\* Out of requests and boots, the instance may stop.
CHECK_DEADLOCK FALSE
