\* Every setup of daemon.json; one request after (or during the wait of) the boot.
SPECIFICATION FairSpec
CONSTANTS
  c1 = c1
  c2 = c2
  b1 = b1
  r1 = r1
  Control <- OneControl
  Bootstrap <- OneBoot
  Refresh <- OneRefresh
  Hand = hand
  NoProc = none
  Attempts = 1
  Setups <- AllSetups
PROPERTIES
  ControlsAnswered
  StartingEnds
  RunningIsRefuted
  LiveIsNoticed
\* Out of requests and boots, the instance may stop.
CHECK_DEADLOCK FALSE
