\* One machine, two connections, one relay, one lifecycle request, one restart,
\* under fairness.
CONSTANTS
  Machine = {m1}
  Socket = {s1, s2}
  Code = {p1}
  SeededCode = {}
  Channel = {c1}
  Control = {d1}
  Reported = {"starting", "running"}
  MaxBoots = 1
  NoMachine = NoMachine
  NoSocket = NoSocket
  NoCode = NoCode
SPECIFICATION FairSpec
INVARIANTS
  NoControlOutlivesItsSocket
  CallersAreNeverForgotten
PROPERTIES
  ControlsSettleOnce
  VanishedNodeLeaves
  SilentRelayEnds
  PortalThaws
\* Out of sockets, or down, the instance may stop.
CHECK_DEADLOCK FALSE
