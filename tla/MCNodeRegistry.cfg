\* Two machines, three connections (a console, its replacement, a supervisor or
\* another machine), one relay; every interleaving of closing and reconnecting.
CONSTANTS
  Machine = {m1, m2}
  Socket = {s1, s2, s3}
  Code = {p1, p2}
  SeededCode = {}
  Channel = {c1}
  Control = {}
  Reported = {}
  MaxBoots = 0
  NoMachine = NoMachine
  NoSocket = NoSocket
  NoCode = NoCode
SPECIFICATION Spec
SYMMETRY Interchangeable
INVARIANTS
  LiveEntryIsAttached
  AdmissionMatchesStore
  NoRelayOutlivesItsSocket
  OneMachinePerCode
PROPERTIES
  RelayOnlyApproved
  StaleCloseKeepsFresh
  RelaysSettleOnce
\* Out of sockets, or down, the instance may stop.
CHECK_DEADLOCK FALSE
