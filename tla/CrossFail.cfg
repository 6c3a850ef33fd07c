\* A disconnected supervisor against the requests of another machine.
CONSTANTS
  Machine = {m1, m2}
  Socket = {s1, s2}
  Code = {p1, p2}
  SeededCode = {}
  Channel = {c1}
  Control = {d1}
  Reported = {}
  MaxBoots = 1
  NoMachine = NoMachine
  NoSocket = NoSocket
  NoCode = NoCode
SPECIFICATION Spec
PROPERTY FailedOnlyWithItsSupervisor
CHECK_DEADLOCK FALSE
