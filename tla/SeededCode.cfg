\* A seeded pairing code across a restart.
CONSTANTS
  Machine = {m1, m2}
  Socket = {s1, s2}
  Code = {p1, p2}
  SeededCode = {p1}
  Channel = {c1}
  Control = {d1}
  Reported = {}
  MaxBoots = 1
  NoMachine = NoMachine
  NoSocket = NoSocket
  NoCode = NoCode
SPECIFICATION Spec
INVARIANT OneMachinePerCode
CHECK_DEADLOCK FALSE
