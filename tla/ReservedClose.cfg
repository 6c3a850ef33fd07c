\* An upstream close code that no close frame may carry.
CONSTANTS
  Machine = {m1, m2}
  Socket = {s1, s2}
  Code = {p1, p2}
  SeededCode = {}
  Channel = {c1}
  Control = {d1}
  Reported = {}
  MaxBoots = 1
  NoMachine = NoMachine
  NoSocket = NoSocket
  NoCode = NoCode
SPECIFICATION Spec
INVARIANT BrowserIsNeverForgotten
CHECK_DEADLOCK FALSE
