SPECIFICATION Spec
CONSTANTS
  Code = {c1, c2}
  Machine = {m1, m2}
  NoCode = NoCode
  NoMachine = NoMachine
  MaxEdits = 2
  MaxLosses = 0
  MaxRestarts = 0
  MaxMute = 0
CHECK_DEADLOCK FALSE
INVARIANT IdentityIsKept
