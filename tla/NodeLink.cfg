SPECIFICATION FairSpec
CONSTANTS
  Code = {c1, c2}
  Machine = {m1, m2}
  NoCode = NoCode
  NoMachine = NoMachine
  MaxEdits = 2
  MaxLosses = 1
  MaxRestarts = 1
  MaxMute = 1
CHECK_DEADLOCK FALSE
INVARIANTS OneAttempt
PROPERTIES Rejoins OneMachine
