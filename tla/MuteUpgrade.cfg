SPECIFICATION FairSpec
CONSTANTS
  Code = {c1}
  Machine = {m1}
  NoCode = NoCode
  NoMachine = NoMachine
  MaxEdits = 1
  MaxLosses = 1
  MaxRestarts = 0
  MaxMute = 1
CHECK_DEADLOCK FALSE
PROPERTY SilenceIsNoticed
