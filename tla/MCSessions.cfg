\* Three sign-ins of one user for two places in the map, one machine.
SPECIFICATION SessionsSpec
CONSTANTS
  User = {u0}
  Machine = {m1}
  Request = {}
  BootstrapAdmin = u0
  Session = {s1, s2, s3}
  idleTTL = 1
  absoluteTTL = 3
  sessionMax = 2
  MaxTime = 4
  NoMachine = NoMachine
SYMMETRY Interchangeable
PROPERTIES
  NobodyComesBackLate
  LiveSessionsAreKept
\* Out of time the instance may stop.
CHECK_DEADLOCK FALSE
