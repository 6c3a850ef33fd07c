\* Three saves in any order, two mishaps; three pids, a crash and a stranger.
SPECIFICATION Spec
CONSTANTS
  Pid = {p1, p2, p3}
  Save = {s1, s2, s3}
  MaxMishaps = 2
  MaxCrashes = 1
  MaxStrangers = 1
  None = None
INVARIANTS
  OneMorePerMishap
PROPERTIES
  AnswersAreSo
SYMMETRY Interchangeable
\* The saves run out.
CHECK_DEADLOCK FALSE
