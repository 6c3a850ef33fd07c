\* A service manager restarts the supervisor after the save has answered.
SPECIFICATION Spec
CONSTANTS
  Pid = {p1, p2, p3, p4}
  Save = {s1, s2, s3}
  MaxMishaps = 0
  MaxCrashes = 1
  MaxStrangers = 2
  None = None
PROPERTY
  RestartsAreReported
CHECK_DEADLOCK FALSE
