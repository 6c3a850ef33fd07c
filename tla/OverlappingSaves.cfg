\* A second supervisor takes one mishap: saves that overlap, a ps that fails, a late pid, a half-written file.
SPECIFICATION Spec
CONSTANTS
  Pid = {p1, p2, p3, p4}
  Save = {s1, s2, s3}
  MaxMishaps = 1
  MaxCrashes = 1
  MaxStrangers = 2
  None = None
INVARIANT
  NeverTwo
CHECK_DEADLOCK FALSE
