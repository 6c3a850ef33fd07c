\* The lockout of an account that is deleted.
SPECIFICATION Spec
CONSTANTS
  Account = {a1, a2}
  Address = {i1, i2}
  Attempt = {x1, x2, x3, x4}
  ipMax = 3
  ipWindow = 3
  accountMax = 2
  accountWindow = 2
  backoff <- Growing
  MaxTime = 3
  MaxBoots = 1
PROPERTY DeletionClearsLockout
\* Out of attempts and time, the instance may stop.
CHECK_DEADLOCK FALSE
