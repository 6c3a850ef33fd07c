\* Four sign-ins to two accounts from two addresses, over one restart.
SPECIFICATION Spec
CONSTANTS
  Account = {a1, a2}
  Address = {i1, i2}
  Attempt = {x1, x2, x3, x4}
  ipMax = 2
  ipWindow = 3
  accountMax = 2
  accountWindow = 2
  backoff <- Growing
  MaxTime = 3
  MaxBoots = 1
SYMMETRY Interchangeable
INVARIANTS
  TypeOK
  StoreAgrees
PROPERTIES
  LockHolds
  GuessesAreCounted
\* Out of attempts and time, the instance may stop.
CHECK_DEADLOCK FALSE
