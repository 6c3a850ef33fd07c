\* The bootstrap admin and another user, one machine, two requests awaiting a hash.
SPECIFICATION Spec
CONSTANTS
  User = {u0, u1}
  Machine = {m1}
  Request = {r1, r2}
  BootstrapAdmin = u0
SYMMETRY Interchangeable
INVARIANTS
  AssignmentsHaveRows
  SystemAdminsAreAppointed
