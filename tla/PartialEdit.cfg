\* An edit of the password alone, against one of the role.
SPECIFICATION Spec
CONSTANTS
  User = {u0, u1}
  Machine = {}
  Request = {r1}
  BootstrapAdmin = u0
PROPERTY OnlyFieldsPresentAreTouched
