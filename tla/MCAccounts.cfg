\* Two accounts, one administrator's request at a time, two calls of the users.
SPECIFICATION Spec
CONSTANTS
  Users = {"admin", "other"}
  Primary = "admin"
  Roles = {"ADMIN", "SECURITY", "QC"}
  Scopes = {"GBB"}
  Workers = {"w"}
  c = c
  d = d
  Calls <- TwoCalls
  MaxVersion = 1
  MaxSalt = 2
  MaxSecond = 1
SYMMETRY CallSymmetry
CHECK_DEADLOCK FALSE
INVARIANTS
  TypeOK
  WinnerIsCurrent
  SomeActiveAdmin
  ScopedRolesHaveScope
PROPERTIES
  ImplementsRegister
