\* Two administrators' requests at a time.
SPECIFICATION AccountSpec
CONSTANTS
  Users = {"admin", "other"}
  Primary = "admin"
  Roles = {"ADMIN", "SECURITY", "QC"}
  Scopes = {"GBB"}
  Workers = {"v", "w"}
  MaxVersion = 1
CHECK_DEADLOCK FALSE
INVARIANTS
  SomeActiveAdmin
