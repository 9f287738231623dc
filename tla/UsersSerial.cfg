SPECIFICATION Spec
CONSTANTS
  u1 = u1
  u2 = u2
  u3 = u3
  r1 = r1
  r2 = r2
  NoUser = NoUser
  UserIds <- Users
  Requests <- OneRequest
  InitialUsers <- OneAdmin
  NewRoles <- AllRoles
  UsersQuota = 2
INVARIANTS
  AtLeastOneAdmin
PROPERTIES
  DirectorySpec
CHECK_DEADLOCK FALSE
