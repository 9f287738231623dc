SPECIFICATION Spec
CONSTANTS
  u1 = u1
  u2 = u2
  u3 = u3
  r1 = r1
  r2 = r2
  NoUser = NoUser
  UserIds <- Users
  Requests <- TwoRequests
  InitialUsers <- TwoAdmins
  NewRoles <- NoRoles
  UsersQuota = 3
INVARIANTS
  AtLeastOneAdmin
CHECK_DEADLOCK FALSE
