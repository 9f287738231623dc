SPECIFICATION Spec
CONSTANTS
  u1 = u1
  u2 = u2
  u3 = u3
  r1 = r1
  r2 = r2
  NoUser = NoUser
  UserIds <- Users
  Requests <- TwoRequests
  InitialUsers <- TwoAdmins
  NewRoles <- AdminAndMonitor
  UsersQuota = 3
PROPERTIES
  SaveStoresExisting
CHECK_DEADLOCK FALSE
