SPECIFICATION Spec
CONSTANTS
  u1 = u1
  u2 = u2
  u3 = u3
  r1 = r1
  r2 = r2
  NoUser = NoUser
  UserIds <- Users
  Requests <- TwoRequests
  InitialUsers <- AdminAndManager
  NewRoles <- OnlyAdmin
  UsersQuota = 2
SYMMETRY RequestSymmetry
INVARIANTS
  TypeOK
  CreatedWithinQuota
  RoomForCreation
  LockProtectsCreation
PROPERTIES
  AdminsMakeAdmins
CHECK_DEADLOCK FALSE
