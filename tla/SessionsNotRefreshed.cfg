SPECIFICATION Spec
CONSTANTS
  u1 = u1
  u2 = u2
  s1 = s1
  s2 = s2
  r1 = r1
  r2 = r2
  clear = clear
  NoUser = NoUser
  NoSid = NoSid
  Users <- TwoUsers
  Sids <- TwoSids
  Requests <- TwoRequests
  Sweepers <- ClearTask
  MaxActive = 2
  Backend = "Database"
  ActiveUsersQuota = 1
  StoreFails = FALSE
  UsersReturn = FALSE
  AgentRestarts = FALSE
  Interval = 1
  MaxTime = 2
  MaxCount = 2
SYMMETRY Symmetry
PROPERTY
  RequestRefreshesSession
CHECK_DEADLOCK FALSE
