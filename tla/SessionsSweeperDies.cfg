SPECIFICATION FairSpec
CONSTANTS
  u1 = u1
  u2 = u2
  s1 = s1
  s2 = s2
  r1 = r1
  r2 = r2
  clear = clear
  NoUser = NoUser
  NoSid = NoSid
  Users <- OneUser
  Sids <- TwoSids
  Requests <- OneRequest
  Sweepers <- ClearTask
  MaxActive = 2
  Backend = "Database"
  ActiveUsersQuota = 1
  StoreFails = FALSE
  UsersReturn = FALSE
  AgentRestarts = FALSE
  Interval = 1
  MaxTime = 4
  MaxCount = 2
PROPERTY
  ExpiredSessionsRemoved
CHECK_DEADLOCK FALSE
