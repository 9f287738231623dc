SPECIFICATION LoopFairSpec
CONSTANTS
  r1 = r1
  r2 = r2
  c1 = c1
  Requests <- TwoRequests
  Calls <- OneCall
  MaxRetryCount = 2
  RgwRetryCount = 2
  AgentRestarts = TRUE
INVARIANTS
  TypeOK
  SignalsAuthorised
  OnlyGivingUpHidesLoss
  RgwTypeOK
  AnswerTellsOutcome
PROPERTIES
  RequestsEnd
  CallsEnd
CHECK_DEADLOCK FALSE
