SPECIFICATION Spec
CONSTANTS
  r1 = r1
  r2 = r2
  Requests <- TwoRequests
  MaxRetryCount = 2
  AgentRestarts = FALSE
INVARIANT
  SuccessMeansSent
CHECK_DEADLOCK FALSE
