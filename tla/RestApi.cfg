SPECIFICATION FairSpec
CONSTANTS
  c1 = c1
  c2 = c2
  int1 = int1
  term1 = term1
  term2 = term2
  Connections <- TwoConnections
  RequestQuota = 1
  Signals <- ThreeSignals
  Kind <- KindOfSignals
  Raised <- SomeErrors
  MaxBlocked = 1
INVARIANTS
  TypeOK
  ThrottlerCounts
  WaitersCoverInFlight
  NearestClauseAnswers
PROPERTIES
  SigtermIsGraceful
  SigtermStops
CHECK_DEADLOCK FALSE
