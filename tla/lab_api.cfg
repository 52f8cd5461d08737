SPECIFICATION FairSpec
CONSTANTS
  q1 = q1
  q2 = q2
  q3 = q3
  c1 = c1
  c2 = c2
  o1 = o1
  NoBucket = NoBucket
  Requests = {q1, q2, q3}
  Clients = {c1, c2}
  Origins = {o1}
  ClientOf <- MCClientOf
  OriginOf <- MCOriginOf
  GlobalConcurrency = 1
  MaxClients = 1
  MaxOrigins = 1
  ClientCost = 1
  ClientBurst = 1
  OriginCost = 1
  OriginBurst = 1
  IdleLimit = 1
  WatchedClient = c1
  WatchedOrigin = o1
  MaxTime = 3
INVARIANTS ClientQuota OriginQuota
PROPERTIES TurnedAwayOnlyWhenFull RequestAnswered
CHECK_DEADLOCK FALSE
