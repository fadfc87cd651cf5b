SPECIFICATION FairSpec
CONSTANTS
  Message = {m1, m2}
  MaxAttempts = 2
  MaxRetries = 1
  Lifetimes = {1, 2}
  MaxLatency = 1
  MaxTime = 3
  NoToken = NoToken
INVARIANTS
  TypeOK
  CacheConsistent
  TokenFresh
  RequestBound
  InsertRaceOnce
PROPERTIES
  EventuallySettled
CHECK_DEADLOCK FALSE
