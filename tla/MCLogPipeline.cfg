SPECIFICATION FairSpec
CONSTANTS
  s1 = s1
  s2 = s2
  MaxRows = 3
  MaxRegs = 1
  Session = {s1, s2}
  MaxRetries = 1
  MaxOutside = 1
  MaxFailures = 2
  MaxRefreshes = 1
  MaxShutdowns = 1
  NoMsg = NoMsg
INVARIANTS
  TypeOK
  PostBound
  ErrorsArePaid
  LockedInTransaction
PROPERTIES
  ImplementsPromise
  EventuallySettled
CHECK_DEADLOCK FALSE
