SPECIFICATION FairSpec
CONSTANTS
  MsgCount = 2
  Session = {s1, s2}
  MaxRetries = 2
  MaxKills = 1
  NoMsg = NoMsg
INVARIANTS
  TypeOK
  Exclusive
  NoLoss
  DuplicateBound
  SentIsLogged
  NoStranded
PROPERTIES
  ImplementsPromise
  EventuallySettled
CHECK_DEADLOCK FALSE
