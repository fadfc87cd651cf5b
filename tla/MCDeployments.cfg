SPECIFICATION FairSpec
CONSTANTS
  Stories <- MCStories
  MaxFailures = 1
INVARIANTS
  TypeOK
  NoDangling
  OnePutAtATime
  OutputsKept
PROPERTIES
  Implements
  Converges
CHECK_DEADLOCK FALSE
