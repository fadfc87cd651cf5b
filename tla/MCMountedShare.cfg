SPECIFICATION Spec
CONSTANTS
  Stories <- MCMountedShare
  MaxFailures = 0
INVARIANT NoDangling
CHECK_DEADLOCK FALSE
