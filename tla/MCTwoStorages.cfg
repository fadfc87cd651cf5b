SPECIFICATION Spec
CONSTANTS
  Stories <- MCTwoStorages
  MaxFailures = 0
INVARIANT DeploysAsConfigured
CHECK_DEADLOCK FALSE
