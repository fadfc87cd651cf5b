SPECIFICATION Spec
CONSTANTS
  a1 = a1
  a2 = a2
  b1 = b1
  RowId = {a1, a2}
  InitialRows = {a1, a2}
  Table = {"A"}
  TableOf <- MCTableOf
  UpdCol = {"A"}
  PushTables = {"A"}
  Threshold = 1
  Window = 2
  MaxLag = 1
  MaxAge = 1
  MaxTxns = 2
  RollUps = {1, 2}
  MaxRaises = 1
  MaxTime = 1
SYMMETRY MCSymmetry
INVARIANT InitialLoadComplete
CHECK_DEADLOCK FALSE
