SPECIFICATION Spec
CONSTANTS
  a1 = a1
  a2 = a2
  b1 = b1
  RowId = {a1, a2, b1}
  InitialRows = {a1, a2}
  Table = {"A", "B"}
  TableOf <- MCTableOf
  UpdCol = {"A"}
  PushTables = {}
  Threshold = 1
  Window = 2
  MaxLag = 1
  MaxAge = 1
  MaxTxns = 1
  RollUps = {}
  MaxRaises = 0
  MaxTime = 1
INVARIANT DeletesPublished
CHECK_DEADLOCK FALSE
