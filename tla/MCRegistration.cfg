SPECIFICATION Spec
CONSTANTS
  Table <- MCTables
  Session = {s1, s2}
  MaxRegs = 3
  NoTable = NoTable
INVARIANTS
  TypeOK
  RegisteredIsCaptured
  RegidIsOwn
CHECK_DEADLOCK FALSE
