SPECIFICATION Spec
CONSTANTS
  Table <- MCSameName
  Session = {s1, s2}
  MaxRegs = 3
  NoTable = NoTable
INVARIANTS
  RegidIsOwn
CHECK_DEADLOCK FALSE
