SPECIFICATION Spec
CONSTANTS
  MaxRows = 3
  MaxSize = 20
  RowSizes = {3, 9, 25}
  MaxInput = 7
  RowIds <- MCRowIds
  Cursors <- MCCursors
INVARIANTS
  TypeOK
  RowLimit
  SizeLimit
  RowsConserved
  AllPublished
  EmptyOnlyFirst
CHECK_DEADLOCK FALSE
