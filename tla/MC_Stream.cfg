CONSTANTS
  None = None
  Collector = {"walker", "users"}
  Checks = 2
SPECIFICATION StrSpec
INVARIANTS
  RowsInOrder
  OneWriter
  NotesBelowRows
  TallyComplete
PROPERTY CommandReturns
