SPECIFICATION Spec
CONSTANTS
  Images = {1, 2}
  MaxRows = 3
  MaxWork = 5
  Foreign <- MCForeign
  Options <- MCOptions
  StripSize = 1
INVARIANTS
  CompletionsFiled
  RowsStay
  ImportsExactly
CHECK_DEADLOCK FALSE
