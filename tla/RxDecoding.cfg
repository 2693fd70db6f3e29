SPECIFICATION LinkSpec
CONSTANTS
  Period = 8
  Lines = 3
  Margin = 1
  VisLength = 3
  IdleWindow = 12
  Preamble = 1
  Slack = 1
  DecodeCap = 42
  Recordings <- MCRecordings
  Chunks = {2, 3}
  Pieces = {4, 11, 30, 60, 120}
  FlushIdle = 5
  FlushDecoding = 2
  FlushBatch = 6
  LineBudget = 20
  TotalBudget = 40
INVARIANTS
  RowsOnTheirLines
  HeardAsSent
  ImagesDelivered
CHECK_DEADLOCK FALSE
