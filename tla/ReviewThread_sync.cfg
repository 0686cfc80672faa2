SPECIFICATION ThreadSpec
CONSTANTS
  x = x
  y = y
  main = main
  util = util
  Keys = {x, y}
  Files = {main, util}
  FileOf <- FileOfKey
  Lines = {1, 2}
  Reports <- Found
  NumReviews = 3
  NumPushes = 1
  Incremental = TRUE
  MaxComments = 4
  Budget <- OneOfEach
  Mixes <- Either
INVARIANTS
  ReportedIsOpen
PROPERTIES
  ClosedForCause
CHECK_DEADLOCK FALSE
