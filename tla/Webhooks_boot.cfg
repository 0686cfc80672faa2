SPECIFICATION FairSpec
CONSTANTS
  r1 = r1
  r2 = r2
  r3 = r3
  Requests = {r1, r2, r3}
  NoJob = NoJob
  Cases <- MixedCases
  Ends <- SomeEnds
  Crashes = 1
INVARIANTS
  OneQueued
  ReceiptsSettle
  JobHasReceipt
PROPERTIES
  AcceptedIsWorkedOff
CHECK_DEADLOCK FALSE
