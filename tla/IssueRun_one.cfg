SPECIFICATION FairIssueSpec
CONSTANTS
  Runs <- OneRun
  NumCoders = 2
  Policies <- AnyPolicy
  Failing <- Flaky
  Budget <- People
INVARIANTS
  CodingIsSanctioned
PROPERTIES
  ApprovedIsCoded
CHECK_DEADLOCK FALSE
