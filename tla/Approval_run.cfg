SPECIFICATION FairSpec
CONSTANTS
  Cases <- AllCases
  MaxDelay = 1
INVARIANTS
  GateIsAboutAScan
  ApproveOnEvidence
  RefusalHasCause
PROPERTIES
  DecisionComes
CHECK_DEADLOCK FALSE
