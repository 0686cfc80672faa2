SPECIFICATION FairSpec
CONSTANTS
  NumRuns = 1
  ShaOf <- OneCommit
  Inputs <- MixedInputs
  SemCap = 1
  Failing <- AllKinds
  DeadlineFires = TRUE
  Budget <- BudgetAll
  Mixes <- BootsOrCalls
INVARIANTS
  DependencyBarrier
  DecisionAfterReviewers
PROPERTIES
  Quiesces
CHECK_DEADLOCK FALSE
