SPECIFICATION FairSpec
CONSTANTS
  NumRuns = 2
  ShaOf <- TwoCommits
  Inputs <- ReviewInputs
  SemCap = 1
  Failing <- Deciders
  DeadlineFires = FALSE
  Budget <- BudgetMergeCancel
  Mixes <- MergeCancel
INVARIANTS
  NoOrphanedRun
  FoldHonest
  SingleNotification
PROPERTIES
  RunEnds
CHECK_DEADLOCK FALSE
