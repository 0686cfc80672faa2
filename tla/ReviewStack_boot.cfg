SPECIFICATION FairSpec
CONSTANTS
  pr1 = pr1
  pr2 = pr2
  NoJob = NoJob
  NumItems = 2
  Jobs = {pr1, pr2}
  JobOf <- Both
  Conc = 1
  Ends <- RunEnds
  NumDrains = 2
  Budget <- Once
  Mixes <- BootOrAdmin
INVARIANTS
  ProcessorsBounded
  DoneMeansDone
PROPERTIES
  StackDrains
  StackSettles
CHECK_DEADLOCK FALSE
