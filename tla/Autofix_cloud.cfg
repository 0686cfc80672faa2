SPECIFICATION FairSpec
CONSTANTS
  c = c
  d = d
  f = f
  g = g
  src = src
  ci = ci
  note = note
  bug = bug
  leak = leak
  nit = nit
  NoFile = NoFile
  Requested <- Asked
  AIKeys <- ReviewKeys
  OSAKeys <- ScanKeys
  Severity <- SeverityOf
  Threshold = 3
  File <- FileOf
  Cloud = {c, d}
  Fixes = {f, g}
  Fleets <- Pairs
  Run <- OneRun
  Mode <- Modes
  Paths <- AllPaths
  Denied <- Protected
  Note = note
  MaxFiles = 1
  MaxIter = 2
  RateMax = 2
  FixSlots = 1
  RunTests = TRUE
  NoAI = TRUE
  Failing <- AllSteps
  Budget <- Once
  Mixes <- BootOrSupersede
INVARIANTS
  LandedIsGated
  OnePullRequest
PROPERTIES
  DrainStopsPushes
  EveryJobEnds
CHECK_DEADLOCK FALSE
