SPECIFICATION CheckupSpec
CONSTANTS
  lib = lib
  Plans <- AllPlans
  MaxSteps = 2
  MaxServices = 2
  Modules = {lib}
  Budget <- Once
  Mixes <- CallsAndCrashes
INVARIANTS
  PassIsEarned
  DropsAreShown
  NothingLeftBehind
CHECK_DEADLOCK FALSE
