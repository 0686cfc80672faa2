SPECIFICATION FairSpec
CONSTANTS
  maxInFlightInserts = 2
  Budget <- Once
  Mixes <- Together
INVARIANTS
  EndIsFinal
  NewestIsCurrent
  RowTellsAll
PROPERTIES
  StoredIsWorkedOff
CHECK_DEADLOCK FALSE
