SPECIFICATION Spec
CONSTANTS
  Mains = {r1, r2}
  Workers = {}
  NoRun = none
  MaxTurns = 2
  MaxFoldsInHead = 1
  KeepAfterFold = 1
  MaxEvents = 11
  Overlapping = TRUE
  Interrupts = FALSE
  Parks = FALSE
CHECK_DEADLOCK FALSE
INVARIANT TurnReachesTheModel
