SPECIFICATION Spec
CONSTANTS
  Standing = {hourly}
  Daemons = {d1, d2}
  Never <- NoTime
  MaxTime = 1
  Occasions <- EveryTick
  MostCounted = 1
  MaxFaults = 0
CHECK_DEADLOCK FALSE
INVARIANTS OneRunPerOccasion
