SPECIFICATION FairSpec
CONSTANTS
  Standing = {hourly}
  Daemons = {d1}
  Never <- NoTime
  MaxTime = 5
  Occasions <- EveryTick
  MostCounted = 1
  MaxFaults = 2
CHECK_DEADLOCK FALSE
INVARIANTS TypeOK OneRunPerOccasion OneAtATime FiringsBecomeRuns
 
