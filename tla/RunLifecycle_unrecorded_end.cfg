SPECIFICATION FairSpec
CONSTANTS
  Runs = {r1}
  Sessions = {s1}
  SessionOf <- OneSession
  MaxTurns = 1
  MaxBatch = 0
  MaxCalls = 0
  MaxStops = 0
  Outcomes = {}
  Interruptible = {r1}
  EagerPeople = FALSE
  Vanishing = {}
CHECK_DEADLOCK FALSE

PROPERTIES InterruptedRunsEnd
