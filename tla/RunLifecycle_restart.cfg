SPECIFICATION FairSpec
CONSTANTS
  Runs = {r1, r2}
  Sessions = {s1}
  SessionOf <- OneSession
  MaxTurns = 2
  MaxBatch = 1
  MaxCalls = 1
  MaxStops = 1
  Outcomes = {"allow"}
  Interruptible = {r1}
  EagerPeople = FALSE
  Vanishing = {"interrupter"}
CHECK_DEADLOCK FALSE

INVARIANT TurnInv
PROPERTIES NoRunStranded LineMoves
