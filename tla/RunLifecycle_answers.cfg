SPECIFICATION FairSpec
CONSTANTS
  Runs = {r1}
  Sessions = {s1}
  SessionOf <- OneSession
  MaxTurns = 3
  MaxBatch = 2
  MaxCalls = 2
  MaxStops = 0
  Outcomes = {"approval", "question", "allow", "deny"}
  Interruptible = {}
  EagerPeople = FALSE
  Vanishing = {}
CHECK_DEADLOCK FALSE

PROPERTY DecisionMovesRun
