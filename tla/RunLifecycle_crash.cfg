SPECIFICATION Spec
CONSTANTS
  Runs = {r1, r2}
  Sessions = {s1}
  SessionOf <- OneSession
  MaxTurns = 2
  MaxBatch = 1
  MaxCalls = 1
  MaxStops = 1
  Outcomes = {"allow", "approval"}
  Interruptible = {}
  EagerPeople = TRUE
  Vanishing = {"sender", "decider", "interrupter"}
CHECK_DEADLOCK FALSE

INVARIANTS TurnHeldOnce LineIsTracked OneDriverPerRun ToolsRunOnceAndAllowed
PROPERTIES EndingStands RowBeforeEvent TakesTurns
SYMMETRY RunsAlike
