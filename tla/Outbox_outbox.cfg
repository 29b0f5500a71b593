SPECIFICATION FairSpec
CONSTANTS
  Runs = {r1, r2}
  Growing = {r1}
  Window = 1
  MaxRefusals = 1
  MaxBreaks = 1
CHECK_DEADLOCK FALSE
INVARIANTS TypeOK SettledWasShown NothingIsSkipped AnswerStandsLast
PROPERTIES DispatchesArrive
