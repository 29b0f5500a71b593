SPECIFICATION Spec
CONSTANTS
  Mains = {r1, r2}
  Workers = {w1}
  NoRun = none
  MaxTurns = 2
  MaxFoldsInHead = 1
  KeepAfterFold = 1
  MaxEvents = 12
  Overlapping = TRUE
  Interrupts = TRUE
  Parks = TRUE
CHECK_DEADLOCK FALSE
INVARIANTS TypeOK PositionsStand WorkIsRemembered ResultsFollowCalls FewFolds QuestionsAreAsked OnlyDiscardedTurnsAreFree
PROPERTIES LogIsKept PruneIsInvisible FoldsAdvance
