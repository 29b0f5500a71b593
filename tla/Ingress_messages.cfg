SPECIFICATION Spec
CONSTANTS
  Messages = {m1, m2}
  Threads = {t1}
  ThreadOf <- OneThread
  Deliveries <- FirstTwice
  Presses <- PressedTwice
  NoSession = none
  MaxCrashes = 1
CHECK_DEADLOCK FALSE
INVARIANTS TypeOK OneRunPerMessage OneHistoryPerThread TakenBackIsOver
