SPECIFICATION FairSpec
CONSTANTS
  Sessions = {s1, s2}
  Consoles = {c1}
  Followers = {}
  Follows <- FirstSession
  TailLength = 1
  BatchSize = 2
  KeepAfterFold = 0
  Window = 1
  MaxWriters = 1
  MaxEvents = 3
  MaxBreaks = 1
CHECK_DEADLOCK FALSE
INVARIANTS TypeOK RowsStand NoWakeupLost ConsolesMissNothing
PROPERTIES CatchesUp
