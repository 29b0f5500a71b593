SPECIFICATION Spec
CONSTANTS
  Sessions = {s1}
  Consoles = {}
  Followers = {f1}
  Follows <- FirstSession
  TailLength = 1
  BatchSize = 2
  KeepAfterFold = 0
  Window = 1
  MaxWriters = 1
  MaxEvents = 4
  MaxBreaks = 1
CHECK_DEADLOCK FALSE
INVARIANTS FollowersMissNothing
