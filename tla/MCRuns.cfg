\* One run that a reader watches, or three under one key with two bodies.
CONSTANTS
  Key = {k}
  NoKey = NoKey
  Body = {b1, b2}
  Reader = {x}
  MaxConcurrent = 1
  MaxLogs = 1
  LogTtl = 0
  StatusTtl = 1
  MaxRuns = 3
  MaxEvents = 2
  MaxClock = 2
SPECIFICATION Spec
CONSTRAINT Scope
INVARIANTS OneEnding ActiveStaysReachable
PROPERTIES StatusIsFinal ClosedMeansAll 
SYMMETRY BodySymmetry
CHECK_DEADLOCK FALSE
