\* Three messages of one chat, one failure.
CONSTANTS
  c = c
  q = q
  s = s
  Msgs <- MCMsgs
  Via <- MCVia
  MaxTurns = 3
  MaxFaults = 1
SPECIFICATION Spec
INVARIANTS  NeverInterrupts   
CHECK_DEADLOCK FALSE
