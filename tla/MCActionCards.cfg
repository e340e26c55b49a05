SPECIFICATION Spec
CONSTANTS
  m1 = m1
  m2 = m2
  a1 = a1
  a2 = a2
  c1 = c1
  c2 = c2
  Message = {m1, m2}
  Activity = {a1, a2}
  Card = {c1, c2}
  Capacity = 1
  Reports <- MCReports
  Scripts <- MCScripts
  MaxFaults = 1
INVARIANTS  CardTellsTruth CancelledQuestionEndsTurn WaitingIsAnswerable
 
CHECK_DEADLOCK FALSE
