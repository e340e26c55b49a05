CONSTANTS
  r1 = r1
  r2 = r2
  r3 = r3
  None = None
  Relay <- MCThree
SPECIFICATION Spec
INVARIANTS NothingLeftBehind
 
