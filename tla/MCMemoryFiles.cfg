CONSTANTS
  a = a
  b = b
  x = x
  Gateway = {g}
  Nobody = Nobody
  Entry = {a, b, x}
  Risky = {x}
  Request <- MCRequest
  Limit = 2
  SnapshotId = {s1, s2}
  ProposalId = {p1}
  MaxText = 2
  Unchecked = Unchecked
  Missing = Missing
  Refused = Refused
SPECIFICATION Spec
INVARIANTS AppliedMeansWritten
PROPERTIES NoLostUpdate UndoSaved WritesAreLegal RetryAddsNoCopy SettledIsFinal
SYMMETRY SnapshotSymmetry
