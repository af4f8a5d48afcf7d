SPECIFICATION HandoverSpec
CONSTANTS
  n1 = n1 n2 = n2 n3 = n3 c1 = c1 c2 = c2 l1 = l1 l2 = l2 k1 = k1 m1 = m1 g1 = g1
  Node = {n1, n2, n3}
  Holder = {n1}
  Status = {"revoked"}
  Margin = {0}
  Cmd = {c1, c2}
  LeaseCmd = {l1, l2}
  Marker = {m1}
  Caller = {k1}
  Generation = {g1}
  Origin = n1
  Horizon = 0
  Deadline = {1}
  MinRemaining = 1
  MaxEpoch = 2
  MaxClock = 0
  MaxLosses = 0
  MaxRows = 2
  MaxGrants = 3
SYMMETRY Symmetry
CHECK_DEADLOCK FALSE
INVARIANTS
  HandoverSound
  SingleSource
PROPERTIES
  IsOneLog
