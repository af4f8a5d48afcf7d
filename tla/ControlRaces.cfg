SPECIFICATION MCControlSpec
CONSTANTS
  n1 = n1 n2 = n2 c1 = c1 c2 = c2 l1 = l1 l2 = l2 l3 = l3 k1 = k1 k2 = k2 m1 = m1 m2 = m2 g1 = g1
  Node = {n1, n2}
  Holder = {n1}
  Status = {"active", "revoked"}
  Margin = {0}
  Deadline = {1, 2}
  Cmd = {c1, c2}
  LeaseCmd = {l1, l2, l3}
  Marker = {m1, m2}
  Caller = {k1, k2}
  Generation = {g1}
  Horizon = 1
  MinRemaining = 1
  MaxEpoch = 2
  MaxClock = 1
  MaxLosses = 1
SYMMETRY Symmetry
CHECK_DEADLOCK FALSE
INVARIANTS
  ControlSound
  HorizonElapsed
  ActivationsChain
