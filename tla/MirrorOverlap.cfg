SPECIFICATION MirrorSpec
CONSTANTS
  c1 = c1
  c2 = c2
  c3 = c3
  k1 = k1
  k2 = k2
  i1 = i1
  i2 = i2
  NoMap = NoMap
  Seg = {s1}
  MaxCounter = 1
  Lookahead = 1
  Tolerance = 0
  Lifecycle <- MCLifecycle
  ClientId = {c1}
  Calls = {k1, k2}
  Ingests = {i1, i2}
  MaxEntries = 1
  ReplicaEntries = 1
  MaxQueue = 1
  MaxOps = 2
CHECK_DEADLOCK FALSE
SYMMETRY Symmetry
INVARIANTS
  NeverPastALoss
  CheckpointApplied
