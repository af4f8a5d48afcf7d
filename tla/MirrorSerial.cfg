SPECIFICATION MirrorSpec
CONSTANTS
  c1 = c1
  c2 = c2
  c3 = c3
  k1 = k1
  k2 = k2
  i1 = i1
  i2 = i2
  NoMap = NoMap
  Seg = {s1}
  MaxCounter = 2
  Lookahead = 1
  Tolerance = 0
  Lifecycle <- MCLifecycle
  ClientId = {c1, c2, c3}
  Calls = {k1}
  Ingests = {i1}
  MaxEntries = 2
  ReplicaEntries = 2
  MaxQueue = 2
  MaxOps = 4
CHECK_DEADLOCK FALSE
SYMMETRY Symmetry
INVARIANTS
  MirrorsPrimary
PROPERTIES
  ReplicaNoRollback
