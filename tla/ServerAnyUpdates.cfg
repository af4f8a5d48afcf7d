SPECIFICATION Spec
CONSTANTS
  c1 = c1
  c2 = c2
  c3 = c3
  r1 = r1
  r2 = r2
  a1 = a1
  a2 = a2
  NoMap = NoMap
  Seg = {s1}
  MaxCounter = 1
  Lookahead = 1
  Tolerance = 0
  Lifecycle <- MCUpdateLifecycle
  ClientId = {c1, c2, c3}
  Requests = {r1}
  Admins = {a1}
  Updaters = {u1}
  MaxEntries = 2
  MaxClients = 2
  MaxAge = 1
  MaxUses = 1
  MaxTime = 2
SYMMETRY Symmetry
INVARIANTS
  StoredMapsConsistent
  CapacityBound
