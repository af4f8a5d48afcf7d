SPECIFICATION SerialSpec
CONSTANTS
  c1 = c1
  c2 = c2
  c3 = c3
  r1 = r1
  r2 = r2
  a1 = a1
  a2 = a2
  NoMap = NoMap
  Seg = {s1}
  MaxCounter = 2
  Lookahead = 1
  Tolerance = 0
  Lifecycle <- MCLifecycle
  ClientId = {c1, c2}
  Requests = {r1, r2}
  Admins = {a1}
  Updaters = {u1}
  MaxEntries = 1
  MaxClients = 2
  MaxAge = 0
  MaxUses = 3
  MaxTime = 1
SYMMETRY Symmetry
INVARIANTS
  NoReplay
PROPERTIES
  KeepsPromise
  UsageCap
