SPECIFICATION FairClientSpec
CONSTANTS
  Seg = {s1, s2}
  MaxCounter = 3
  Lookahead = 2
  Tolerance = 0
  Lifecycle <- MCLifecycle
  Calls = {k1, k2, k3}
  MaxCrashes = 2
CHECK_DEADLOCK FALSE
PROPERTIES
  NoRollback
  LockoutIsFinal
  UsedOrLeftBehind
