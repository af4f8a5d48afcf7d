SPECIFICATION ServicesSpec
CONSTANTS
  NoMap = NoMap
  Seg = {s1}
  MaxCounter = 1
  Lookahead = 1
  Tolerance = 0
  Lifecycle <- MCLifecycle
  ClientId = {c1, c2}
  Editor = {e1}
  MaxRevision = 2
  MaxPending = 2
  UsedAtSkew = 0
  MaxRows = 3
  MaxIssued = 2
  MaxGrants = 2
  MaxFence = 2
  MaxTime = 1
  Entry = {x1, x2}
  SysId = {y1}
  MaxLedger = 2
  MaxLeaseSeq = 2
  MaxReceipts = 2
  FileClient = {f1, f2, f3}
  Proc = {p1, p2}
  FileEntries = 2
  NoEntry = NoEntry
  NoProc = NoProc
  FileIssued = 3
  MaxDeaths = 1
  Txn = {t1, t2}
  Conn = {d1, d2}
  NoConn = NoConn
  MaxRetries = 1
  Nonce = {o1, o2}
  Ingest = {h1, h2}
  Freshness = 1
  Skew = 1
  Safety = 1
  MaxStall = 1
  Retention = 5
  Offset <- MCOffset
  Stamps = {2, 5}
  MaxNow = 6
  Session = {g1, g2}
  Attesting = {g1}
  MaxDdl = 2
  MaxDml = 2
  Scope = {v1}
  Query = {q1, q2}
  MaxRelease = 2
  Principal = {u1}
  Agent = {a1, a2}
  ProviderId = {i1, i2}
  MaxEvents = 4
  Request = {r1}
  Pair = {b1, b2}
  Holder = {k1, k2}
  NoHolder = NoHolder
  AdminOp = {z1, z2, z3}
  Suspect = {j1, j2, j3}
  Ip = {ip1}
  NoIp = NoIp
  Window = 1
  MaxEntries = 2
  MaxPerClient = 2
  HighRate = 3
  MediumRate = 2
  IpClients = 2
  MaxSeen = 4
  MaxWatch = 1
  Caller = {l1, l2}
  Replicas = 1
  MissThreshold = 2
  MissWindow = 1
  MaxMisses = 3
  MaxMoment = 2
  CacheCall = {w1, w2}
  CacheKey = {n1, n2}
  BoundTo = {m1, m2}
  MaxHour = 2
  LayoutOptions <- MCLayoutOptions
  Unset = Unset
  MinSegment = 8
  ChecksumLength = 12
  Requestor = {rq1}
  MaxTokens = 2
  RefillTime = 3
  MaxInstant = 10
CHECK_DEADLOCK FALSE
INVARIANTS
  
  WitnessOneLine
  
  TransactorSound
  NonceInv
  GateSound
  ScopeSound
  
  
  TrackingSound
  FailoverSound
  
  LayoutSound
  
PROPERTIES
  CommitsForward
