SPECIFICATION Spec
CONSTANTS
  s1 = s1
  s2 = s2
  i1 = i1
  i2 = i2
  Scans <- MCScans
  Ips <- TwoIps
  RpcIps <- OneIp
  UseDb = TRUE
  UseRedis = TRUE
  InitialCap = 1
  FinalCap = 1
  ChunkSize = 1
  StaleAge = 2
  Free = Free
INVARIANTS
  TypeOK
  KnownGoodIsDiscovered
  RedisIsOneBatch
  RedisMatchesTable
PROPERTIES
  ImplementsPeerStore
  LastSeenIsASighting
SYMMETRY ScanSymmetry
CHECK_DEADLOCK FALSE
