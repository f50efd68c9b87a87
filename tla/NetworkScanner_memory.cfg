SPECIFICATION Spec
CONSTANTS
  s1 = s1
  s2 = s2
  i1 = i1
  i2 = i2
  Scans <- MCScans
  Ips <- OneIp
  RpcIps <- OneIp
  UseDb = FALSE
  UseRedis = TRUE
  InitialCap = 1
  FinalCap = 1
  ChunkSize = 1
  StaleAge = 1
  Free = Free
PROPERTIES
  ScansEnd
CHECK_DEADLOCK FALSE
