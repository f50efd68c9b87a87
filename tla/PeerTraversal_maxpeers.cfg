SPECIFICATION Spec
CONSTANTS
  p1 = p1
  q1 = q1
  p2 = p2
  p3 = p3
  p4 = p4
  i1 = i1
  i2 = i2
  i3 = i3
  i4 = i4
  u1 = u1
  u2 = u2
  Peers <- MCPeers
  Ips <- MCIps
  Urls <- MCUrls
  IpOf <- MCIpOf
  RpcOf <- MCRpcOf
  NoRpc = NoRpc
  BadRpc = BadRpc
  Absent = Absent
  MaxDepth = 0
  MaxPeers = 2
  MaxPeersPerDepth = 2
  DefaultAttempts = 5
  MaxConcurrent = 2
INVARIANTS
  MaxPeersIsMaximum
CHECK_DEADLOCK FALSE
