SPECIFICATION Spec
CONSTANTS
  p1 = p1
  q1 = q1
  p2 = p2
  p3 = p3
  p4 = p4
  i1 = i1
  i2 = i2
  i3 = i3
  i4 = i4
  u1 = u1
  u2 = u2
  Peers <- MCPeers
  Ips <- MCIps
  Urls <- MCUrls
  IpOf <- MCIpOf
  RpcOf <- MCRpcOf
  NoRpc = NoRpc
  BadRpc = BadRpc
  Absent = Absent
  MaxDepth = 3
  MaxPeers = 0
  MaxPeersPerDepth = 2
  DefaultAttempts = 3
  MaxConcurrent = 2
INVARIANTS
  TypeOK
  SeenIsKnown
  ContactedOnce
  NoneStranded
  AttemptsBounded
  VerdictsMatchContacts
PROPERTIES
  EntriesAreStable
  StepsAreCounted
  ImplementsCrawl
  Termination
CHECK_DEADLOCK FALSE
