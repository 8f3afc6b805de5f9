SPECIFICATION Spec
CONSTANTS
  Peer = {p1, p2, p3}
  Net = {n1}
  Key = {k1, k2}
  lower = lower
  upper = upper
  Name <- MCName
  Fold <- MCFold
  Endpoint = {}
  Caller = {c1}
  NumHosts = 3
  MaxMachines = 2
  MaxFallbackHosts = 3
  Gran = 2
  TTL = 2
  StartTime = 2
  MaxTime = 5
  NoNet = NoNet
  NoName = NoName
  NoKey = NoKey
  NoEndpoint = NoEndpoint
INVARIANTS TypeOK Unique CountExact LeftReusable
PROPERTIES NewcomerPlaced SweepNotEarly IdentityStable
SYMMETRY Symmetry
