SPECIFICATION MCSpec
CONSTANTS
  lower = lower
  upper = upper
  Peer = {p1, p2}
  Addr = {a1, a2}
  Endpoint = {e1, e2}
  Name <- MCName
  Label = {lower}
  Lower <- MCLower
  Ref = {r1, r2, r3}
  NoRef = NoRef
  NoAddr = NoAddr
  NoEndpoint = NoEndpoint
  NoName = NoName
INVARIANTS TableTypeOK IndexSound Routable
PROPERTY SlotsKept
SYMMETRY MCSymmetry
