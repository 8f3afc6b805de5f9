CONSTANTS
  p1 = p1  p2 = p2  q1 = q1  self = self
  Conn = {p1, p2, q1, self}
  ClientOf <- Clients
  RemoteOf <- Remotes
  IPOf <- IPs
  Closer = {k1, k2}
  MaxConns = 3
  MaxConnsPerIP = 2
  Nil = Nil
SPECIFICATION FairSpec
INVARIANTS TypeOK  NoLeak
PROPERTY AllEnd
CHECK_DEADLOCK FALSE
