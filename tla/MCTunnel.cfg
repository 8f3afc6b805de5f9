SPECIFICATION Spec
CONSTANTS
  a = a
  b = b
  Node = {a, b}
  Offset <- MCOffset
  HandshakeRetryTimeout = 1
  MaxHandshakeRetries = 1
  RekeyTimeLimit = 2
  MaxTimestampSkew = 1
  HoldQueueMax = 1
  StartTime = 1
  MaxTime = 3
  MaxInits = 2
  MaxResets = 1
INVARIANTS TypeOK  ConfirmedBeforeUse
