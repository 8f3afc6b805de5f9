SPECIFICATION Spec
CONSTANTS
  Peer = {p1, p2}
  Handler = {h1, h2}
  NoHandler = NoHandler
  ChanCap = 1
  MaxInFlight = 2
  MaxBreaks = 1
  MaxStops = 1
INVARIANTS TypeOK 
PROPERTIES ConnectedSpared
SYMMETRY MCSymmetry
CHECK_DEADLOCK FALSE
