SPECIFICATION Spec
CONSTANTS
  Reader = {r1, r2}
  WindowSize = 3
  RekeyThreshold = 7
INVARIANTS TypeOK NoReplay WindowExact
SYMMETRY ReaderSymmetry
