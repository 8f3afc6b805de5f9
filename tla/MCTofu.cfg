\* Two keys that move among three addresses, one old address reserved.
CONSTANTS
  Key = {k1, k2}
  Addr = {a1, a2, a3}
  Nil = Nil
  MaxPrevVPNAddrs = 1
  MaxFaults = 1
  MaxCommands = 1
SYMMETRY Symmetry
SPECIFICATION TofuSpec
INVARIANTS
  TofuTypeOK
  OwnersMatch
  TrustedPinned
