CONSTANTS
  c1 = c1  c2 = c2
  Conn = {c1, c2}
  NumShards = 2
  ShardOf <- TwoShards
  Entry = {e1, e2, e3, e4}
  Nil = Nil
  MaxFlows = 1
  MaxAttempts = 2
SPECIFICATION Spec
SYMMETRY Symmetry
VIEW Live
INVARIANT ListMatches
