CONSTANTS
  Conn = {c1, c2}
  Nil = Nil
  Policy <- AnyPolicy
SPECIFICATION GateSpec
SYMMETRY Symmetry
INVARIANTS GateTypeOK 
