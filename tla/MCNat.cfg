CONSTANTS
  one = one
  two = two
  Nil = Nil
  Direct = Direct
  Node <- Nodes
  Relayed <- Relays
  MaxSessions <- Sessions
  MaxRestarts <- Restarts
SPECIFICATION Spec
INVARIANTS TypeOK FoundGenuine AnswersOutlive 
