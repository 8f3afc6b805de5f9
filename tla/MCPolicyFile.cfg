CONSTANTS
  Nil = Nil
  BadKey = BadKey
  NoPort = NoPort
  Missing = Missing
  Empty <- NoDoc
  Docs <- StartDocs
  Edits <- EditDocs
  Packets <- AllPackets
  Key <- Keys
  Debounce = 1
  MaxTime = 2
  MaxChanges = 3
  MaxSignals = 1
SPECIFICATION Spec
INVARIANTS TypeOK ParseMeets  StaleExplained
