CONSTANTS
  MaxHash = 2
  Multiplier = 1
  MaxListSize = 2
  Sock <- MCSock
  Event = {e1, e2, e3}
  Types <- MCTypes
SPECIFICATION Spec
INVARIANTS
  TypeOK
  TablesHoldEvents
  FramesSound
  IteratorLinked
  BitsBacked
  MaxFdCovers
  ExitNeverWaits
PROPERTIES
  RoundServesAll
  QuietNotDispatched
  ImplementsBase
  ExitEndsLoop
