CONSTANTS
  MaxHash = 1
  Multiplier = 1
  MaxListSize = 3
  Sock <- MCSock
  Event = {e1, e2, e3}
  Types <- MCTypes
  MaxEvents = 3
  Contracts <- MCContracts
SPECIFICATION Spec
INVARIANTS
  TypeOK
  TablesHoldEvents
  KnotesBacked
  FramesSound
  BatchLive
PROPERTIES
  ImplementsBase
  ExitEndsLoop
