CONSTANTS
  MaxHash = 2
  Multiplier = 1
  MaxListSize = 2
  Sock <- MCSock
  Event = {e1, e2}
  Types <- MCTypes
SPECIFICATION Spec
PROPERTY DispatchOnlyReported
