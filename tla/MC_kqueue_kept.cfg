CONSTANTS
  MaxHash = 1
  Multiplier = 1
  MaxListSize = 3
  Sock <- MCSock
  Event = {e1, e2}
  Types <- MCTypes
  MaxEvents = 2
  Contracts = {}
SPECIFICATION Spec
PROPERTY CalledIsKept
