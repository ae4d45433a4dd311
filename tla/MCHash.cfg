CONSTANTS
  MaxHash = 2
  Multiplier = 3
  MaxListSize = 2
  Key <- MCKey
  Val = {v1, v2, v3}
  None = None
SPECIFICATION Spec
INVARIANTS
  TypeOK
  Ownership
  WellFormed
  IteratorLinked
PROPERTIES
  TraversalEnds
  ImplementsMap
  CallsAgree
