CONSTANTS
  d1 = d1
  d2 = d2
  Node = {n1, n2, n3}
  Data <- MCData
  Null = Null
  Entries = Entries
  Like <- MCLike
  MaxListSize = 3
SPECIFICATION Spec
PROPERTIES
  ErasesItsNode
