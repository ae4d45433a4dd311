CONSTANTS
  d1 = d1
  d2 = d2
  Data <- MCData
  Null = Null
  Junk = Junk
  DefaultSize = 2
  InitSizes <- MCInitSizes
  MaxSize = 3
  Contracts = {"Occupied", "Inner"}
SPECIFICATION Spec
SYMMETRY Symmetry
INVARIANTS
  TypeOK
  CellsSound
PROPERTIES
  ImplementsSeq
  CallsAgree
