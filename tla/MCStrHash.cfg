CONSTANTS
  MaxHash = 2
  Multiplier = 1
  MaxListSize = 2
  Text <- MCText
  Str = {s1, s2, s3, s4}
  Val = {v1, v2, v3, v4}
  MaxRef = 2
SPECIFICATION Spec
SYMMETRY Symmetry
INVARIANTS
  TypeOK
  RefsExact
  WellFormed
  Ownership
  IteratorLinked
