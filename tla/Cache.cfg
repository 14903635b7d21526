SPECIFICATION Spec
CONSTANTS
  Keys = {k1, k2, k3, k4}
  Values = {v1, v2}
  Size = 3
  Null = Null
INVARIANTS
  TypeOK
  ListMatchesMap
  SizeKept
PROPERTIES
  SortedByAccess
