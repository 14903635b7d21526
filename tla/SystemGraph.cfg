SPECIFICATION Spec
CONSTANTS
  LastSystem = 2
  Nodes = {a, b}
  Edges = {e}
  Faces = {f}
  MaxCopies = 2
  MaxObjects = 8
  MaxEdits = 2
  None = None
SYMMETRY NodesAlike
INVARIANTS
  TypeOK
  EdgesListed
  EndsAtHome
PROPERTIES
  GraphsAreVersions
CHECK_DEADLOCK FALSE
