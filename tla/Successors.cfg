SPECIFICATION Spec
CONSTANTS
  LastSystem = 2
  Names = {c}
  NodeNames = {}
  MaxWrites = 2
  MaxCopies = 2
  None = None
INVARIANTS
  TypeOK
  HeapSound
  ViewsAgree
PROPERTIES
  SuccessorsAreVersions
CHECK_DEADLOCK FALSE
