SPECIFICATION Spec
CONSTANTS
  LastSystem = 2
  Names = {c}
  NodeNames = {c}
  MaxWrites = 2
  MaxCopies = 2
  None = None
PROPERTIES
  OnlyOneSystemChanges
CHECK_DEADLOCK FALSE
