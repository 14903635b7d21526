SPECIFICATION Spec
CONSTANTS
  b1 = b1
  b2 = b2
  b3 = b3
  b4 = b4
  Labels <- FourLabels
  CacheSize = 2
  BlockWriting = 3
  MaxWrites = 3
  MaxQueue = 2
  MaxResizes = 3
  Null = Null
INVARIANTS
  TypeOK
  RowsAsSaved
  LabelsMatchRows
  CacheKept
CHECK_DEADLOCK FALSE
