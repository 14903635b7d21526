SPECIFICATION FairSpec
CONSTANTS
  Clients = {c1, c2}
  WriteCmds = {insert}
  SelectCmds = {select}
  StackSize = 2
  MaxCalls = 2
  NoOne = NoOne
  Worker = Worker
INVARIANTS
  DBTypeOK
  StackSound
  AwaitsOwnAnswer
  WritesInOrder
PROPERTIES
  CallsReturn
  ShutdownCompletes
