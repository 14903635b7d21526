SPECIFICATION FairSpec
CONSTANTS
  Clients = {c1, c2}
  WriteCmds = {insert}
  SelectCmds = {select}
  StackSize = 2
  MaxCalls = 2
  NoOne = NoOne
  Worker = Worker
INVARIANT
  RowsAreCallers
