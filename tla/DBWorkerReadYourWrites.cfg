SPECIFICATION FairSpec
CONSTANTS
  Clients = {c1}
  WriteCmds = {insert}
  SelectCmds = {select}
  StackSize = 3
  MaxCalls = 3
  NoOne = NoOne
  Worker = Worker
INVARIANT
  ReadYourWrites
