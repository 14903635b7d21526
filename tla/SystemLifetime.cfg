SPECIFICATION Spec
CONSTANTS
  a = a
  b = b
  c = c
  g = g
  s = s
  t = t
  Modules = {a, b, c, g}
  Streams = {s, t}
  NULL = NULL
  Root = Root
  Nets <- AllNets
  MaxSystems = 8
  MaxRuns = 3
  MaxEdits = 2
INVARIANTS
  TypeOK
  MemorySafe
  WritesLeavesOnly
CHECK_DEADLOCK FALSE
