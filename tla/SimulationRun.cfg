SPECIFICATION FairSpec
CONSTANTS
  a = a
  b = b
  c = c
  d = d
  e = e
  g = g
  h = h
  s = s
  t = t
  Modules = {a, b, c, d, e, g, h}
  Streams = {s, t}
  Systems = {1, 2, 3, 4, 5, 6, 7, 8, 9, 10, 11, 12}
  NULL = NULL
  Root = Root
  Nets <- AllNets
  MaxRuns = 3
INVARIANTS
  TypeOK
  WorklistReady
  PredecessorsFirst
  OwnsAlone
  ProgressBounded
  SeesUpstreamOnly
  SeesAllUpstream
PROPERTIES
  EveryModuleRuns
  CancelSkips
  RunReturns
