SPECIFICATION Spec
CONSTANTS
  a = a
  b = b
  d = d
  g = g
  m = m
  s = s
  t = t
  v1 = v1
  v2 = v2
  Modules = {a, b, d, g, m}
  Groups = {g}
  Streams = {s, t}
  Views = {v1, v2}
  InPorts <- MCInPorts
  OutPorts <- MCOutPorts
  Asks <- MCAsks
  Adds <- MCAdds
  Root = Root
  NULL = NULL
  InitModules <- MCModules
  InitOwner <- MCOwner
  Parents <- MCParents
  Offers <- MCOffers
  Files <- MCFiles
  MaxChanges = 2
INVARIANTS
  TypeOK
  StreamsCurrent
  ChecksCurrent
  LoadsFile
PROPERTIES
  CallReturns
