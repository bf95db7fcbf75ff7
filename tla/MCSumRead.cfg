SPECIFICATION Spec
CONSTANTS
  a = a
  b = b
  c = c
  d = d
  e = e
  Variables <- MCVariables
  Ports <- MCPorts
  Port <- MCPort
  Size <- MCSize
  MaxVars = 2
  SoftLimit = 5
  SizeMod = 32
INVARIANTS
  TypeOK
  RegionsDisjoint
  LayoutMatchesDevice
  OnePortPerChunk
  NoDanglingReader
  ChunksFilledInOrder
