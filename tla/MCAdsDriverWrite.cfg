SPECIFICATION Spec
CONSTANTS
  r = r
  w = w
  b = b
  k1 = k1
  k2 = k2
  Vars = {r, w, b}
  WriteVars = {w, b}
  IntrVars = {r, b}
  Chunks = {k1, k2}
  ChunkOf <- MCChunkOf
  Clients = {t1}
  NoVar = NoVar
  Scan = Scan
  Nobody = Nobody
  MaxFaults = 2
INVARIANTS
  WriteReachesItsVariable
