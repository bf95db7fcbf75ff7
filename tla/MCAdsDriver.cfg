SPECIFICATION FairSpec
CONSTANTS
  r = r
  w = w
  b = b
  k1 = k1
  k2 = k2
  Vars = {r, b}
  WriteVars = {b}
  IntrVars = {r, b}
  Chunks = {k1, k2}
  ChunkOf <- MCChunkOf
  Clients = {t1}
  NoVar = NoVar
  Scan = Scan
  Nobody = Nobody
  MaxFaults = 2
INVARIANTS
  TypeOK
  NeverHalfConnected
  ReadsAreOfTheLatestSession
  WritesUseNoOldHandle
  LeaksCostFaults
  NoCircularWait
  Inv
PROPERTIES
  NoReconnectInHandler
  TurnsEnd
  SessionSpec
  Recovers
  ExitCompletes
  HandlersReturn
