\* Two devices, a server on each; the .amem file travels.
CONSTANTS
  p1 = p1
  d1 = d1
  d2 = d2
  Process = {p1, p2}
  Admin = {p1, p2}
  CrashAt <- Nowhere
  Dir = {d1, d2}
  Identity = {i1, i2}
  ScopeKey = {k1, k2}
  ObjId = {o1}
  Name = {n1}
  Author = {}
  None = None
  NoFile = NoFile
  Torn = Torn
  Home <- OneVaultEach
  Default = n1
SPECIFICATION ServerSpec
INVARIANTS NewDeviceImports
CHECK_DEADLOCK FALSE
