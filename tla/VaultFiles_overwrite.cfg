\* Two commands that change vault.cbor at once; nothing dies.
CONSTANTS
  Process = {p1, p2}
  Admin = {p1, p2}
  CrashAt <- Nowhere
  Dir = {d1}
  Identity = {i1}
  ScopeKey = {k1, k2}
  ObjId = {o1}
  Name = {n1}
  Author = {}
  None = None
  NoFile = NoFile
  Torn = Torn
SPECIFICATION Spec
SYMMETRY Interchangeable
INVARIANTS ScopesNeverOverwritten
CHECK_DEADLOCK FALSE
