\* Two devices, one command at a time, dying anywhere but in a write of
\* vault.cbor or of an imported file.
CONSTANTS
  Process = {p1}
  Admin = {p1}
  CrashAt <- OutsideImportWrites
  Dir = {d1, d2}
  Identity = {i1}
  ScopeKey = {k1, k2}
  ObjId = {o1, o2}
  Name = {n1, n2}
  Author = {a1}
  None = None
  NoFile = NoFile
  Torn = Torn
SPECIFICATION Spec
SYMMETRY Interchangeable
INVARIANTS ContainerReconstructs ImportRestores ScopesNeverOverwritten
CHECK_DEADLOCK FALSE
