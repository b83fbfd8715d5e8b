\* Two commands at once, one of which changes vault.cbor, dying anywhere
\* but while vault.cbor is truncated.
CONSTANTS
  Process = {p1, p2}
  Admin = {p1}
  CrashAt <- OutsideMeta
  Dir = {d1}
  Identity = {i1}
  ScopeKey = {k1, k2}
  ObjId = {o1}
  Name = {n1, n2}
  Author = {a1}
  None = None
  NoFile = NoFile
  Torn = Torn
SPECIFICATION Spec
SYMMETRY Interchangeable
INVARIANTS TypeOK AckedIsReadable ScopesNeverOverwritten
CHECK_DEADLOCK FALSE
