\* An import that dies while it writes an object is run again.
CONSTANTS
  Process = {p1}
  Admin = {p1}
  CrashAt <- OutsideMeta
  Dir = {d1, d2}
  Identity = {i1}
  ScopeKey = {k1}
  ObjId = {o1}
  Name = {n1}
  Author = {}
  None = None
  NoFile = NoFile
  Torn = Torn
SPECIFICATION Spec
SYMMETRY Interchangeable
INVARIANTS ImportRestores
CHECK_DEADLOCK FALSE
