\* Two devices that each added a scope of the same name.
CONSTANTS
  Process = {p1}
  Admin = {p1}
  CrashAt <- Nowhere
  Dir = {d1, d2}
  Identity = {i1}
  ScopeKey = {k1, k2, k3}
  ObjId = {o1, o2}
  Name = {n1, n2}
  Author = {}
  None = None
  NoFile = NoFile
  Torn = Torn
SPECIFICATION Spec
SYMMETRY Interchangeable
INVARIANTS ImportRejectsIndividually
CHECK_DEADLOCK FALSE
