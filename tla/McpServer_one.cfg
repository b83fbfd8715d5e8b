\* One server, that may be killed at any point.
CONSTANTS
  p1 = p1
  d1 = d1
  d2 = d2
  Process = {p1}
  Admin = {p1}
  CrashAt <- Anywhere
  Dir = {d1}
  Identity = {i1}
  ScopeKey = {k1, k2}
  ObjId = {o1, o2}
  Name = {n1, n2}
  Author = {}
  None = None
  NoFile = NoFile
  Torn = Torn
  Home <- OneVault
  Default = n1
SPECIFICATION FairServerSpec
INVARIANTS ServerTypeOK RememberedInScope AckedIsReadable
PROPERTIES ToolsAnswer
CHECK_DEADLOCK FALSE
