\* Two migrators share one tmp file.
CONSTANTS
  owner = owner
  friend = friend
  twin = twin
  ko = ko
  kf = kf
  s1 = s1
  b1 = b1
  b2 = b2
  Key = {owner, friend}
  Kid = {ko, kf}
  KeyIdOf <- MCKeyIdOf
  Owner = owner
  ObjId = {f1}
  ScopeId = {s1}
  Body = {b1}
  None = None
  Incoming <- RaceForms
  Misfiled <- NoEnvelope
  Migrator = {p1, p2}
  Admin = {a1}
  NoFile = NoFile
  Torn = Torn
SPECIFICATION Spec
PROPERTIES PublishedIsWhole
CHECK_DEADLOCK FALSE
