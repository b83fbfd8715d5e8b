\* One recall over two files, one of which holds text that is no text.
CONSTANTS
  owner = owner
  friend = friend
  twin = twin
  ko = ko
  kf = kf
  s1 = s1
  b1 = b1
  b2 = b2
  Key = {owner, friend}
  Kid = {ko, kf}
  KeyIdOf <- MCKeyIdOf
  Owner = owner
  ObjId = {f1, f2}
  ScopeId = {s1}
  Body = {b1}
  None = None
  Incoming <- RecallForms
  Misfiled <- NoEnvelope
  Migrator = {p1}
  Admin = {a1}
  NoFile = NoFile
  Torn = Torn
  Reader = {r1}
  Live = Live
  Adapter = adapter
  AdapterId = id
  Other = friend
  Stranger = ks
  OID = f1
  SCOPE_ID = s1
  RewrittenId = f2
  RewrittenScope = s9
  Probe = b1
SPECIFICATION RSpec
INVARIANTS RecallIsolated
CHECK_DEADLOCK FALSE
