\* One file, one migrator, every form of object and of envelope.
CONSTANTS
  owner = owner
  friend = friend
  twin = twin
  ko = ko
  kf = kf
  s1 = s1
  b1 = b1
  b2 = b2
  Key = {owner, friend, twin}
  Kid = {ko, kf}
  KeyIdOf <- MCKeyIdOf
  Owner = owner
  ObjId = {f1}
  ScopeId = {s1, s2}
  Body = {b1, b2}
  None = None
  Incoming <- EveryForm
  Misfiled <- EveryEnvelope
  Migrator = {p1}
  Admin = {a1}
  NoFile = NoFile
  Torn = Torn
  Passphrase = {w1, w2}
  Salt = {t1}
  Secret = {x1, x2}
  ScopeTag = {s1, s2}
  Raises = Raises
SPECIFICATION Spec
CONSTRAINTS OwnerIsNoThirdParty OwnerSaysOneThing DeksUnwrap
SYMMETRY SameId
INVARIANTS TypeOK SelfIsOwn TrustedIsAttributable PlacementIsSigned ProvenanceSound DekOpensOnlyInItsScope
PROPERTIES MigrationTransfersTrust
CHECK_DEADLOCK FALSE
