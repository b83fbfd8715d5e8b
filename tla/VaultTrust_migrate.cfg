\* Two files, one migrator that keeps running unless it is killed, at any step.
CONSTANTS
  owner = owner
  friend = friend
  twin = twin
  ko = ko
  kf = kf
  s1 = s1
  b1 = b1
  b2 = b2
  Key = {owner, friend}
  Kid = {ko, kf}
  KeyIdOf <- MCKeyIdOf
  Owner = owner
  ObjId = {f1, f2}
  ScopeId = {s1}
  Body = {b1, b2}
  None = None
  Incoming <- MigrationForms
  Misfiled <- NoEnvelope
  Migrator = {p1}
  Admin = {a1}
  NoFile = NoFile
  Torn = Torn
SPECIFICATION FairSpec
CONSTRAINTS OwnerIsNoThirdParty OwnerSaysOneThing DeksUnwrap
INVARIANTS ReportMatchesStore
PROPERTIES PublishedIsWhole SealedIsFinal MigrationEnds OwnLegacyUpgraded ImplementsAttribution
CHECK_DEADLOCK FALSE
