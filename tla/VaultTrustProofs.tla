-------------------------- MODULE VaultTrustProofs --------------------------
(***************************************************************************)
(* Proofs about VaultTrust, for any keys, key ids (shared or not), files,  *)
(* scopes, memories, incoming objects, envelopes, migrators and admins.    *)
(***************************************************************************)
EXTENDS VaultTrust, TLAPS

-----------------------------------------------------------------------------
(* Sealed objects.                                                         *)

LEMMA AadType ==
  ASSUME NEW ver \in {FORMAT_VERSION}, NEW id \in ObjId, NEW scope \in ScopeId
  PROVE  /\ envelope_aad(ver, id, scope) \in Aad
         /\ envelope_aad(ver, id, scope) # LegacyAad
BY DEF envelope_aad, Aad, LegacyAad, FORMAT_VERSION

\* What seal() returns is a well-formed object under the format 2 AEAD.
LEMMA SealType ==
  ASSUME NEW by \in Key, NEW memory \in Memory, NEW custody \in Custody,
         NEW id \in ObjId, NEW scope \in ScopeId
  PROVE  LET o == seal(by, memory, custody, id, scope)
         IN  /\ o \in Sealed
             /\ o.signer = by /\ o.memory = memory /\ o.custody = custody
             /\ o.author = KeyIdOf[by]
             /\ o.sigAad = <<FORMAT_VERSION, id, scope>>
             /\ o.aead # LegacyAad
<1> DEFINE o == seal(by, memory, custody, id, scope)
<1>1. KeyIdOf[by] \in Kid
  BY KeyAssumption
<1>2. /\ envelope_aad(FORMAT_VERSION, id, scope) \in Aad
      /\ envelope_aad(FORMAT_VERSION, id, scope) # LegacyAad
  BY AadType
<1>3. FORMAT_VERSION \in Version
  BY DEF FORMAT_VERSION, Version
<1>4. o \in Sealed
  BY <1>1, <1>2, <1>3 DEF seal, Sealed
<1> QED
  BY <1>2, <1>4 DEF seal, envelope_aad

\* The memory of a new object, and one rebuilt for re-sealing: the body is the
\* author's.
LEMMA FreshType ==
  ASSUME NEW body \in Body
  PROVE  Fresh(body) \in Memory /\ Fresh(body).body = body
BY DEF Fresh, Memory

LEMMA RebuiltType ==
  ASSUME NEW o, o.memory \in Memory
  PROVE  Rebuilt(o) \in Memory /\ Rebuilt(o).body = o.memory.body
<1> DEFINE m == o.memory
<1>1. /\ m.body \in Body /\ m.confidence \in {"own", "invalid", "default"}
      /\ m.tool \in {"own", "absent", "amem"} /\ m.tags \in {"own", "str"}
      /\ m.created \in {"own", "absent", "now"}
  BY DEF Memory
<1> HIDE DEF m
<1>2. /\ (IF m.confidence = "invalid" THEN "default" ELSE m.confidence)
           \in {"own", "invalid", "default"}
      /\ (IF m.tool = "absent" THEN "amem" ELSE m.tool)
           \in {"own", "absent", "amem"}
      /\ (IF o.textual THEN m.tags ELSE "str") \in {"own", "str"}
      /\ (IF m.created = "absent" THEN "now" ELSE m.created)
           \in {"own", "absent", "now"}
  BY <1>1
<1> QED
  BY <1>1, <1>2 DEF Rebuilt, Memory, m

LEMMA BodyType == ASSUME NEW m \in Memory PROVE m.body \in Body
BY DEF Memory

LEMMA NoCustodyType == NoCustody \in Custody /\ NoCustody.kind = "absent"
BY DEF NoCustody, Custody

LEMMA CustodyOfType ==
  ASSUME NEW claimed \in Kid \cup {None}, NEW proven \in Kid \cup {None}
  PROVE  /\ CustodyOf(claimed, proven) \in Custody
         /\ CustodyOf(claimed, proven).kind = "record"
         /\ CustodyOf(claimed, proven).proven = proven
BY DEF CustodyOf, Custody

\* verify_legacy_author returns a key only if it signed the object and the
\* payload names it.
LEMMA LegacyAuthorSigned ==
  ASSUME NEW o \in Sealed, NEW keyring \in Keyring
  PROVE  LET verifier == verify_legacy_author(o, keyring)
         IN  /\ verifier \in Key \cup {None}
             /\ verifier # None =>
                  /\ o.ver = 1 /\ verifier = o.signer
                  /\ o.author = KeyIdOf[verifier]
BY DEF verify_legacy_author, Sealed

LEMMA AuthorKidType ==
  ASSUME NEW o \in Sealed, NEW keyring \in Keyring
  PROVE  AuthorKidOf(o, keyring) \in Kid \cup {None}
BY DEF AuthorKidOf, Sealed, Custody

LEMMA OutcomeType ==
  ASSUME NEW o \in Sealed, NEW keyring \in Keyring, NEW q \in BOOLEAN,
         OutcomeOf(o, keyring, q) # "refused"
  PROVE  OutcomeOf(o, keyring, q) \in Outcome
<1>1. verify_legacy_author(o, keyring) \in Key \cup {None}
  BY LegacyAuthorSigned
<1> QED
  BY <1>1 DEF OutcomeOf, Outcome

\* What migrate re-seals: the owner's own object without custody, any other
\* with a custody record naming the key proven, if one was.
LEMMA ResealShape ==
  ASSUME NEW o \in Sealed, NEW keyring \in Keyring, NEW scope \in ScopeId
  PROVE  LET new == Reseal(o, keyring, scope)
             verifier == verify_legacy_author(o, keyring)
         IN  /\ new \in Sealed
             /\ new.signer = Owner /\ new.memory = Rebuilt(o)
             /\ new.author = KeyIdOf[Owner]
             /\ new.sigAad = <<FORMAT_VERSION, o.id, scope>>
             /\ new.aead # LegacyAad
             /\ verifier = Owner => new.custody.kind = "absent"
             /\ verifier # Owner =>
                  /\ new.custody.kind # "absent"
                  /\ new.custody.proven # None =>
                       /\ verifier \in Key
                       /\ new.custody.proven = KeyIdOf[verifier]
<1> DEFINE verifier == verify_legacy_author(o, keyring)
           proven == IF verifier = None THEN None ELSE KeyIdOf[verifier]
           custody == IF verifier = Owner THEN NoCustody
                      ELSE CustodyOf(AuthorKidOf(o, keyring), proven)
<1>1. verifier \in Key \cup {None}
  BY LegacyAuthorSigned
<1>2. proven \in Kid \cup {None}
  BY <1>1, KeyAssumption
<1>3. AuthorKidOf(o, keyring) \in Kid \cup {None}
  BY AuthorKidType
<1>4. /\ custody \in Custody
      /\ verifier = Owner => custody.kind = "absent"
      /\ verifier # Owner => custody.kind = "record" /\ custody.proven = proven
  BY <1>2, <1>3, NoCustodyType, CustodyOfType
<1>5. Reseal(o, keyring, scope) = seal(Owner, Rebuilt(o), custody, o.id, scope)
  BY DEF Reseal
<1>6. Rebuilt(o) \in Memory /\ o.id \in ObjId /\ Owner \in Key
  BY RebuiltType, KeyAssumption DEF Sealed
<1> HIDE DEF custody
<1>7. LET new == seal(Owner, Rebuilt(o), custody, o.id, scope)
      IN  /\ new \in Sealed
          /\ new.signer = Owner /\ new.memory = Rebuilt(o)
          /\ new.custody = custody /\ new.author = KeyIdOf[Owner]
          /\ new.sigAad = <<FORMAT_VERSION, o.id, scope>>
          /\ new.aead # LegacyAad
  BY <1>4, <1>6, SealType
<1> QED
  BY <1>1, <1>4, <1>5, <1>7

-----------------------------------------------------------------------------
(* Type correctness.                                                       *)

LEMMA IdleType ==
  ASSUME NEW report \in [ObjId -> Report]
  PROVE  Idle(report) \in MigratorState /\ AtWork(Idle(report))
BY DEF Idle, AtWork, MigratorState, Keyring, File

LEMMA ClosedType ==
  ASSUME TypeOK, NEW p \in Migrator, NEW f, NEW outcome \in Report
  PROVE  /\ Closed(p, f, outcome) \in MigratorState
         /\ AtWork(Closed(p, f, outcome))
<1>1. mig[p] \in MigratorState
  BY DEF TypeOK
<1>2. [mig[p].report EXCEPT ![f] = outcome] \in [ObjId -> Report]
  BY <1>1 DEF MigratorState
<1>3. /\ mig[p].quarantine \in BOOLEAN
      /\ mig[p].keyring \in Keyring
      /\ mig[p].todo \ {f} \in SUBSET ObjId
  BY <1>1 DEF MigratorState
<1> DEFINE i == Idle([mig[p].report EXCEPT ![f] = outcome])
<1>4. i \in MigratorState
  BY <1>2, IdleType
<1> HIDE DEF i
<1>5. [i EXCEPT !.pc = "scan", !.quarantine = mig[p].quarantine,
                !.keyring = mig[p].keyring, !.todo = mig[p].todo \ {f}]
        \in MigratorState
  BY <1>3, <1>4 DEF MigratorState
<1>6. Closed(p, f, outcome).pc = "scan"
  BY <1>4 DEF Closed, i, MigratorState
<1> QED
  BY <1>5, <1>6 DEF Closed, i, AtWork

\* What a seal_object puts into its .bin.
LEMMA SealBinType ==
  ASSUME TypeOK, NEW f \in ObjId, SealBin(f)
  PROVE  LET w == sealing[f]
             o == seal(Owner, Fresh(w.body), NoCustody, f, w.scope)
         IN  /\ w.body \in Body /\ w.scope \in ScopeId
             /\ o \in Sealed /\ bin' = [bin EXCEPT ![f] = o]
             /\ o.signer = Owner /\ o.custody = NoCustody
             /\ o.author = KeyIdOf[Owner] /\ o.aead # LegacyAad
             /\ o.memory \in Memory /\ o.memory.body = w.body
             /\ o.sigAad = <<FORMAT_VERSION, f, w.scope>> /\ o.sigAad \in Aad
             /\ authored' = authored \cup {<<Owner, w.body>>}
             /\ signedAt' = signedAt \cup {<<Owner, o.memory, o.sigAad>>}
<1> DEFINE w == sealing[f]
           m == Fresh(w.body)
           o == seal(Owner, m, NoCustody, f, w.scope)
<1>1. w.body \in Body /\ w.scope \in ScopeId
  BY DEF TypeOK, SealBin, SealState, Unwritten
<1>2. m \in Memory /\ m.body = w.body
  BY <1>1, FreshType
<1>3. Owner \in Key /\ NoCustody \in Custody
  BY KeyAssumption, NoCustodyType
<1>4. /\ bin' = [bin EXCEPT ![f] = o]
      /\ authored' = authored \cup {<<Owner, w.body>>}
      /\ signedAt' = signedAt \cup {<<Owner, o.memory, o.sigAad>>}
  BY DEF SealBin
<1> HIDE DEF m, w
<1>5. /\ o \in Sealed
      /\ o.signer = Owner /\ o.memory = m /\ o.custody = NoCustody
      /\ o.author = KeyIdOf[Owner]
      /\ o.sigAad = <<FORMAT_VERSION, f, w.scope>> /\ o.aead # LegacyAad
  BY <1>1, <1>2, <1>3, SealType
<1>6. o.sigAad \in Aad
  BY <1>5 DEF Sealed
<1> QED
  BY <1>1, <1>2, <1>4, <1>5, <1>6 DEF m, w

\* Every file holds a whole object, an empty file or nothing; every local of
\* a migrator has its type; the ghosts hold statements of real keys.
LEMMA TypeInit == Init => TypeOK
<1> SUFFICES ASSUME Init PROVE TypeOK
  OBVIOUS
<1>1. NoReport \in [ObjId -> Report]
  BY DEF NoReport, Report
<1>2. /\ mig \in [Migrator -> MigratorState]
      /\ \A p \in Migrator : AtWork(mig[p])
  BY <1>1, IdleType DEF Init
<1> QED
  BY <1>2 DEF Init, TypeOK, File, Keyring, AdminState, Away, SealState

LEMMA TypeNext == TypeOK /\ [Next]_vars => TypeOK'
<1> SUFFICES ASSUME TypeOK, [Next]_vars PROVE TypeOK'
  OBVIOUS
<1>t. /\ bin \in [ObjId -> File] /\ tmp \in [ObjId -> File]
      /\ dek \in [ObjId -> ScopeId \cup {None}]
      /\ known \in Keyring /\ torn \in BOOLEAN
      /\ adm \in [Admin -> AdminState]
      /\ sealing \in [ObjId -> SealState]
      /\ mig \in [Migrator -> MigratorState]
      /\ \A p \in Migrator : AtWork(mig[p])
      /\ authored \subseteq Key \X Body
      /\ signedAt \subseteq Key \X Memory \X Aad
  BY DEF TypeOK
<1>m. ASSUME NEW p \in Migrator, NEW s \in MigratorState, AtWork(s),
             mig' = [mig EXCEPT ![p] = s]
      PROVE  /\ mig' \in [Migrator -> MigratorState]
             /\ \A q \in Migrator : AtWork(mig'[q])
  BY <1>t, <1>m
<1>1. ASSUME NEW f \in ObjId, NEW b \in Body, NEW s \in ScopeId,
             seal_object(f, b, s)
      PROVE  TypeOK'
  BY <1>1, <1>t DEF seal_object, TypeOK, File, SealState
<1>1a. ASSUME NEW f \in ObjId, SealBin(f)
       PROVE  TypeOK'
  <2> DEFINE w == sealing[f]
             o == seal(Owner, Fresh(w.body), NoCustody, f, w.scope)
  <2>1. /\ w.body \in Body /\ o \in Sealed /\ bin' = [bin EXCEPT ![f] = o]
        /\ o.memory \in Memory /\ o.sigAad \in Aad
        /\ authored' = authored \cup {<<Owner, w.body>>}
        /\ signedAt' = signedAt \cup {<<Owner, o.memory, o.sigAad>>}
    BY <1>1a, SealBinType
  <2> HIDE DEF o
  <2>2. bin' \in [ObjId -> File]
    BY <1>t, <2>1 DEF File
  <2>3. sealing' \in [ObjId -> SealState]
    BY <1>1a, <1>t DEF SealBin, SealState, Unwritten
  <2>4. /\ authored' \subseteq Key \X Body
        /\ signedAt' \subseteq Key \X Memory \X Aad
    BY <1>t, <2>1, KeyAssumption
  <2> QED
    BY <1>1a, <1>t, <2>2, <2>3, <2>4 DEF SealBin, TypeOK
<1>1b. ASSUME NEW f \in ObjId, SealDek(f) \/ SealDies(f)
       PROVE  TypeOK'
  <2>1. sealing' \in [ObjId -> SealState]
    BY <1>1b, <1>t DEF SealDek, SealDies, SealState
  <2>2. dek' \in [ObjId -> ScopeId \cup {None}]
    BY <1>1b, <1>t DEF SealDek, SealDies, SealState, Unwritten
  <2> QED
    BY <1>1b, <1>t, <2>1, <2>2 DEF SealDek, SealDies, TypeOK
<1>2. ASSUME NEW f \in ObjId, NEW o \in Incoming,
             NEW s \in ScopeId \cup {None}, Arrives(f, o, s)
      PROVE  TypeOK'
  <2>1. o \in Sealed
    BY IncomingAssumption
  <2>2. o.signer \in Key \cup {None} /\ o.memory \in Memory /\ o.sigAad \in Aad
    BY <2>1 DEF Sealed
  <2>3. bin' \in [ObjId -> File]
    BY <1>2, <1>t, <2>1 DEF Arrives, File
  <2>4. authored' \subseteq Key \X Body
    BY <1>2, <1>t, <2>2, BodyType DEF Arrives
  <2>5. signedAt' \subseteq Key \X Memory \X Aad
    BY <1>2, <1>t, <2>2 DEF Arrives
  <2>6. dek' \in [ObjId -> ScopeId \cup {None}]
    BY <1>2, <1>t DEF Arrives
  <2> QED
    BY <1>2, <1>t, <2>3, <2>4, <2>5, <2>6 DEF Arrives, TypeOK
<1>3. ASSUME NEW f \in ObjId, NEW e \in Misfiled, Misfile(f, e)
      PROVE  TypeOK'
  <2>1. e.id \in ObjId /\ e.scope \in ScopeId /\ e.ver \in Version
    BY MisfiledAssumption
  <2>2. [bin[f] EXCEPT !.id = e.id, !.scope = e.scope, !.ver = e.ver] \in Sealed
    BY <1>3, <2>1 DEF Misfile, Sealed
  <2>3. bin' = [bin EXCEPT ![f] = [bin[f] EXCEPT !.id = e.id,
                                     !.scope = e.scope, !.ver = e.ver]]
    BY <1>3, <1>t DEF Misfile
  <2>4. bin' \in [ObjId -> File]
    BY <1>t, <2>2, <2>3 DEF File
  <2> QED
    BY <1>3, <1>t, <2>4 DEF Misfile, TypeOK
<1>4. ASSUME NEW a \in Admin, NEW key \in Key, trust_key(a, key)
      PROVE  TypeOK'
  BY <1>4, <1>t DEF trust_key, TypeOK, Keyring, AdminState
<1>4a. ASSUME NEW a \in Admin, TruncateMeta(a) \/ FillMeta(a) \/ AdminDies(a)
       PROVE  TypeOK'
  <2>1. Away \in AdminState
    BY DEF Away, AdminState, Keyring
  <2>2. CASE TruncateMeta(a)
    BY <2>2, <1>t DEF TruncateMeta, AdminState, TypeOK
  <2>3. CASE FillMeta(a)
    <3>1. adm[a].ring \in Keyring
      BY <1>t DEF AdminState
    <3> QED
      BY <2>3, <1>t, <2>1, <3>1 DEF FillMeta, TypeOK
  <2>4. CASE AdminDies(a)
    BY <2>4, <1>t, <2>1 DEF AdminDies, TypeOK
  <2> QED
    BY <1>4a, <2>2, <2>3, <2>4
<1>5. ASSUME NEW kid \in Kid, Revoke(kid)
      PROVE  TypeOK'
  BY <1>5, <1>t DEF Revoke, TypeOK, Keyring
<1>6. ASSUME NEW p \in Migrator, NEW q \in BOOLEAN, StartMigrate(p, q)
      PROVE  TypeOK'
  <2>1. NoReport \in [ObjId -> Report]
    BY DEF NoReport, Report
  <2> DEFINE i == Idle(NoReport)
             s == [i EXCEPT !.pc = "scan", !.quarantine = q,
                            !.keyring = known,
                            !.todo = {f \in ObjId : bin[f] # NoFile}]
  <2>2. i \in MigratorState
    BY <2>1, IdleType
  <2>3. s \in MigratorState /\ AtWork(s)
    <3> HIDE DEF i
    <3> QED BY <1>t, <2>2 DEF MigratorState, AtWork
  <2>4. mig' = [mig EXCEPT ![p] = s]
    BY <1>6 DEF StartMigrate
  <2> HIDE DEF s
  <2>5. /\ mig' \in [Migrator -> MigratorState]
        /\ \A r \in Migrator : AtWork(mig'[r])
    BY <1>m, <2>3, <2>4
  <2> QED
    BY <1>6, <1>t, <2>5 DEF StartMigrate, TypeOK
<1>7. ASSUME NEW p \in Migrator, MigrateStep(p)
      PROVE  TypeOK'
  <2>t. /\ mig[p] \in MigratorState /\ AtWork(mig[p])
        /\ mig[p].keyring \in Keyring /\ mig[p].quarantine \in BOOLEAN
        /\ mig[p].new \in File /\ mig[p].kind \in Report
        /\ mig[p].report \in [ObjId -> Report]
    BY <1>t DEF MigratorState, Report
  <2>c. \A f, outcome : outcome \in Report =>
          /\ Closed(p, f, outcome) \in MigratorState
          /\ AtWork(Closed(p, f, outcome))
    BY ClosedType
  <2>1. ASSUME NEW f \in ObjId, Load(p, f)
        PROVE  TypeOK'
    <3> DEFINE s == [mig[p] EXCEPT !.pc = "loaded", !.cur = f, !.old = bin[f]]
    <3>1. CASE bin[f] \in Sealed
      <4>1. s \in MigratorState /\ AtWork(s)
        BY <1>t, <2>t, <3>1 DEF MigratorState, AtWork, File
      <4>2. \E x \in MigratorState : AtWork(x) /\ mig' = [mig EXCEPT ![p] = x]
        BY <2>1, <2>c, <4>1, <3>1 DEF Load, Report
      <4> QED
        BY <1>m, <1>t, <2>1, <4>2 DEF Load, TypeOK
    <3>2. CASE bin[f] \notin Sealed
      <4>1. mig' = [mig EXCEPT ![p] = Closed(p, f, "failed")]
        BY <2>1, <3>2 DEF Load
      <4>2. /\ mig' \in [Migrator -> MigratorState]
            /\ \A q \in Migrator : AtWork(mig'[q])
        BY <1>m, <2>c, <4>1 DEF Report
      <4> QED
        BY <1>t, <2>1, <4>2 DEF Load, TypeOK
    <3> QED
      BY <3>1, <3>2
  <2>2. CASE Reject(p)
    <3>1. \E x \in MigratorState : AtWork(x) /\ mig' = [mig EXCEPT ![p] = x]
      BY <2>2, <2>c DEF Reject, Report
    <3> QED
      BY <1>m, <1>t, <2>2, <3>1 DEF Reject, TypeOK
  <2>3. CASE OpenTmp(p)
    <3> DEFINE f == mig[p].cur
               o == mig[p].old
               kind == OutcomeOf(o, mig[p].keyring, mig[p].quarantine)
               new == Reseal(o, mig[p].keyring, bin[f].scope)
               s == [mig[p] EXCEPT !.pc = "opened", !.new = new,
                                   !.kind = kind, !.fd = "tmp"]
    <3>1. f \in ObjId /\ o \in Sealed /\ bin[f] \in Sealed
      BY <2>3, <2>t DEF OpenTmp, AtWork, DekOpens
    <3>2. bin[f].scope \in ScopeId /\ o.id \in ObjId
      BY <3>1 DEF Sealed
    <3>3. new \in Sealed /\ new.memory \in Memory
      <4>1. new \in Sealed
        BY <2>t, <3>1, <3>2, ResealShape
      <4> QED BY <4>1 DEF Sealed
    <3>4. kind \in Outcome
      BY <2>t, <2>3, <3>1, OutcomeType DEF OpenTmp
    <3>5. mig' = [mig EXCEPT ![p] = s]
      BY <1>t, <2>3 DEF OpenTmp
    <3> HIDE DEF new, kind, f, o
    <3>6. s \in MigratorState /\ AtWork(s)
      BY <2>t, <2>3, <3>3, <3>4 DEF MigratorState, AtWork, File, OpenTmp
    <3> HIDE DEF s
    <3>7. /\ mig' \in [Migrator -> MigratorState]
          /\ \A q \in Migrator : AtWork(mig'[q])
      BY <1>m, <3>5, <3>6
    <3>8. tmp' \in [ObjId -> File]
      BY <1>t, <2>3 DEF OpenTmp, File
    <3>9. signedAt' \subseteq Key \X Memory \X Aad
      <4>1. signedAt' = signedAt \cup
              {<<Owner, new.memory, <<FORMAT_VERSION, o.id, bin[f].scope>>>>}
        BY <2>3 DEF OpenTmp, new, o, f
      <4> QED
        BY <1>t, <3>2, <3>3, <4>1, KeyAssumption DEF Aad
    <3> QED
      BY <1>t, <2>3, <3>7, <3>8, <3>9 DEF OpenTmp, TypeOK
  <2>4. CASE FillTmp(p)
    <3> DEFINE s == [mig[p] EXCEPT !.pc = "filled", !.fd = "none"]
    <3>1. mig' = [mig EXCEPT ![p] = s]
      BY <1>t, <2>4 DEF FillTmp
    <3>2. s \in MigratorState /\ AtWork(s)
      BY <2>t, <2>4 DEF MigratorState, AtWork, FillTmp
    <3> HIDE DEF s
    <3>3. /\ mig' \in [Migrator -> MigratorState]
          /\ \A q \in Migrator : AtWork(mig'[q])
      BY <1>m, <3>1, <3>2
    <3>4. tmp' \in [ObjId -> File] /\ bin' \in [ObjId -> File]
      BY <1>t, <2>t, <2>4 DEF FillTmp
    <3> QED
      BY <1>t, <2>4, <3>3, <3>4 DEF FillTmp, TypeOK
  <2>5. CASE Replace(p)
    <3> DEFINE f == mig[p].cur
    <3>f. f \in ObjId
      BY <2>5, <2>t DEF Replace, AtWork
    <3>1. CASE tmp[f] = NoFile
      <4>1. mig' = [mig EXCEPT ![p] = Closed(p, f, "failed")]
        BY <2>5, <3>1 DEF Replace
      <4>2. /\ mig' \in [Migrator -> MigratorState]
            /\ \A q \in Migrator : AtWork(mig'[q])
        BY <1>m, <2>c, <4>1 DEF Report
      <4> QED
        BY <1>t, <2>5, <3>1, <4>2 DEF Replace, TypeOK
    <3>2. CASE tmp[f] # NoFile
      <4>1. ASSUME NEW q \in Migrator
            PROVE  mig'[q] \in MigratorState /\ AtWork(mig'[q])
        <5>1. mig'[q] = IF q = p THEN Closed(p, f, mig[p].kind)
                        ELSE IF mig[q].cur = f
                             THEN [mig[q] EXCEPT !.fd = Renamed(mig[q].fd)]
                        ELSE mig[q]
          BY <2>5, <3>2 DEF Replace
        <5>2. mig[q] \in MigratorState /\ AtWork(mig[q])
          BY <1>t
        <5>3. Renamed(mig[q].fd) \in {"none", "tmp", "bin", "gone"}
          BY <5>2 DEF Renamed, MigratorState
        <5>4. /\ [mig[q] EXCEPT !.fd = Renamed(mig[q].fd)] \in MigratorState
              /\ AtWork([mig[q] EXCEPT !.fd = Renamed(mig[q].fd)])
          BY <5>2, <5>3 DEF MigratorState, AtWork
        <5> QED
          BY <2>t, <2>c, <5>1, <5>2, <5>4
      <4>2. mig' \in [Migrator -> MigratorState]
        BY <2>5, <3>2, <4>1 DEF Replace
      <4>3. tmp' \in [ObjId -> File] /\ bin' \in [ObjId -> File]
        BY <1>t, <2>5, <3>2, <3>f DEF Replace, File
      <4> QED
        BY <1>t, <2>5, <4>1, <4>2, <4>3 DEF Replace, TypeOK
    <3> QED
      BY <3>1, <3>2
  <2>6. CASE Finish(p)
    <3>1. /\ mig' \in [Migrator -> MigratorState]
          /\ \A q \in Migrator : AtWork(mig'[q])
      BY <1>m, <2>t, <2>6, IdleType DEF Finish
    <3> QED
      BY <1>t, <2>6, <3>1 DEF Finish, TypeOK
  <2> QED
    BY <1>7, <2>1, <2>2, <2>3, <2>4, <2>5, <2>6 DEF MigrateStep
<1>8. ASSUME NEW p \in Migrator, Crash(p)
      PROVE  TypeOK'
  <2>1. NoReport \in [ObjId -> Report]
    BY DEF NoReport, Report
  <2>2. /\ mig' \in [Migrator -> MigratorState]
        /\ \A q \in Migrator : AtWork(mig'[q])
    BY <1>8, <1>m, <2>1, IdleType DEF Crash
  <2> QED
    BY <1>8, <1>t, <2>2 DEF Crash, TypeOK
<1>9. CASE UNCHANGED vars
  BY <1>9, <1>t DEF vars, TypeOK
<1> QED
  BY <1>1, <1>1a, <1>1b, <1>2, <1>3, <1>4, <1>4a, <1>5, <1>6, <1>7, <1>8, <1>9
  DEF Next

THEOREM TypeCorrect == Spec => []TypeOK
<1>1. Init => TypeOK
  BY TypeInit
<1>2. TypeOK /\ [Next]_vars => TypeOK'
  BY TypeNext
<1> QED
  BY <1>1, <1>2, PTL DEF Spec

-----------------------------------------------------------------------------
(* Provenance.                                                             *)

\* What the ghosts confirmed once they confirm for ever: they only grow.
LEMMA SoundFileMonotone ==
  ASSUME NEW x, NEW stated, NEW stated2, NEW signed, NEW signed2,
         stated \subseteq stated2, signed \subseteq signed2,
         SoundFile(x, stated, signed)
  PROVE  SoundFile(x, stated2, signed2)
BY DEF SoundFile, SoundlySigned, SoundCustody

LEMMA NoObjectIsSound ==
  ASSUME NEW x \in {NoFile, Torn}, NEW stated, NEW signed
  PROVE  SoundFile(x, stated, signed)
BY FileAssumption DEF SoundFile

\* Re-sealing invents no provenance.  The owner's own object has no custody
\* record to lose, because a record of the owner's is never under the format 1
\* AEAD; a proven author signed the object that is re-sealed.
LEMMA ResealIsSound ==
  ASSUME NEW o \in Sealed, NEW keyring \in Keyring, NEW scope \in ScopeId,
         NEW stated, NEW signed,
         SoundFile(o, stated, signed), Migratable(o, keyring)
  PROVE  SoundFile(Reseal(o, keyring, scope), stated,
                   signed \cup {<<Owner, Rebuilt(o),
                                  <<FORMAT_VERSION, o.id, scope>>>>})
<1> DEFINE new == Reseal(o, keyring, scope)
           verifier == verify_legacy_author(o, keyring)
           signed2 == signed \cup {<<Owner, Rebuilt(o),
                                     <<FORMAT_VERSION, o.id, scope>>>>}
<1>1. /\ new \in Sealed
      /\ new.signer = Owner /\ new.memory = Rebuilt(o)
      /\ new.author = KeyIdOf[Owner]
      /\ new.sigAad = <<FORMAT_VERSION, o.id, scope>>
      /\ new.aead # LegacyAad
      /\ verifier = Owner => new.custody.kind = "absent"
      /\ verifier # Owner =>
           /\ new.custody.kind # "absent"
           /\ new.custody.proven # None =>
                verifier \in Key /\ new.custody.proven = KeyIdOf[verifier]
  BY ResealShape
<1>m. new.memory.body = o.memory.body
  BY <1>1, RebuiltType DEF Sealed
<1>2. /\ verifier \in Key \cup {None}
      /\ verifier # None =>
           /\ o.ver = 1 /\ verifier = o.signer
           /\ o.author = KeyIdOf[verifier]
  BY LegacyAuthorSigned
<1>3. Owner # None /\ None \notin Key
  BY KeyAssumption
<1>4. verifier = Owner => o.custody.kind = "absent"
  <2>1. o.ver = 1 => o.aead = LegacyAad
    BY DEF Migratable, Opens, Decrypts, AadOf
  <2> QED
    BY <1>2, <1>3, <2>1 DEF SoundFile, SoundCustody
<1>5. verifier # None => <<verifier, o.memory.body>> \in stated
  BY <1>2, <1>3, <1>4 DEF SoundFile, SoundlySigned
<1> HIDE DEF new, verifier
<1>6. SoundlySigned(new, stated, signed2)
  <2>1. <<new.signer, new.memory, new.sigAad>> \in signed2
    BY <1>1
  <2>2. new.custody.kind = "absent"
          => <<new.signer, new.memory.body>> \in stated
    BY <1>1, <1>3, <1>5, <1>m
  <2> QED
    BY <1>1, <2>1, <2>2 DEF SoundlySigned
<1>7. SoundCustody(new, stated)
  BY <1>1, <1>3, <1>5, <1>m DEF SoundCustody
<1> QED
  BY <1>6, <1>7 DEF SoundFile, new

LEMMA ProvenanceInit == Init => ProvenanceSound
BY NoObjectIsSound DEF Init, ProvenanceSound, Idle, WellFiled, Away

LEMMA ProvenanceNext ==
  TypeOK /\ ProvenanceSound /\ [Next]_vars => ProvenanceSound'
<1> SUFFICES ASSUME TypeOK, ProvenanceSound, [Next]_vars
             PROVE  ProvenanceSound'
  OBVIOUS
<1> DEFINE Sound(x) == SoundFile(x, authored, signedAt)
           SoundNext(x) == SoundFile(x, authored', signedAt')
<1>t. /\ bin \in [ObjId -> File] /\ tmp \in [ObjId -> File]
      /\ known \in Keyring /\ adm \in [Admin -> AdminState]
      /\ mig \in [Migrator -> MigratorState]
      /\ \A p \in Migrator : AtWork(mig[p])
  BY DEF TypeOK
<1>i. /\ \A f \in ObjId : Sound(bin[f]) /\ Sound(tmp[f])
      /\ \A p \in Migrator : Sound(mig[p].old) /\ Sound(mig[p].new)
      /\ WellFiled(known) /\ \A a \in Admin : WellFiled(adm[a].ring)
  BY DEF ProvenanceSound
<1>g. ASSUME authored \subseteq authored', signedAt \subseteq signedAt'
      PROVE  \A x : Sound(x) => SoundNext(x)
  BY <1>g, SoundFileMonotone
<1>n. SoundNext(NoFile) /\ SoundNext(Torn)
  BY NoObjectIsSound
<1> HIDE DEF Sound, SoundNext
<1>q. ASSUME \A f \in ObjId : SoundNext(bin'[f]) /\ SoundNext(tmp'[f]),
             \A p \in Migrator : SoundNext(mig'[p].old) /\ SoundNext(mig'[p].new),
             WellFiled(known'), \A a \in Admin : WellFiled(adm'[a].ring)
      PROVE  ProvenanceSound'
  BY <1>q DEF ProvenanceSound, SoundNext
<1>c. \A p \in Migrator : \A f, outcome : outcome \in Report =>
        /\ Closed(p, f, outcome) \in MigratorState
        /\ Closed(p, f, outcome).old = NoFile
        /\ Closed(p, f, outcome).new = NoFile
  <2> TAKE p \in Migrator
  <2> TAKE f, outcome
  <2> HAVE outcome \in Report
  <2>1. Closed(p, f, outcome) \in MigratorState
    BY ClosedType
  <2> QED
    BY <2>1 DEF Closed, Idle
<1>1. ASSUME NEW f \in ObjId, NEW b \in Body, NEW s \in ScopeId,
             seal_object(f, b, s)
      PROVE  ProvenanceSound'
  <2>1. \A x : Sound(x) => SoundNext(x)
    BY <1>1, <1>g DEF seal_object
  <2> QED
    BY <1>1, <1>i, <1>n, <1>q, <1>t, <2>1 DEF seal_object
<1>1a. ASSUME NEW f \in ObjId, SealBin(f)
       PROVE  ProvenanceSound'
  <2> DEFINE w == sealing[f]
             o == seal(Owner, Fresh(w.body), NoCustody, f, w.scope)
  <2>1. /\ bin' = [bin EXCEPT ![f] = o]
        /\ o.signer = Owner /\ o.custody = NoCustody
        /\ o.memory.body = w.body
        /\ authored' = authored \cup {<<Owner, w.body>>}
        /\ signedAt' = signedAt \cup {<<Owner, o.memory, o.sigAad>>}
    BY <1>1a, SealBinType
  <2>2. \A x : Sound(x) => SoundNext(x)
    BY <1>g, <2>1
  <2> HIDE DEF o
  <2>3. SoundNext(o)
    BY <2>1, NoCustodyType
    DEF SoundNext, SoundFile, SoundlySigned, SoundCustody
  <2> QED
    BY <1>1a, <1>i, <1>q, <1>t, <2>1, <2>2, <2>3 DEF SealBin
<1>1b. ASSUME NEW f \in ObjId, SealDek(f) \/ SealDies(f)
       PROVE  ProvenanceSound'
  <2>1. \A x : Sound(x) => SoundNext(x)
    BY <1>1b, <1>g DEF SealDek, SealDies
  <2> QED
    BY <1>1b, <1>i, <1>q, <2>1 DEF SealDek, SealDies
<1>2. ASSUME NEW f \in ObjId, NEW o \in Incoming,
             NEW s \in ScopeId \cup {None}, Arrives(f, o, s)
      PROVE  ProvenanceSound'
  <2>1. \A x : Sound(x) => SoundNext(x)
    BY <1>2, <1>g DEF Arrives
  <2>2. o.signer = Owner => o.custody.kind = "absent"
    BY IncomingAssumption, NoCustodyType DEF LegacyCore
  <2>3. SoundNext(o)
    BY <1>2, <2>2
    DEF Arrives, SoundNext, SoundFile, SoundlySigned, SoundCustody
  <2> QED
    BY <1>2, <1>i, <1>q, <1>t, <2>1, <2>3 DEF Arrives
<1>3. ASSUME NEW f \in ObjId, NEW e \in Misfiled, Misfile(f, e)
      PROVE  ProvenanceSound'
  <2> DEFINE o == [bin[f] EXCEPT !.id = e.id, !.scope = e.scope, !.ver = e.ver]
  <2>1. \A x : Sound(x) => SoundNext(x)
    BY <1>3, <1>g DEF Misfile
  <2>2. bin[f] \in Sealed
    BY <1>3 DEF Misfile
  <2>3. /\ o.signer = bin[f].signer /\ o.author = bin[f].author
        /\ o.memory = bin[f].memory /\ o.sigAad = bin[f].sigAad
        /\ o.aead = bin[f].aead /\ o.custody = bin[f].custody
    BY <2>2 DEF Sealed
  <2>4. bin' = [bin EXCEPT ![f] = o]
    BY <1>3, <1>t DEF Misfile
  <2> HIDE DEF o
  <2>5. SoundNext(bin[f])
    BY <1>i, <2>1
  <2>6. SoundNext(o)
    BY <2>2, <2>3, <2>5
    DEF SoundNext, SoundFile, SoundlySigned, SoundCustody
  <2> QED
    BY <1>3, <1>i, <1>q, <1>t, <2>1, <2>4, <2>6 DEF Misfile
<1>4. ASSUME NEW a \in Admin, NEW key \in Key, trust_key(a, key)
      PROVE  ProvenanceSound'
  <2>1. \A x : Sound(x) => SoundNext(x)
    BY <1>4, <1>g DEF trust_key
  <2>2. WellFiled([known EXCEPT ![KeyIdOf[key]] = key])
    BY <1>i, <1>t DEF WellFiled, Keyring
  <2>3. \A c \in Admin : WellFiled(adm'[c].ring)
    BY <1>4, <1>i, <1>t, <2>2 DEF trust_key
  <2> QED
    BY <1>4, <1>i, <1>q, <2>1, <2>3 DEF trust_key
<1>4a. ASSUME NEW a \in Admin, TruncateMeta(a) \/ FillMeta(a) \/ AdminDies(a)
       PROVE  ProvenanceSound'
  <2>1. \A x : Sound(x) => SoundNext(x)
    BY <1>4a, <1>g DEF TruncateMeta, FillMeta, AdminDies
  <2>2. WellFiled(Away.ring)
    BY DEF WellFiled, Away
  <2>3. \A c \in Admin : adm'[c].ring \in {adm[c].ring, Away.ring}
    BY <1>4a, <1>t DEF TruncateMeta, FillMeta, AdminDies, AdminState
  <2>4. known' = known \/ known' = adm[a].ring
    BY <1>4a DEF TruncateMeta, FillMeta, AdminDies
  <2>5. WellFiled(known')
    BY <1>i, <2>4
  <2>6. \A c \in Admin : WellFiled(adm'[c].ring)
    BY <1>i, <2>2, <2>3
  <2> QED
    BY <1>4a, <1>i, <1>q, <2>1, <2>5, <2>6
    DEF TruncateMeta, FillMeta, AdminDies
<1>5. ASSUME NEW kid \in Kid, Revoke(kid)
      PROVE  ProvenanceSound'
  <2>1. \A x : Sound(x) => SoundNext(x)
    BY <1>5, <1>g DEF Revoke
  <2>2. WellFiled(known')
    BY <1>5, <1>i, <1>t DEF Revoke, Keyring, WellFiled
  <2> QED
    BY <1>5, <1>i, <1>q, <2>1, <2>2 DEF Revoke
<1>6. ASSUME NEW p \in Migrator, NEW q \in BOOLEAN, StartMigrate(p, q)
      PROVE  ProvenanceSound'
  <2>1. \A x : Sound(x) => SoundNext(x)
    BY <1>6, <1>g DEF StartMigrate
  <2>2. mig'[p].old = NoFile /\ mig'[p].new = NoFile
    BY <1>6, <1>t DEF StartMigrate, Idle
  <2>3. \A r \in Migrator \ {p} : mig'[r] = mig[r]
    BY <1>6, <1>t DEF StartMigrate
  <2> QED
    BY <1>6, <1>i, <1>n, <1>q, <2>1, <2>2, <2>3 DEF StartMigrate
<1>7. ASSUME NEW p \in Migrator, MigrateStep(p)
      PROVE  ProvenanceSound'
  <2>t. /\ mig[p] \in MigratorState /\ AtWork(mig[p])
        /\ mig[p].keyring \in Keyring /\ mig[p].kind \in Report
    BY <1>t DEF MigratorState, Report
  <2>1. ASSUME NEW f \in ObjId, Load(p, f)
        PROVE  ProvenanceSound'
    <3>1. \A x : Sound(x) => SoundNext(x)
      BY <2>1, <1>g DEF Load
    <3>2. \/ mig'[p].old = NoFile /\ mig'[p].new = NoFile
          \/ mig'[p].old = bin[f] /\ mig'[p].new = mig[p].new
      <4> DEFINE s == [mig[p] EXCEPT !.pc = "loaded", !.cur = f, !.old = bin[f]]
      <4>1. mig'[p] \in {Closed(p, f, "failed"), Closed(p, f, "already_v2"), s}
        BY <2>1, <1>t DEF Load
      <4>2. s.old = bin[f] /\ s.new = mig[p].new
        BY <2>t DEF MigratorState
      <4>3. {"failed", "already_v2"} \subseteq Report
        BY DEF Report
      <4> HIDE DEF s
      <4> QED
        BY <1>c, <4>1, <4>2, <4>3
    <3>3. \A r \in Migrator \ {p} : mig'[r] = mig[r]
      BY <2>1, <1>t DEF Load
    <3> QED
      BY <2>1, <1>i, <1>n, <1>q, <3>1, <3>2, <3>3 DEF Load
  <2>2. CASE Reject(p)
    <3>1. \A x : Sound(x) => SoundNext(x)
      BY <2>2, <1>g DEF Reject
    <3>2. \A r \in Migrator :
            \/ mig'[r] = mig[r]
            \/ mig'[r].old = NoFile /\ mig'[r].new = NoFile
      BY <2>2, <1>c, <1>t DEF Reject, Report
    <3> QED
      BY <2>2, <1>i, <1>n, <1>q, <3>1, <3>2 DEF Reject
  <2>3. CASE OpenTmp(p)
    <3> DEFINE f == mig[p].cur
               o == mig[p].old
               new == Reseal(o, mig[p].keyring, bin[f].scope)
    <3>1. \A x : Sound(x) => SoundNext(x)
      BY <2>3, <1>g DEF OpenTmp
    <3>2. /\ f \in ObjId /\ o \in Sealed /\ bin[f] \in Sealed
          /\ Migratable(o, mig[p].keyring)
      BY <2>3, <2>t DEF OpenTmp, AtWork, DekOpens
    <3>3. bin[f].scope \in ScopeId
      BY <3>2 DEF Sealed
    <3>4. new.memory = Rebuilt(o)
      BY <2>t, <3>2, <3>3, ResealShape
    <3>5. /\ authored' = authored
          /\ signedAt' = signedAt \cup
               {<<Owner, Rebuilt(o), <<FORMAT_VERSION, o.id, bin[f].scope>>>>}
      BY <2>3, <3>4 DEF OpenTmp
    <3>6. SoundFile(new, authored, signedAt')
      BY <1>i, <2>t, <3>2, <3>3, <3>5, ResealIsSound DEF Sound
    <3>7. SoundNext(new)
      BY <3>5, <3>6 DEF SoundNext
    <3>8. /\ mig'[p].old = mig[p].old /\ mig'[p].new = new
          /\ \A r \in Migrator \ {p} : mig'[r] = mig[r]
      BY <2>3, <1>t, <2>t DEF OpenTmp, MigratorState
    <3>9. /\ tmp' = [tmp EXCEPT ![f] = Torn] /\ bin' = bin
          /\ known' = known /\ adm' = adm
      BY <2>3 DEF OpenTmp
    <3> HIDE DEF new, f, o
    <3> QED
      BY <1>i, <1>n, <1>q, <1>t, <3>1, <3>7, <3>8, <3>9
  <2>4. CASE FillTmp(p)
    <3>1. \A x : Sound(x) => SoundNext(x)
      BY <2>4, <1>g DEF FillTmp
    <3>2. \A r \in Migrator : mig'[r].old = mig[r].old /\ mig'[r].new = mig[r].new
      BY <2>4, <1>t DEF FillTmp, MigratorState
    <3>3. \A g \in ObjId : /\ bin'[g] \in {bin[g], mig[p].new}
                           /\ tmp'[g] \in {tmp[g], mig[p].new}
      BY <2>4, <1>t DEF FillTmp
    <3> QED
      BY <2>4, <1>i, <1>q, <3>1, <3>2, <3>3 DEF FillTmp
  <2>5. CASE Replace(p)
    <3>1. \A x : Sound(x) => SoundNext(x)
      BY <2>5, <1>g DEF Replace
    <3>2. \A r \in Migrator :
            \/ mig'[r].old = mig[r].old /\ mig'[r].new = mig[r].new
            \/ mig'[r].old = NoFile /\ mig'[r].new = NoFile
      BY <2>5, <1>c, <1>t, <2>t DEF Replace, MigratorState, Report
    <3>3. \A g \in ObjId : /\ bin'[g] \in {bin[g], tmp[g]}
                           /\ tmp'[g] \in {tmp[g], NoFile}
      BY <2>5, <1>t DEF Replace
    <3> QED
      BY <2>5, <1>i, <1>n, <1>q, <3>1, <3>2, <3>3 DEF Replace
  <2>6. CASE Finish(p)
    <3>1. \A x : Sound(x) => SoundNext(x)
      BY <2>6, <1>g DEF Finish
    <3>2. \A r \in Migrator :
            \/ mig'[r] = mig[r]
            \/ mig'[r].old = NoFile /\ mig'[r].new = NoFile
      BY <2>6, <1>t DEF Finish, Idle
    <3> QED
      BY <2>6, <1>i, <1>n, <1>q, <3>1, <3>2 DEF Finish
  <2> QED
    BY <1>7, <2>1, <2>2, <2>3, <2>4, <2>5, <2>6 DEF MigrateStep
<1>8. ASSUME NEW p \in Migrator, Crash(p)
      PROVE  ProvenanceSound'
  <2>1. \A x : Sound(x) => SoundNext(x)
    BY <1>8, <1>g DEF Crash
  <2>2. \A r \in Migrator :
          \/ mig'[r] = mig[r]
          \/ mig'[r].old = NoFile /\ mig'[r].new = NoFile
    BY <1>8, <1>t DEF Crash, Idle
  <2> QED
    BY <1>8, <1>i, <1>n, <1>q, <2>1, <2>2 DEF Crash
<1>9. CASE UNCHANGED vars
  <2>1. \A x : Sound(x) => SoundNext(x)
    BY <1>9, <1>g DEF vars
  <2> QED
    BY <1>9, <1>i, <1>q, <2>1 DEF vars
<1> QED
  BY <1>1, <1>1a, <1>1b, <1>2, <1>3, <1>4, <1>4a, <1>5, <1>6, <1>7, <1>8, <1>9
  DEF Next

\* Whatever is signed or held in custody anywhere in the vault, in a file or
\* in a migrator's hands, is confirmed by what the keys really stated.
THEOREM ProvenanceIsSound == Spec => []ProvenanceSound
<1>1. Init => TypeOK /\ ProvenanceSound
  BY TypeInit, ProvenanceInit
<1>2. (TypeOK /\ ProvenanceSound) /\ [Next]_vars
        => (TypeOK /\ ProvenanceSound)'
  BY TypeNext, ProvenanceNext
<1> QED
  BY <1>1, <1>2, PTL DEF Spec

-----------------------------------------------------------------------------
(* What a reader is told.                                                  *)

LEMMA VerifiedBySigner ==
  ASSUME NEW o \in Sealed, NEW ring \in Keyring,
         VerifiedBy(o, ring) # None
  PROVE  /\ VerifiedBy(o, ring) = o.signer
         /\ o.signer \in Candidates(ring) /\ o.signer # None
         /\ o.author = KeyIdOf[o.signer]
BY DEF VerifiedBy, Authenticates, verify_signature

LEMMA HonouredProof ==
  ASSUME NEW o \in Sealed, NEW ring \in Keyring, Honoured(o, ring)
  PROVE  /\ o.signer = Owner /\ o.custody.proven # None
         /\ o.custody.proven \in Accepted(ring)
<1>1. Owner # None
  BY KeyAssumption
<1> QED
  BY <1>1, VerifiedBySigner DEF Honoured

\* Trust "self" means the owner wrote it.
LEMMA SelfFollows == TypeOK /\ ProvenanceSound => SelfIsOwn
<1> SUFFICES ASSUME TypeOK, ProvenanceSound, NEW f \in ObjId,
                    Recalls(f, TRUE), TrustOf(bin[f], known) = "self"
             PROVE  <<Owner, bin[f].memory.body>> \in authored
  BY DEF SelfIsOwn
<1>1. bin[f] \in Sealed /\ known \in Keyring
  BY DEF Recalls, DekOpens, TypeOK
<1>2. bin[f].custody.kind = "absent" /\ VerifiedBy(bin[f], known) = Owner
  BY DEF TrustOf
<1>3. Owner # None
  BY KeyAssumption
<1>4. bin[f].signer = Owner /\ bin[f].author = KeyIdOf[Owner]
  BY <1>1, <1>2, <1>3, VerifiedBySigner
<1> QED
  BY <1>1, <1>2, <1>3, <1>4 DEF ProvenanceSound, SoundFile, SoundlySigned

\* Trust "trusted" names an accepted author who wrote it.
LEMMA TrustedFollows == TypeOK /\ ProvenanceSound => TrustedIsAttributable
<1> SUFFICES ASSUME TypeOK, ProvenanceSound, NEW f \in ObjId,
                    Recalls(f, TRUE), TrustOf(bin[f], known) = "trusted"
             PROVE  LET kid == AuthorKidOf(bin[f], known)
                    IN  /\ kid \in Accepted(known)
                        /\ \E key \in Key :
                             /\ KeyIdOf[key] = kid
                             /\ <<key, bin[f].memory.body>> \in authored
  BY DEF TrustedIsAttributable
<1>1. bin[f] \in Sealed /\ known \in Keyring
  BY DEF Recalls, DekOpens, TypeOK
<1>2. /\ SoundlySigned(bin[f], authored, signedAt)
      /\ SoundCustody(bin[f], authored)
  BY <1>1 DEF ProvenanceSound, SoundFile
<1>3. CASE bin[f].custody.kind # "absent"
  <2>1. Honoured(bin[f], known)
    BY <1>3 DEF TrustOf
  <2>2. AuthorKidOf(bin[f], known) = bin[f].custody.proven
    BY <1>3, <2>1 DEF AuthorKidOf
  <2> QED
    BY <1>1, <1>2, <1>3, <2>1, <2>2, HonouredProof DEF SoundCustody
<1>4. CASE bin[f].custody.kind = "absent"
  <2> DEFINE key == bin[f].signer
  <2>1. VerifiedBy(bin[f], known) \notin {None, Owner}
    BY <1>4 DEF TrustOf
  <2>2. /\ key \in Candidates(known) /\ key \notin {None, Owner}
        /\ bin[f].author = KeyIdOf[key]
    BY <1>1, <2>1, VerifiedBySigner
  <2>3. PICK k \in Kid : known[k] = key
    BY <2>2 DEF Candidates
  <2>4. KeyIdOf[key] = k /\ key \in Key
    BY <1>1, <2>2, <2>3 DEF ProvenanceSound, WellFiled, Keyring
  <2>5. bin[f].author \in Accepted(known)
    BY <2>2, <2>3, <2>4 DEF Accepted
  <2>6. <<key, bin[f].memory.body>> \in authored
    BY <1>2, <2>2 DEF SoundlySigned
  <2>7. AuthorKidOf(bin[f], known) = bin[f].author
    BY <1>4 DEF AuthorKidOf
  <2> QED
    BY <2>2, <2>4, <2>5, <2>6, <2>7
<1> QED
  BY <1>3, <1>4

\* What is read without opting in is where its signer sealed it.
LEMMA PlacementFollows == TypeOK /\ ProvenanceSound => PlacementIsSigned
<1> SUFFICES ASSUME TypeOK, ProvenanceSound, NEW f \in ObjId,
                    Recalls(f, FALSE)
             PROVE  /\ bin[f].signer \in Candidates(known)
                    /\ <<bin[f].signer, bin[f].memory,
                         <<bin[f].ver, bin[f].id, bin[f].scope>>>> \in signedAt
  BY DEF PlacementIsSigned
<1> DEFINE o == bin[f]
<1>1. o \in Sealed /\ Authenticates(o, known)
  BY DEF Recalls, DekOpens, Opens
<1>2. /\ o.signer \in Candidates(known)
      /\ o.sigAad = <<o.ver, o.id, o.scope>>
  BY <1>1 DEF Authenticates, verify_signature, AadOf, envelope_aad
<1>3. known \in Keyring
  BY DEF TypeOK
<1>4. o.signer # None
  BY <1>2, KeyAssumption DEF Candidates
<1> QED
  BY <1>1, <1>2, <1>4 DEF ProvenanceSound, SoundFile, SoundlySigned

\* No content but the owner's is ever recalled with trust "self".
THEOREM SelfIsAlwaysOwn == Spec => []SelfIsOwn
BY TypeCorrect, ProvenanceIsSound, SelfFollows, PTL

\* No content is ever recalled with trust "trusted" under a key id that is
\* not accepted at that moment or whose keys did not write it.
THEOREM TrustedIsAlwaysAttributable == Spec => []TrustedIsAttributable
BY TypeCorrect, ProvenanceIsSound, TrustedFollows, PTL

\* No object is ever recalled, without opt-in, from an envelope other than
\* the one its signer bound it to.
THEOREM PlacementIsAlwaysSigned == Spec => []PlacementIsSigned
BY TypeCorrect, ProvenanceIsSound, PlacementFollows, PTL
=============================================================================
