--------------------------- MODULE MigrationProofs ---------------------------
(***************************************************************************)
(* Proofs about the transfer of trust in Vault.migrate.  TransferSound     *)
(* needs no assumption on the number of migrators; what rests on           *)
(* SoleWriter assumes there is one.                                        *)
(***************************************************************************)
EXTENDS VaultTrustProofs

-----------------------------------------------------------------------------
(* Objects.                                                                *)

LEMMA SameCoreCarries ==
  ASSUME NEW x, NEW o, NEW o2, NEW stated, NEW stated2,
         SameCore(o, o2), stated \subseteq stated2, Carries(x, o, stated)
  PROVE  Carries(x, o2, stated2)
<1>1. Rebuilt(o) = Rebuilt(o2)
  BY DEF Rebuilt, SameCore
<1> QED
  BY <1>1 DEF Carries, SameCore, LegacyCore

LEMMA SameCoreChain ==
  ASSUME NEW x, NEW y, NEW z, SameCore(x, y), SameCore(y, z)
  PROVE  SameCore(x, z)
BY DEF SameCore

LEMMA SameCoreLegacy ==
  ASSUME NEW x, NEW y, SameCore(x, y)
  PROVE  /\ IsLegacy(x) <=> IsLegacy(y)
         /\ LegacyCore(x) <=> LegacyCore(y)
         /\ x.signer = y.signer
BY DEF SameCore, IsLegacy, LegacyCore

LEMMA SameCoreSelf ==
  ASSUME NEW x \in Sealed
  PROVE  SameCore(x, x)
BY DEF SameCore

\* A misfiled envelope is outside the core.
LEMMA MisfiledCore ==
  ASSUME NEW o \in Sealed, NEW e \in Misfiled
  PROVE  SameCore(o, [o EXCEPT !.id = e.id, !.scope = e.scope, !.ver = e.ver])
<1> DEFINE x == [o EXCEPT !.id = e.id, !.scope = e.scope, !.ver = e.ver]
<1>1. e.id \in ObjId /\ e.scope \in ScopeId /\ e.ver \in Version
  BY MisfiledAssumption
<1> QED
  BY <1>1 DEF SameCore, Sealed

\* Decrypting what calls itself format 1 needs the format 1 AEAD, and the
\* other way round.
LEMMA LegacyVersion ==
  ASSUME NEW o \in Sealed, NEW keyring, Migratable(o, keyring)
  PROVE  (o.ver = 1) <=> IsLegacy(o)
<1>1. o.ver \in {1, 2} /\ o.aead = AadOf(o)
  BY DEF Migratable, Opens, Decrypts, SUPPORTED_VERSIONS
<1>2. envelope_aad(o.ver, o.id, o.scope) # LegacyAad
  BY DEF envelope_aad, LegacyAad
<1> QED
  BY <1>1, <1>2 DEF AadOf, IsLegacy

LEMMA OwnIsRecognised ==
  ASSUME NEW o \in Sealed, NEW keyring \in Keyring,
         o.ver = 1, o.signer = Owner, LegacyCore(o)
  PROVE  verify_legacy_author(o, keyring) = Owner
<1> DEFINE candidates == [keyring EXCEPT ![KeyIdOf[Owner]] = Owner]
<1>1. KeyIdOf[Owner] \in Kid /\ Owner # None
  BY KeyAssumption
<1>2. candidates[KeyIdOf[Owner]] = Owner
  BY <1>1 DEF Keyring
<1> QED
  BY <1>1, <1>2 DEF verify_legacy_author, LegacyCore

LEMMA ResealPlaced ==
  ASSUME NEW o, NEW keyring, NEW scope
  PROVE  LET new == Reseal(o, keyring, scope)
         IN  new.ver = 2 /\ new.sigAad = AadOf(new)
BY DEF Reseal, seal, AadOf, FORMAT_VERSION

\* What migrate seals for a format 1 object carries what that object proves,
\* whatever keyring it was checked against: an accepted author is proven by
\* the signature, and nobody but the owner is ever recognised as the owner.
LEMMA ResealCarries ==
  ASSUME NEW o \in Sealed, NEW keyring \in Keyring, NEW scope \in ScopeId,
         NEW stated, NEW signed,
         Migratable(o, keyring), IsLegacy(o),
         o.signer = Owner => LegacyCore(o),
         SoundlySigned(o, stated, signed)
  PROVE  Carries(Reseal(o, keyring, scope), o, stated)
<1> DEFINE new == Reseal(o, keyring, scope)
           verifier == verify_legacy_author(o, keyring)
<1>1. /\ new \in Sealed
      /\ new.signer = Owner /\ new.memory = Rebuilt(o)
      /\ new.author = KeyIdOf[Owner]
      /\ new.aead # LegacyAad
      /\ verifier = Owner => new.custody.kind = "absent"
      /\ verifier # Owner =>
           /\ new.custody.kind # "absent"
           /\ new.custody.proven # None =>
                verifier \in Key /\ new.custody.proven = KeyIdOf[verifier]
  BY ResealShape
<1>2. new.ver = 2 /\ new.sigAad = AadOf(new)
  BY ResealPlaced
<1>3. /\ verifier \in Key \cup {None}
      /\ verifier # None => verifier = o.signer /\ o.author = KeyIdOf[verifier]
  BY LegacyAuthorSigned
<1>4. Owner # None /\ None \notin Key
  BY KeyAssumption
<1>5. o.ver = 1
  BY LegacyVersion
<1>6. verifier = Owner <=> (o.signer = Owner /\ LegacyCore(o))
  BY <1>3, <1>4, <1>5, OwnIsRecognised
<1>7. (verifier # None /\ verifier # Owner)
        => <<verifier, o.memory.body>> \in stated
  BY <1>3, <1>4 DEF SoundlySigned
<1> HIDE DEF new, verifier
<1>8. new.custody.kind = "absent" <=> (o.signer = Owner /\ LegacyCore(o))
  BY <1>1, <1>6
<1>9. (new.custody.kind # "absent" /\ new.custody.proven # None) =>
        \E key \in Key \ {Owner} : /\ KeyIdOf[key] = new.custody.proven
                                  /\ <<key, o.memory.body>> \in stated
  BY <1>1, <1>4, <1>7
<1> QED
  BY <1>1, <1>2, <1>8, <1>9 DEF Carries, new

\* A memory payload_map has written comes out of migrate as it went in.
LEMMA RebuiltKeeps ==
  ASSUME NEW o
  PROVE  /\ Rebuilt(o).body = o.memory.body
         /\ o.textual /\ o.memory = Fresh(o.memory.body)
              => Rebuilt(o) = o.memory
BY DEF Rebuilt, Fresh

\* What stands in for a format 1 object says the same, and reads as the owner's
\* own under any keyring exactly when the format 1 object was the owner's.
LEMMA CarriesTrust ==
  ASSUME NEW x, NEW o, NEW stated, Carries(x, o, stated), NEW ring \in Keyring
  PROVE  /\ x.memory.body = o.memory.body
         /\ o.textual /\ o.memory = Fresh(o.memory.body) => x.memory = o.memory
         /\ (TrustOf(x, ring) = "self")
              <=> (o.signer = Owner /\ LegacyCore(o))
<1>1. /\ x.ver = 2 /\ x.signer = Owner /\ x.author = KeyIdOf[Owner]
      /\ x.sigAad = AadOf(x) /\ x.memory = Rebuilt(o)
      /\ x.custody.kind = "absent" <=> (o.signer = Owner /\ LegacyCore(o))
  BY DEF Carries
<1>m. /\ x.memory.body = o.memory.body
      /\ o.textual /\ o.memory = Fresh(o.memory.body) => x.memory = o.memory
  BY <1>1, RebuiltKeeps
<1>2. Owner \in Candidates(ring) /\ Owner # None
  BY KeyAssumption DEF Candidates
<1>3. VerifiedBy(x, ring) = Owner
  BY <1>1, <1>2 DEF VerifiedBy, Authenticates, verify_signature
<1>4. CASE x.custody.kind = "absent"
  BY <1>m, <1>1, <1>2, <1>3, <1>4 DEF TrustOf
<1>5. CASE x.custody.kind # "absent"
  BY <1>m, <1>1, <1>5 DEF TrustOf
<1> QED
  BY <1>4, <1>5

-----------------------------------------------------------------------------
(* Who seals and who accepts keys keeps out of the migrators' way.         *)

SealingStep(f) == \/ \E b \in Body, s \in ScopeId : seal_object(f, b, s)
                  \/ SealBin(f) \/ SealDek(f) \/ SealDies(f)
AdminStep(a) == \/ \E key \in Key : trust_key(a, key)
                \/ TruncateMeta(a) \/ FillMeta(a) \/ AdminDies(a)

LEMMA AdminKeeps ==
  ASSUME NEW a, AdminStep(a)
  PROVE  UNCHANGED <<bin, tmp, dek, sealing, mig, authored, signedAt>>
BY DEF AdminStep, trust_key, TruncateMeta, FillMeta, AdminDies

\* A new object is filed where nothing was, and its .bin is empty until then.
LEMMA SealBinFiles ==
  ASSUME TypeOK, TransferSound, NEW f \in ObjId, SealBin(f)
  PROVE  /\ bin[f] = Torn /\ bin'[f] \in Sealed /\ ~IsLegacy(bin'[f])
         /\ sealing[f].stage = "bin" /\ sealing'[f].stage = "dek"
         /\ sealing[f].body \in Body
         /\ bin'[f] = seal(Owner, Fresh(sealing[f].body), NoCustody, f,
                           sealing[f].scope)
         /\ bin'[f].memory.body = sealing[f].body
         /\ \A g \in ObjId \ {f} : bin'[g] = bin[g]
<1>1. /\ sealing[f].stage = "bin" /\ bin[f] = Torn
      /\ sealing[f].body \in Body /\ sealing[f].scope \in ScopeId
      /\ sealing'[f].stage = "dek"
  BY DEF SealBin, TypeOK, TransferSound, TransferAt, SealState, Unwritten
<1> DEFINE o == seal(Owner, Fresh(sealing[f].body), NoCustody, f,
                     sealing[f].scope)
<1>2. Fresh(sealing[f].body) \in Memory
  BY <1>1, FreshType
<1>3. /\ o \in Sealed /\ o.aead # LegacyAad
      /\ o.memory = Fresh(sealing[f].body)
  BY <1>1, <1>2, SealType, NoCustodyType, KeyAssumption
<1> HIDE DEF o
<1>4. bin'[f] = o /\ \A g \in ObjId \ {f} : bin'[g] = bin[g]
  BY DEF SealBin, TypeOK, o
<1> QED
  BY <1>1, <1>3, <1>4, FreshType DEF IsLegacy, o

LEMMA SealingKeeps ==
  ASSUME TypeOK, TransferSound, NEW f \in ObjId, SealingStep(f)
  PROVE  /\ UNCHANGED <<tmp, known, torn, adm, mig>>
         /\ authored \subseteq authored'
         /\ \A g \in ObjId : bin[g] \in Sealed => bin'[g] = bin[g]
<1>1. ASSUME NEW b \in Body, NEW s \in ScopeId, seal_object(f, b, s)
      PROVE  /\ UNCHANGED <<tmp, known, torn, adm, mig>>
             /\ authored \subseteq authored'
             /\ \A g \in ObjId : bin[g] \in Sealed => bin'[g] = bin[g]
  BY <1>1, FileAssumption DEF seal_object, TypeOK
<1>2. CASE SealBin(f)
  BY <1>2, SealBinFiles, FileAssumption DEF SealBin
<1>3. CASE SealDek(f) \/ SealDies(f)
  BY <1>3 DEF SealDek, SealDies
<1> QED
  BY <1>1, <1>2, <1>3 DEF SealingStep

-----------------------------------------------------------------------------
(* Migrators and the files they are at work on.                            *)

LEMMA ClosedRests ==
  ASSUME NEW p, NEW f, NEW outcome, NEW report
  PROVE  Closed(p, f, outcome).pc = "scan" /\ Idle(report).pc = "off"
<1> DEFINE i == Idle([mig[p].report EXCEPT ![f] = outcome])
<1>1. i.pc = "off" /\ "pc" \in DOMAIN i
  BY DEF Idle
<1>2. Closed(p, f, outcome).pc = "scan"
  BY DEF Closed, Idle
<1> QED
  BY <1>2 DEF Idle

\* Nothing that matters for f happens: its file keeps its core, nobody touches
\* its tmp file, and no migrator takes it up or seals anything for it.
LEMMA TransferKept ==
  ASSUME NEW f \in ObjId, TransferAt(f), authored \subseteq authored',
         bin'[f] = bin[f] \/ SameCore(bin[f], bin'[f]),
         tmp'[f] = tmp[f],
         sealing'[f] = sealing[f] \/ sealing'[f].stage # "bin",
         \A p \in Migrator :
           /\ AtHand(p, f)' => AtHand(p, f) /\ mig'[p].old = mig[p].old
           /\ Rewriting(p, f)' => Rewriting(p, f) /\ mig'[p].new = mig[p].new
  PROVE  TransferAt(f)'
<1>0. sealing'[f].stage = "bin" => sealing[f].stage = "bin" /\ bin'[f] = Torn
  BY FileAssumption DEF TransferAt, SameCore
<1>1. (bin[f] = NoFile)' => bin[f] = NoFile
  BY FileAssumption DEF SameCore
<1>2. /\ IsLegacy(bin[f])' => IsLegacy(bin[f])
      /\ LegacyCore(bin[f])' <=> LegacyCore(bin[f])
      /\ bin'[f].signer = bin[f].signer
  BY SameCoreLegacy DEF IsLegacy, LegacyCore
<1>3. ASSUME NEW x, Carries(x, bin[f], authored)
      PROVE  Carries(x, bin'[f], authored')
  <2>1. bin'[f] = bin[f] => Carries(x, bin'[f], authored')
    BY <1>3 DEF Carries
  <2> QED
    BY <1>3, <2>1, SameCoreCarries
<1>4. \A x : SameCore(x, bin[f]) => SameCore(x, bin'[f])
  BY SameCoreChain
<1>5. bin'[f] = NoFile \/ sealing'[f].stage = "bin" =>
        tmp'[f] = NoFile /\ \A p \in Migrator : ~AtHand(p, f)'
  BY <1>0, <1>1 DEF TransferAt
<1>6. ASSUME IsLegacy(bin[f])'
      PROVE  /\ bin'[f].signer = Owner => LegacyCore(bin[f])'
             /\ tmp'[f] \in Sealed => Carries(tmp'[f], bin'[f], authored')
             /\ \A p \in Migrator :
                  /\ AtHand(p, f)' => SameCore(mig'[p].old, bin'[f])
                  /\ Rewriting(p, f)' => Carries(mig'[p].new, bin'[f], authored')
  BY <1>2, <1>3, <1>4, <1>6 DEF TransferAt
<1>7. ~IsLegacy(tmp[f])'
  BY DEF TransferAt, IsLegacy
<1>8. \A p \in Migrator :
        Rewriting(p, f)' => mig'[p].new \in Sealed /\ ~IsLegacy(mig[p].new)'
  BY DEF TransferAt, IsLegacy
<1> QED
  BY <1>0, <1>5, <1>6, <1>7, <1>8 DEF TransferAt

LEMMA TransferInit == Init => TransferSound
BY FileAssumption
DEF Init, TransferSound, TransferAt, AtHand, Rewriting, IsLegacy, Idle,
    Unwritten

LEMMA TransferNext ==
  TypeOK /\ ProvenanceSound /\ TransferSound /\ [Next]_vars => TransferSound'
<1> SUFFICES ASSUME TypeOK, ProvenanceSound, TransferSound, [Next]_vars
             PROVE  TransferSound'
  OBVIOUS
<1> DEFINE Same(q) == mig'[q] = mig[q]
           AtRest(q) == mig'[q].pc \in {"off", "scan"}
<1>t. /\ bin \in [ObjId -> File] /\ tmp \in [ObjId -> File]
      /\ mig \in [Migrator -> MigratorState]
      /\ sealing \in [ObjId -> SealState]
      /\ \A p \in Migrator : AtWork(mig[p])
  BY DEF TypeOK
<1>i. \A f \in ObjId : TransferAt(f)
  BY DEF TransferSound
<1>s. \A q \in Migrator : (Same(q) \/ AtRest(q)) =>
        \A g : /\ AtHand(q, g)' => AtHand(q, g) /\ mig'[q].old = mig[q].old
               /\ Rewriting(q, g)' => Rewriting(q, g) /\ mig'[q].new = mig[q].new
  BY DEF AtHand, Rewriting
<1>k. ASSUME NEW f \in ObjId, TransferAt(f)',
             authored \subseteq authored',
             \A g \in ObjId \ {f} :
               /\ bin'[g] = bin[g] /\ tmp'[g] = tmp[g]
               /\ sealing'[g] = sealing[g] \/ sealing'[g].stage # "bin",
             \A q \in Migrator, g \in ObjId \ {f} :
               /\ AtHand(q, g)' => AtHand(q, g) /\ mig'[q].old = mig[q].old
               /\ Rewriting(q, g)' => Rewriting(q, g) /\ mig'[q].new = mig[q].new
      PROVE  TransferSound'
  <2>1. ASSUME NEW g \in ObjId \ {f}
        PROVE  TransferAt(g)'
    BY <1>i, <1>k, <2>1, TransferKept
  <2> QED
    BY <1>k, <2>1 DEF TransferSound
<1>m. ASSUME UNCHANGED <<bin, tmp, authored>>,
             \A g \in ObjId :
               sealing'[g] = sealing[g] \/ sealing'[g].stage # "bin",
             \A q \in Migrator : Same(q) \/ AtRest(q)
      PROVE  TransferSound'
  <2>1. ASSUME NEW g \in ObjId
        PROVE  TransferAt(g)'
    BY <1>i, <1>m, <1>s, <2>1, TransferKept
  <2> QED
    BY <2>1 DEF TransferSound
<1> HIDE DEF Same, AtRest
<1>1. ASSUME NEW f \in ObjId, SealingStep(f)
      PROVE  TransferSound'
  <2>1. ASSUME NEW b \in Body, NEW s \in ScopeId, seal_object(f, b, s)
        PROVE  TransferSound'
    <3>1. /\ bin[f] = NoFile /\ bin'[f] = Torn /\ tmp' = tmp /\ mig' = mig
          /\ \A g \in ObjId \ {f} : bin'[g] = bin[g] /\ sealing'[g] = sealing[g]
          /\ authored' = authored
      BY <2>1, <1>t DEF seal_object
    <3>2. tmp[f] = NoFile /\ \A p \in Migrator : ~AtHand(p, f) /\ ~Rewriting(p, f)
      BY <1>i, <3>1 DEF TransferAt, AtHand, Rewriting
    <3>3. TransferAt(f)'
      BY <3>1, <3>2, FileAssumption DEF TransferAt, IsLegacy, AtHand, Rewriting
    <3> QED
      BY <1>k, <1>s, <3>1, <3>3 DEF Same
  <2>2. CASE SealBin(f)
    <3>1. /\ bin[f] = Torn /\ bin'[f] \in Sealed /\ ~IsLegacy(bin'[f])
          /\ sealing[f].stage = "bin" /\ sealing'[f].stage = "dek"
          /\ \A g \in ObjId \ {f} : bin'[g] = bin[g] /\ sealing'[g] = sealing[g]
          /\ tmp' = tmp /\ mig' = mig /\ authored \subseteq authored'
      BY <2>2, <1>t, SealBinFiles DEF SealBin
    <3>2. tmp[f] = NoFile /\ \A p \in Migrator : ~AtHand(p, f) /\ ~Rewriting(p, f)
      BY <1>i, <3>1 DEF TransferAt, AtHand, Rewriting
    <3>3. TransferAt(f)'
      BY <3>1, <3>2, FileAssumption DEF TransferAt, IsLegacy, AtHand, Rewriting
    <3> QED
      BY <1>k, <1>s, <3>1, <3>3 DEF Same
  <2>3. CASE SealDek(f) \/ SealDies(f)
    <3>1. /\ UNCHANGED <<bin, tmp, mig, authored>>
          /\ \A g \in ObjId :
               sealing'[g] = sealing[g] \/ sealing'[g].stage # "bin"
      BY <2>3, <1>t DEF SealDek, SealDies, Unwritten
    <3> QED
      BY <1>m, <3>1 DEF Same
  <2> QED
    BY <1>1, <2>1, <2>2, <2>3 DEF SealingStep
<1>2. ASSUME NEW f \in ObjId, NEW o \in Incoming,
             NEW s \in ScopeId \cup {None}, Arrives(f, o, s)
      PROVE  TransferSound'
  <2>1. o \in Sealed /\ (o.signer = Owner => LegacyCore(o))
    BY IncomingAssumption
  <2>2. bin'[f] = o /\ \A g \in ObjId \ {f} : bin'[g] = bin[g]
    BY <1>2, <1>t DEF Arrives
  <2>3. /\ UNCHANGED <<tmp, sealing, mig>> /\ authored \subseteq authored'
        /\ bin[f] = NoFile
    BY <1>2 DEF Arrives
  <2>4. /\ tmp'[f] = NoFile /\ sealing'[f].stage # "bin"
        /\ \A p \in Migrator : ~AtHand(p, f)' /\ ~Rewriting(p, f)'
    BY <1>i, <2>3, FileAssumption DEF TransferAt, AtHand, Rewriting
  <2>5. IsLegacy(bin'[f]) => (bin'[f].signer = Owner => LegacyCore(bin'[f]))
    BY <2>1, <2>2
  <2>6. TransferAt(f)'
    BY <2>1, <2>2, <2>4, <2>5, FileAssumption
    DEF TransferAt, IsLegacy, LegacyCore
  <2> QED
    BY <1>k, <1>s, <2>2, <2>3, <2>6 DEF Same
<1>3. ASSUME NEW f \in ObjId, NEW e \in Misfiled, Misfile(f, e)
      PROVE  TransferSound'
  <2>1. bin[f] \in Sealed /\ UNCHANGED <<tmp, sealing, mig, authored>>
    BY <1>3 DEF Misfile
  <2>2. /\ SameCore(bin[f], bin'[f])
        /\ \A g \in ObjId \ {f} : bin'[g] = bin[g]
    BY <1>3, <1>t, <2>1, MisfiledCore DEF Misfile
  <2>3. TransferAt(f)'
    BY <1>i, <1>s, <2>1, <2>2, TransferKept DEF Same
  <2> QED
    BY <1>k, <1>s, <2>1, <2>2, <2>3 DEF Same
<1>4. ASSUME NEW a \in Admin, AdminStep(a)
      PROVE  TransferSound'
  BY <1>4, <1>m, AdminKeeps DEF Same
<1>5. ASSUME NEW kid \in Kid, Revoke(kid)
      PROVE  TransferSound'
  BY <1>5, <1>m DEF Revoke, Same
<1>6. ASSUME NEW p \in Migrator, NEW q \in BOOLEAN, StartMigrate(p, q)
      PROVE  TransferSound'
  <2>1. mig'[p].pc = "scan" /\ \A r \in Migrator \ {p} : mig'[r] = mig[r]
    BY <1>6, <1>t DEF StartMigrate, Idle
  <2> QED
    BY <1>6, <1>m, <2>1 DEF StartMigrate, Same, AtRest
<1>7. ASSUME NEW p \in Migrator, MigrateStep(p)
      PROVE  TransferSound'
  <2>t. /\ mig[p] \in MigratorState /\ AtWork(mig[p])
        /\ mig[p].keyring \in Keyring /\ mig[p].new \in File
    BY <1>t DEF MigratorState
  <2>1. ASSUME NEW f \in ObjId, Load(p, f)
        PROVE  TransferSound'
    <3> DEFINE s == [mig[p] EXCEPT !.pc = "loaded", !.cur = f, !.old = bin[f]]
    <3>1. UNCHANGED <<bin, tmp, sealing, authored>>
      BY <2>1 DEF Load
    <3>2. \A q \in Migrator \ {p} : mig'[q] = mig[q]
      BY <2>1, <1>t DEF Load
    <3>3. CASE mig'[p] = s /\ bin[f] \in Sealed
      <4>1. /\ mig'[p].pc = "loaded" /\ mig'[p].cur = f
            /\ mig'[p].old = bin[f]
        BY <2>t, <3>3 DEF MigratorState
      <4>2. \A q \in Migrator :
              /\ AtHand(q, f)' => (AtHand(q, f) /\ mig'[q].old = mig[q].old)
                                    \/ mig'[q].old = bin[f]
              /\ Rewriting(q, f)' => Rewriting(q, f) /\ mig'[q].new = mig[q].new
        BY <3>2, <4>1 DEF AtHand, Rewriting
      <4>3. TransferAt(f)'
        <5>1. SameCore(bin[f], bin[f]) /\ bin[f] \notin {NoFile, Torn}
          BY <3>3, SameCoreSelf, FileAssumption
        <5>2. TransferAt(f)
          BY <1>i
        <5>3. \A q \in Migrator :
                IsLegacy(bin[f]) => (AtHand(q, f)' => SameCore(mig'[q].old, bin[f]))
          BY <4>2, <5>1, <5>2 DEF TransferAt
        <5> QED
          BY <3>1, <4>2, <5>1, <5>2, <5>3
          DEF TransferAt, IsLegacy, LegacyCore
      <4>4. \A q \in Migrator, g \in ObjId \ {f} :
              /\ AtHand(q, g)' => AtHand(q, g) /\ mig'[q].old = mig[q].old
              /\ Rewriting(q, g)' => Rewriting(q, g) /\ mig'[q].new = mig[q].new
        BY <3>2, <4>1 DEF AtHand, Rewriting
      <4> QED
        BY <1>k, <3>1, <4>3, <4>4
    <3>4. CASE ~(mig'[p] = s /\ bin[f] \in Sealed)
      <4>1. mig'[p].pc = "scan"
        BY <2>1, <1>t, <3>4, ClosedRests DEF Load
      <4> QED
        BY <1>m, <3>1, <3>2, <4>1 DEF Same, AtRest
    <3> QED
      BY <3>3, <3>4
  <2>2. CASE Reject(p)
    <3>1. \A q \in Migrator : Same(q) \/ AtRest(q)
      BY <2>2, <1>t, ClosedRests DEF Reject, Same, AtRest
    <3> QED
      BY <2>2, <1>m, <3>1 DEF Reject
  <2>3. CASE OpenTmp(p)
    <3>0. PICK f \in ObjId : f = mig[p].cur
      BY <2>3, <2>t DEF OpenTmp, AtWork
    <3> DEFINE o == mig[p].old
               new == Reseal(o, mig[p].keyring, bin[f].scope)
    <3>1. /\ f \in ObjId /\ o \in Sealed /\ bin[f] \in Sealed
          /\ Migratable(o, mig[p].keyring) /\ AtHand(p, f)
      BY <2>3, <2>t, <3>0 DEF OpenTmp, AtWork, DekOpens, AtHand
    <3>2. bin[f].scope \in ScopeId
      BY <3>1 DEF Sealed
    <3>3. new \in Sealed /\ ~IsLegacy(new)
      BY <2>t, <3>1, <3>2, ResealShape DEF IsLegacy
    <3>4. ASSUME IsLegacy(bin[f])
          PROVE  Carries(new, bin[f], authored)
      <4>1. SameCore(o, bin[f]) /\ (bin[f].signer = Owner => LegacyCore(bin[f]))
        BY <1>i, <3>1, <3>4 DEF TransferAt
      <4>2. IsLegacy(o) /\ (o.signer = Owner => LegacyCore(o))
        BY <3>4, <4>1, SameCoreLegacy
      <4>3. SoundlySigned(o, authored, signedAt)
        BY <3>1 DEF ProvenanceSound, SoundFile
      <4>4. Carries(new, o, authored)
        BY <2>t, <3>1, <3>2, <4>2, <4>3, ResealCarries
      <4> QED
        BY <4>1, <4>4, SameCoreCarries
    <3> HIDE DEF new, o
    <3>5. /\ mig'[p].pc = "opened" /\ mig'[p].cur = f /\ mig[p].cur = f
          /\ mig'[p].old = mig[p].old /\ mig'[p].new = new
          /\ \A q \in Migrator \ {p} : mig'[q] = mig[q]
      BY <2>3, <1>t, <2>t, <3>0 DEF OpenTmp, MigratorState, new, o
    <3>6. /\ UNCHANGED <<bin, sealing, authored>> /\ tmp'[f] = Torn
          /\ \A g \in ObjId \ {f} : tmp'[g] = tmp[g]
      BY <2>3, <1>t, <3>0, <3>1 DEF OpenTmp
    <3>7. TransferAt(f)'
      <4>1. TransferAt(f)
        BY <1>i, <3>1
      <4>2. \A q \in Migrator :
              /\ AtHand(q, f)' => AtHand(q, f) /\ mig'[q].old = mig[q].old
              /\ Rewriting(q, f)' => \/ Rewriting(q, f) /\ mig'[q].new = mig[q].new
                                     \/ mig'[q].new = new
        BY <3>1, <3>5 DEF AtHand, Rewriting
      <4>3. Torn \notin Sealed /\ bin[f] \notin {NoFile, Torn}
        BY <3>1, FileAssumption
      <4>4. \A q \in Migrator : Rewriting(q, f)' =>
              /\ mig'[q].new \in Sealed /\ ~IsLegacy(mig'[q].new)
              /\ IsLegacy(bin[f]) => Carries(mig'[q].new, bin[f], authored)
        BY <3>3, <3>4, <4>1, <4>2 DEF TransferAt
      <4> QED
        BY <3>6, <4>1, <4>2, <4>3, <4>4 DEF TransferAt, IsLegacy, LegacyCore
    <3>8. \A q \in Migrator, g \in ObjId \ {f} :
            /\ AtHand(q, g)' => AtHand(q, g) /\ mig'[q].old = mig[q].old
            /\ Rewriting(q, g)' => Rewriting(q, g) /\ mig'[q].new = mig[q].new
      BY <3>5 DEF AtHand, Rewriting
    <3> QED
      BY <1>k, <3>1, <3>6, <3>7, <3>8
  <2>4. CASE FillTmp(p)
    <3>0. PICK f \in ObjId : f = mig[p].cur
      BY <2>4, <2>t DEF FillTmp, AtWork
    <3> DEFINE new == mig[p].new
    <3>1. f \in ObjId /\ Rewriting(p, f) /\ AtHand(p, f)
      BY <2>4, <3>0 DEF FillTmp, Rewriting, AtHand
    <3>2. /\ mig'[p].pc = "filled" /\ mig'[p].cur = f
          /\ mig'[p].old = mig[p].old /\ mig'[p].new = new
          /\ \A q \in Migrator \ {p} : mig'[q] = mig[q]
      BY <2>4, <1>t, <2>t, <3>0 DEF FillTmp, MigratorState
    <3>3. /\ bin'[f] \in {bin[f], new} /\ tmp'[f] \in {tmp[f], new}
          /\ \A g \in ObjId \ {f} : bin'[g] = bin[g] /\ tmp'[g] = tmp[g]
          /\ UNCHANGED <<sealing, authored>>
      BY <2>4, <1>t, <3>0, <3>1 DEF FillTmp
    <3> HIDE DEF new
    <3>4. \A q \in Migrator, g \in ObjId :
            /\ AtHand(q, g)' => AtHand(q, g) /\ mig'[q].old = mig[q].old
            /\ Rewriting(q, g)' => Rewriting(q, g) /\ mig'[q].new = mig[q].new
      BY <3>1, <3>2 DEF AtHand, Rewriting, new
    <3>5. TransferAt(f)'
      <4>1. TransferAt(f)
        BY <1>i, <3>1
      <4>2. /\ new \in Sealed /\ ~IsLegacy(new)
            /\ bin[f] # NoFile /\ sealing[f].stage # "bin"
            /\ IsLegacy(bin[f]) => Carries(new, bin[f], authored)
        BY <3>1, <4>1 DEF TransferAt, new
      <4>3. bin'[f] # NoFile
        BY <3>3, <4>2, FileAssumption
      <4>4. IsLegacy(bin'[f]) => bin'[f] = bin[f]
        BY <3>3, <4>2
      <4>5. /\ ~IsLegacy(tmp'[f])
            /\ (IsLegacy(bin[f]) /\ tmp'[f] \in Sealed)
                 => Carries(tmp'[f], bin[f], authored)
        BY <3>3, <4>1, <4>2 DEF TransferAt
      <4> QED
        BY <3>3, <3>4, <4>1, <4>3, <4>4, <4>5, <3>1
        DEF TransferAt, IsLegacy, LegacyCore
    <3> QED
      BY <1>k, <3>1, <3>3, <3>4, <3>5
  <2>5. CASE Replace(p)
    <3>1. PICK f \in ObjId : f = mig[p].cur
      BY <2>5, <2>t DEF Replace, AtWork
    <3>2. CASE tmp[f] = NoFile
      <4>1. \A q \in Migrator : Same(q) \/ AtRest(q)
        BY <2>5, <1>t, <3>1, <3>2, ClosedRests DEF Replace, Same, AtRest
      <4> QED
        BY <2>5, <1>m, <3>1, <3>2, <4>1 DEF Replace
    <3>3. CASE tmp[f] # NoFile
      <4>1. /\ bin'[f] = tmp[f] /\ tmp'[f] = NoFile
            /\ UNCHANGED <<sealing, authored>>
            /\ \A g \in ObjId \ {f} : bin'[g] = bin[g] /\ tmp'[g] = tmp[g]
        BY <2>5, <1>t, <3>1, <3>3 DEF Replace
      <4>2. \A q \in Migrator, g \in ObjId :
              /\ AtHand(q, g)' => AtHand(q, g) /\ mig'[q].old = mig[q].old
              /\ Rewriting(q, g)' => Rewriting(q, g) /\ mig'[q].new = mig[q].new
        <5> TAKE q \in Migrator
        <5> TAKE g \in ObjId
        <5>1. mig'[q] = IF q = p THEN Closed(p, f, mig[p].kind)
                        ELSE IF mig[q].cur = f
                             THEN [mig[q] EXCEPT !.fd = Renamed(mig[q].fd)]
                        ELSE mig[q]
          BY <2>5, <3>1, <3>3 DEF Replace
        <5>2. Closed(p, f, mig[p].kind).pc = "scan"
          BY ClosedRests
        <5>3. LET s == [mig[q] EXCEPT !.fd = Renamed(mig[q].fd)]
              IN  /\ s.pc = mig[q].pc /\ s.cur = mig[q].cur
                  /\ s.old = mig[q].old /\ s.new = mig[q].new
          BY <1>t DEF MigratorState
        <5>4. \/ mig'[q].pc = "scan"
              \/ /\ mig'[q].pc = mig[q].pc /\ mig'[q].cur = mig[q].cur
                 /\ mig'[q].old = mig[q].old /\ mig'[q].new = mig[q].new
          BY <5>1, <5>2, <5>3
        <5> QED
          BY <5>4 DEF AtHand, Rewriting
      <4>3. TransferAt(f)'
        <5>1. TransferAt(f) /\ AtHand(p, f)
          BY <2>5, <1>i, <3>1 DEF Replace, AtHand
        <5>2. sealing[f].stage # "bin"
          BY <5>1 DEF TransferAt
        <5> QED
          BY <3>3, <4>1, <4>2, <5>1, <5>2, FileAssumption
          DEF TransferAt, IsLegacy
      <4> QED
        BY <1>k, <3>1, <4>1, <4>2, <4>3
    <3> QED
      BY <3>2, <3>3
  <2>6. CASE Finish(p)
    <3>1. \A q \in Migrator : Same(q) \/ AtRest(q)
      BY <2>6, <1>t, ClosedRests DEF Finish, Same, AtRest
    <3> QED
      BY <2>6, <1>m, <3>1 DEF Finish
  <2> QED
    BY <1>7, <2>1, <2>2, <2>3, <2>4, <2>5, <2>6 DEF MigrateStep
<1>8. ASSUME NEW p \in Migrator, Crash(p)
      PROVE  TransferSound'
  <2>1. \A q \in Migrator : Same(q) \/ AtRest(q)
    BY <1>8, <1>t, ClosedRests DEF Crash, Same, AtRest
  <2> QED
    BY <1>8, <1>m, <2>1 DEF Crash
<1>9. CASE UNCHANGED vars
  BY <1>9, <1>m DEF vars, Same
<1> QED
  BY <1>1, <1>2, <1>3, <1>4, <1>5, <1>6, <1>7, <1>8, <1>9
  DEF Next, SealingStep, AdminStep

\* As long as a file holds a format 1 object, nobody at work on it has anything
\* for it that does not carry what that object proves.
THEOREM TransferIsSound == Spec => []TransferSound
<1>1. Init => TypeOK /\ ProvenanceSound /\ TransferSound
  BY TypeInit, ProvenanceInit, TransferInit
<1>2. (TypeOK /\ ProvenanceSound /\ TransferSound) /\ [Next]_vars
        => (TypeOK /\ ProvenanceSound /\ TransferSound)'
  BY TypeNext, ProvenanceNext, TransferNext
<1> QED
  BY <1>1, <1>2, PTL DEF Spec

-----------------------------------------------------------------------------
(* Whichever migrator puts an object in the place of a format 1 object.    *)

LEMMA MisfileKeepsTheSeal ==
  ASSUME TypeOK, NEW f \in ObjId, NEW e \in Misfiled, Misfile(f, e)
  PROVE  /\ SameCore(bin[f], bin'[f])
         /\ \A g \in ObjId \ {f} : bin'[g] = bin[g]
BY MisfiledCore DEF TypeOK, Misfile

LEMMA ResealedCarries ==
  ASSUME TypeOK, TransferSound, [Next]_vars, NEW f \in ObjId, Resealed(f)
  PROVE  Carries(bin'[f], bin[f], authored)
<1>t. /\ bin \in [ObjId -> File]
      /\ \A p \in Migrator : AtWork(mig[p])
  BY DEF TypeOK
<1>r. /\ IsLegacy(bin[f]) /\ bin[f] \in Sealed /\ bin[f] # NoFile
      /\ bin'[f] \in Sealed /\ bin'[f].aead # bin[f].aead
  BY FileAssumption DEF Resealed, IsLegacy
<1>i. TransferAt(f)
  BY DEF TransferSound
<1>n. bin'[f] # bin[f]
  BY <1>r
<1>1. ASSUME NEW g \in ObjId, SealingStep(g)
      PROVE  FALSE
  BY <1>1, <1>n, <1>r, SealingKeeps
<1>2. ASSUME NEW g \in ObjId, NEW o \in Incoming,
             NEW s \in ScopeId \cup {None}, Arrives(g, o, s)
      PROVE  FALSE
  BY <1>2, <1>n, <1>r, <1>t DEF Arrives
<1>3. ASSUME NEW g \in ObjId, NEW e \in Misfiled, Misfile(g, e)
      PROVE  FALSE
  BY <1>3, <1>n, <1>r, MisfileKeepsTheSeal DEF SameCore
<1>4. ASSUME NEW p \in Migrator, FillTmp(p)
      PROVE  Carries(bin'[f], bin[f], authored)
  <2>1. mig[p].cur = f /\ bin'[f] = mig[p].new /\ Rewriting(p, f)
    BY <1>4, <1>n, <1>t DEF FillTmp, Rewriting, AtWork
  <2> QED
    BY <1>i, <1>r, <2>1 DEF TransferAt
<1>5. ASSUME NEW p \in Migrator, Replace(p)
      PROVE  Carries(bin'[f], bin[f], authored)
  <2>1. bin'[f] = tmp[f]
    BY <1>5, <1>n, <1>t DEF Replace, AtWork
  <2> QED
    BY <1>i, <1>r, <2>1 DEF TransferAt
<1>6. ASSUME bin' = bin
      PROVE  FALSE
  BY <1>6, <1>n
<1>7. ASSUME NEW p \in Migrator, MigrateStep(p)
      PROVE  Carries(bin'[f], bin[f], authored)
  BY <1>4, <1>5, <1>6, <1>7 DEF MigrateStep, Load, Reject, OpenTmp, Finish
<1>8. ASSUME NEW a \in Admin, AdminStep(a)
      PROVE  FALSE
  BY <1>6, <1>8, AdminKeeps
<1> QED
  BY <1>1, <1>2, <1>3, <1>6, <1>7, <1>8
  DEF Next, SealingStep, AdminStep, Revoke, StartMigrate, Crash, vars

\* However many migrations run beside each other, with whatever keyrings, and
\* wherever they are killed: what the memory says survives, all of the memory
\* does if payload_map has written it, and it is the owner's own afterwards
\* exactly if it was the owner's own before.
THEOREM TrustIsTransferred == Spec => MigrationTransfersTrust
<1>1. TypeOK /\ TransferSound /\ TypeOK' /\ [Next]_vars =>
        [\A f \in ObjId :
           Resealed(f) =>
             /\ bin'[f].memory.body = bin[f].memory.body
             /\ bin[f].textual /\ bin[f].memory = Fresh(bin[f].memory.body)
                  => bin'[f].memory = bin[f].memory
             /\ (TrustOf(bin'[f], known') = "self")
                  <=> (bin[f].signer = Owner /\ LegacyCore(bin[f]))]_vars
  <2> SUFFICES ASSUME TypeOK, TransferSound, TypeOK', [Next]_vars,
                      NEW f \in ObjId, Resealed(f)
               PROVE  /\ bin'[f].memory.body = bin[f].memory.body
                      /\ bin[f].textual
                         /\ bin[f].memory = Fresh(bin[f].memory.body)
                           => bin'[f].memory = bin[f].memory
                      /\ (TrustOf(bin'[f], known') = "self")
                           <=> (bin[f].signer = Owner /\ LegacyCore(bin[f]))
    OBVIOUS
  <2>1. Carries(bin'[f], bin[f], authored)
    BY ResealedCarries
  <2>2. known' \in Keyring
    BY DEF TypeOK
  <2> QED
    BY <2>1, <2>2, CarriesTrust
<1> QED
  BY <1>1, TypeCorrect, TransferIsSound, PTL DEF Spec, MigrationTransfersTrust

-----------------------------------------------------------------------------
(* One migrator.                                                           *)

OneMigrator == \A p, q \in Migrator : p = q

LEMMA SoleKept ==
  ASSUME NEW f \in ObjId, SoleAt(f),
         bin'[f] = bin[f] \/ SameCore(bin[f], bin'[f]),
         tmp'[f] = tmp[f],
         \A p \in Migrator :
           /\ AtHand(p, f)' => AtHand(p, f) /\ mig'[p].old = mig[p].old
           /\ Rewriting(p, f)' => /\ Rewriting(p, f)
                                  /\ mig'[p].new = mig[p].new
                                  /\ mig'[p].pc = mig[p].pc
                                  /\ mig'[p].fd = mig[p].fd
  PROVE  SoleAt(f)'
<1>2. IsLegacy(bin[f]) => IsLegacy(bin'[f])
  BY SameCoreLegacy
<1>3. \A x : SameCore(x, bin[f]) => SameCore(x, bin'[f])
  BY SameCoreChain
<1>4. ASSUME NEW p \in Migrator, AtHand(p, f)'
      PROVE  mig'[p].old.ver = 1 /\ SameCore(mig'[p].old, bin'[f])
  BY <1>3, <1>4 DEF SoleAt
<1>5. ASSUME NEW p \in Migrator, Rewriting(p, f)'
      PROVE  /\ IsLegacy(bin'[f])
             /\ mig'[p].pc = "opened" => mig'[p].fd = "tmp"
             /\ mig'[p].pc = "filled" => tmp'[f] = mig'[p].new
  BY <1>2, <1>5 DEF SoleAt
<1> QED
  BY <1>4, <1>5 DEF SoleAt, SameCore, IsLegacy

LEMMA SoleInit == Init => SoleWriter
BY FileAssumption DEF Init, SoleWriter, SoleAt, AtHand, Rewriting, Idle

LEMMA SoleNext ==
  ASSUME OneMigrator
  PROVE  TypeOK /\ TransferSound /\ SoleWriter /\ [Next]_vars => SoleWriter'
<1> SUFFICES ASSUME TypeOK, TransferSound, SoleWriter, [Next]_vars
             PROVE  SoleWriter'
  OBVIOUS
<1> DEFINE Same(q) == mig'[q] = mig[q]
           AtRest(q) == mig'[q].pc \in {"off", "scan"}
           Elsewhere(g) ==
             \A q \in Migrator :
               /\ AtHand(q, g)' => AtHand(q, g) /\ mig'[q].old = mig[q].old
               /\ Rewriting(q, g)' => /\ Rewriting(q, g)
                                      /\ mig'[q].new = mig[q].new
                                      /\ mig'[q].pc = mig[q].pc
                                      /\ mig'[q].fd = mig[q].fd
<1>t. /\ bin \in [ObjId -> File] /\ tmp \in [ObjId -> File]
      /\ mig \in [Migrator -> MigratorState]
      /\ \A p \in Migrator : AtWork(mig[p])
  BY DEF TypeOK
<1>i. \A f \in ObjId : SoleAt(f) /\ TransferAt(f)
  BY DEF SoleWriter, TransferSound
<1>s. (\A q \in Migrator : Same(q) \/ AtRest(q)) => \A g : Elsewhere(g)
  BY DEF AtHand, Rewriting
<1>o. ASSUME NEW p \in Migrator, NEW f,
             mig'[p].pc \in {"off", "scan"} \/ mig'[p].cur = f
      PROVE  \A g : g # f => Elsewhere(g)
  BY <1>o DEF OneMigrator, AtHand, Rewriting
<1>k. ASSUME NEW f \in ObjId, SoleAt(f)',
             \A g \in ObjId \ {f} : /\ bin'[g] = bin[g] /\ tmp'[g] = tmp[g]
                                    /\ Elsewhere(g)
      PROVE  SoleWriter'
  <2>1. ASSUME NEW g \in ObjId \ {f}
        PROVE  SoleAt(g)'
    BY <1>i, <1>k, <2>1, SoleKept
  <2> QED
    BY <1>k, <2>1 DEF SoleWriter
<1>m. ASSUME UNCHANGED <<bin, tmp>>, \A q \in Migrator : Same(q) \/ AtRest(q)
      PROVE  SoleWriter'
  <2>1. ASSUME NEW g \in ObjId
        PROVE  SoleAt(g)'
    BY <1>i, <1>m, <1>s, <2>1, SoleKept
  <2> QED
    BY <2>1 DEF SoleWriter
<1> HIDE DEF Same, AtRest, Elsewhere
\* The file is not there yet, or its new object not in it.
<1>a. ASSUME NEW f \in ObjId, bin[f] = NoFile \/ sealing[f].stage = "bin",
             mig' = mig, tmp' = tmp, \A g \in ObjId \ {f} : bin'[g] = bin[g]
      PROVE  SoleWriter'
  <2>1. \A p \in Migrator : ~AtHand(p, f) /\ ~Rewriting(p, f)
    BY <1>a, <1>i DEF TransferAt, AtHand, Rewriting
  <2>2. SoleAt(f)'
    BY <1>a, <2>1 DEF SoleAt, AtHand, Rewriting
  <2> QED
    BY <1>a, <1>k, <1>s, <2>2 DEF Same
<1>1. ASSUME NEW f \in ObjId, SealingStep(f)
      PROVE  SoleWriter'
  <2>1. ASSUME NEW b \in Body, NEW s \in ScopeId, seal_object(f, b, s)
        PROVE  SoleWriter'
    BY <1>a, <1>t, <2>1 DEF seal_object
  <2>2. CASE SealBin(f)
    BY <1>a, <1>t, <2>2 DEF SealBin
  <2>3. CASE SealDek(f) \/ SealDies(f)
    BY <1>m, <2>3 DEF SealDek, SealDies, Same
  <2> QED
    BY <1>1, <2>1, <2>2, <2>3 DEF SealingStep
<1>2. ASSUME NEW f \in ObjId, NEW o \in Incoming,
             NEW s \in ScopeId \cup {None}, Arrives(f, o, s)
      PROVE  SoleWriter'
  BY <1>2, <1>a, <1>t DEF Arrives
<1>3. ASSUME NEW f \in ObjId, NEW e \in Misfiled, Misfile(f, e)
      PROVE  SoleWriter'
  <2>1. tmp' = tmp /\ mig' = mig
    BY <1>3 DEF Misfile
  <2>2. /\ SameCore(bin[f], bin'[f])
        /\ \A g \in ObjId \ {f} : bin'[g] = bin[g]
    BY <1>3, MisfileKeepsTheSeal
  <2>3. \A g : Elsewhere(g)
    BY <1>s, <2>1 DEF Same
  <2>4. SoleAt(f)'
    BY <1>i, <2>1, <2>2, <2>3, SoleKept DEF Elsewhere
  <2> QED
    BY <1>k, <2>1, <2>2, <2>3, <2>4
<1>4. ASSUME NEW p \in Migrator, NEW f \in ObjId, Load(p, f)
      PROVE  SoleWriter'
  <2> DEFINE s == [mig[p] EXCEPT !.pc = "loaded", !.cur = f, !.old = bin[f]]
  <2>1. UNCHANGED <<bin, tmp>> /\ \A q \in Migrator \ {p} : mig'[q] = mig[q]
    BY <1>4, <1>t DEF Load
  <2>2. CASE mig'[p] = s /\ bin[f] \in Sealed /\ ~(bin[f].ver >= FORMAT_VERSION)
    <3>1. mig'[p].pc = "loaded" /\ mig'[p].cur = f /\ mig'[p].old = bin[f]
      BY <1>t, <2>2 DEF MigratorState
    <3>2. bin[f].ver = 1
      BY <2>2 DEF Sealed, Version, FORMAT_VERSION
    <3>3. SoleAt(f)'
      <4>1. SameCore(bin[f], bin[f])
        BY <2>2, SameCoreSelf
      <4>2. \A q \in Migrator : mig'[q].pc = "loaded" /\ mig'[q].old = bin[f]
        BY <3>1 DEF OneMigrator
      <4> QED
        BY <2>1, <3>2, <4>1, <4>2 DEF SoleAt, Rewriting
    <3> QED
      BY <1>k, <1>o, <2>1, <3>1, <3>3
  <2>3. CASE ~(mig'[p] = s /\ bin[f] \in Sealed
                 /\ ~(bin[f].ver >= FORMAT_VERSION))
    <3>1. mig'[p].pc = "scan"
      BY <1>4, <1>t, <2>3, ClosedRests DEF Load
    <3> QED
      BY <1>m, <2>1, <3>1 DEF Same, AtRest
  <2> QED
    BY <2>2, <2>3
<1>5. ASSUME NEW p \in Migrator, OpenTmp(p)
      PROVE  SoleWriter'
  <2>1. PICK f \in ObjId : f = mig[p].cur
    BY <1>5, <1>t DEF OpenTmp, AtWork
  <2>2. /\ mig'[p].pc = "opened" /\ mig'[p].cur = f /\ mig'[p].fd = "tmp"
        /\ mig'[p].old = mig[p].old
    BY <1>5, <1>t, <2>1 DEF OpenTmp, MigratorState
  <2>3. /\ bin' = bin /\ \A g \in ObjId \ {f} : tmp'[g] = tmp[g]
    BY <1>5, <1>t, <2>1 DEF OpenTmp
  <2>4. /\ AtHand(p, f) /\ mig[p].old \in Sealed
        /\ Migratable(mig[p].old, mig[p].keyring)
    BY <1>5, <1>t, <2>1 DEF OpenTmp, AtHand, AtWork
  <2>5. /\ mig[p].old.ver = 1 /\ SameCore(mig[p].old, bin[f])
        /\ IsLegacy(bin[f])
    <3>1. mig[p].old.ver = 1 /\ SameCore(mig[p].old, bin[f])
      BY <1>i, <2>4 DEF SoleAt
    <3>2. IsLegacy(mig[p].old)
      BY <2>4, <3>1, LegacyVersion
    <3> QED
      BY <3>1, <3>2, SameCoreLegacy
  <2>6. SoleAt(f)'
    <3>1. \A q \in Migrator :
            /\ mig'[q].pc = "opened" /\ mig'[q].fd = "tmp"
            /\ mig'[q].old = mig[p].old
      BY <2>2 DEF OneMigrator
    <3> QED
      BY <2>3, <2>5, <3>1 DEF SoleAt, SameCore, IsLegacy
  <2> QED
    BY <1>k, <1>o, <2>2, <2>3, <2>6
<1>6. ASSUME NEW p \in Migrator, FillTmp(p)
      PROVE  SoleWriter'
  <2>1. PICK f \in ObjId : f = mig[p].cur
    BY <1>6, <1>t DEF FillTmp, AtWork
  <2>2. Rewriting(p, f) /\ AtHand(p, f) /\ mig[p].pc = "opened"
    BY <1>6, <2>1 DEF FillTmp, Rewriting, AtHand
  <2>3. /\ mig[p].fd = "tmp" /\ IsLegacy(bin[f])
        /\ mig[p].old.ver = 1 /\ SameCore(mig[p].old, bin[f])
    BY <1>i, <2>2 DEF SoleAt
  <2>4. /\ mig'[p].pc = "filled" /\ mig'[p].cur = f
        /\ mig'[p].old = mig[p].old /\ mig'[p].new = mig[p].new
    BY <1>6, <1>t, <2>1 DEF FillTmp, MigratorState
  <2>5. /\ bin' = bin /\ tmp'[f] = mig[p].new
        /\ \A g \in ObjId \ {f} : tmp'[g] = tmp[g]
    BY <1>6, <1>t, <2>1, <2>3 DEF FillTmp
  <2>6. SoleAt(f)'
    <3>1. \A q \in Migrator :
            /\ mig'[q].pc = "filled" /\ mig'[q].old = mig[p].old
            /\ mig'[q].new = mig[p].new
      BY <2>4 DEF OneMigrator
    <3> QED
      BY <2>3, <2>5, <3>1 DEF SoleAt, SameCore, IsLegacy
  <2> QED
    BY <1>k, <1>o, <2>4, <2>5, <2>6
<1>7. ASSUME NEW p \in Migrator, Replace(p)
      PROVE  SoleWriter'
  <2>1. PICK f \in ObjId : f = mig[p].cur
    BY <1>7, <1>t DEF Replace, AtWork
  <2>2. /\ Rewriting(p, f) /\ tmp[f] = mig[p].new /\ tmp[f] \in Sealed
    <3>1. Rewriting(p, f) /\ mig[p].pc = "filled"
      BY <1>7, <2>1 DEF Replace, Rewriting
    <3> QED
      BY <1>i, <3>1 DEF SoleAt, TransferAt
  <2>3. tmp[f] # NoFile
    BY <2>2, FileAssumption
  <2>4. /\ bin'[f] = tmp[f]
        /\ \A g \in ObjId \ {f} : bin'[g] = bin[g] /\ tmp'[g] = tmp[g]
    BY <1>7, <1>t, <2>1, <2>3 DEF Replace
  <2>5. mig'[p].pc = "scan"
    BY <1>7, <2>1, <2>3, ClosedRests DEF Replace
  <2>6. SoleAt(f)'
    <3>1. \A q \in Migrator : mig'[q].pc = "scan"
      BY <2>5 DEF OneMigrator
    <3> QED
      BY <2>3, <2>4, <3>1 DEF SoleAt, AtHand, Rewriting
  <2> QED
    BY <1>k, <1>o, <2>4, <2>5, <2>6
<1>8. ASSUME UNCHANGED <<bin, tmp>>,
             \/ mig' = mig
             \/ \E p \in Migrator : \/ Reject(p) \/ Finish(p) \/ Crash(p)
                                    \/ \E q \in BOOLEAN : StartMigrate(p, q)
      PROVE  SoleWriter'
  <2>1. \A q \in Migrator : Same(q) \/ AtRest(q)
    <3>1. CASE mig' = mig
      BY <3>1 DEF Same
    <3>2. ASSUME NEW p \in Migrator, NEW x, x.pc \in {"off", "scan"},
                 mig' = [mig EXCEPT ![p] = x]
          PROVE  \A q \in Migrator : Same(q) \/ AtRest(q)
      BY <1>t, <3>2 DEF Same, AtRest
    <3>3. ASSUME NEW p \in Migrator, Reject(p) \/ Finish(p) \/ Crash(p)
          PROVE  \A q \in Migrator : Same(q) \/ AtRest(q)
      BY <3>2, <3>3, ClosedRests DEF Reject, Finish, Crash
    <3>4. ASSUME NEW p \in Migrator, NEW q \in BOOLEAN, StartMigrate(p, q)
          PROVE  \A r \in Migrator : Same(r) \/ AtRest(r)
      <4>1. mig'[p].pc = "scan" /\ \A r \in Migrator \ {p} : mig'[r] = mig[r]
        BY <3>4, <1>t DEF StartMigrate, Idle
      <4> QED
        BY <4>1 DEF Same, AtRest
    <3> QED
      BY <1>8, <3>1, <3>3, <3>4
  <2> QED
    BY <1>8, <1>m, <2>1
<1>9. ASSUME NEW p \in Migrator, MigrateStep(p)
      PROVE  SoleWriter'
  BY <1>4, <1>5, <1>6, <1>7, <1>8, <1>9 DEF MigrateStep, Reject, Finish
<1>10. ASSUME NEW a \in Admin, AdminStep(a)
       PROVE  SoleWriter'
  BY <1>8, <1>10, AdminKeeps
<1> QED
  BY <1>1, <1>2, <1>3, <1>8, <1>9, <1>10
  DEF Next, SealingStep, AdminStep, Revoke, StartMigrate, Crash, vars

\* Nobody disturbs a single migrator: its tmp file holds what it wrote, and the
\* object it is about to replace is still the format 1 object it loaded.
THEOREM MigratorWritesAlone ==
  ASSUME OneMigrator
  PROVE  Spec => [](TypeOK /\ ProvenanceSound /\ TransferSound /\ SoleWriter)
<1> DEFINE Inv == TypeOK /\ ProvenanceSound /\ TransferSound /\ SoleWriter
<1>1. Init => Inv
  BY TypeInit, ProvenanceInit, TransferInit, SoleInit
<1>2. Inv /\ [Next]_vars => Inv'
  BY TypeNext, ProvenanceNext, TransferNext, SoleNext
<1> QED
  BY <1>1, <1>2, PTL DEF Spec

\* What a migration does to the directory: nothing, or one format 1 object
\* gives way to one that carries what it proved.
Upgraded(f) ==
  /\ IsLegacy(bin[f]) /\ (bin[f].signer = Owner => LegacyCore(bin[f]))
  /\ Carries(bin'[f], bin[f], authored)
  /\ \A g \in ObjId \ {f} : bin'[g] = bin[g]
  /\ authored' = authored

LEMMA MigratorSteps ==
  ASSUME TypeOK, TransferSound, SoleWriter, NEW p \in Migrator, MigrateStep(p)
  PROVE  UNCHANGED <<bin, authored>> \/ \E f \in ObjId : Upgraded(f)
<1>t. /\ bin \in [ObjId -> File] /\ AtWork(mig[p])
  BY DEF TypeOK
<1>1. CASE FillTmp(p)
  <2>1. PICK f \in ObjId : f = mig[p].cur
    BY <1>1, <1>t DEF FillTmp, AtWork
  <2>2. Rewriting(p, f) /\ mig[p].pc = "opened"
    BY <1>1, <2>1 DEF FillTmp, Rewriting
  <2>3. mig[p].fd = "tmp"
    BY <2>2 DEF SoleWriter, SoleAt
  <2> QED
    BY <1>1, <2>3 DEF FillTmp
<1>2. CASE Replace(p)
  <2>1. PICK f \in ObjId : f = mig[p].cur
    BY <1>2, <1>t DEF Replace, AtWork
  <2>2. Rewriting(p, f) /\ mig[p].pc = "filled"
    BY <1>2, <2>1 DEF Replace, Rewriting
  <2>3. /\ IsLegacy(bin[f]) /\ tmp[f] = mig[p].new
        /\ mig[p].new \in Sealed /\ Carries(mig[p].new, bin[f], authored)
        /\ bin[f].signer = Owner => LegacyCore(bin[f])
    BY <2>2 DEF SoleWriter, SoleAt, TransferSound, TransferAt
  <2>4. tmp[f] # NoFile
    BY <2>3, FileAssumption
  <2>5. /\ bin'[f] = tmp[f] /\ authored' = authored
        /\ \A g \in ObjId \ {f} : bin'[g] = bin[g]
    BY <1>2, <1>t, <2>1, <2>4 DEF Replace
  <2>6. Upgraded(f)
    BY <2>3, <2>5 DEF Upgraded
  <2> QED
    BY <2>6
<1> QED
  BY <1>1, <1>2 DEF MigrateStep, Load, Reject, OpenTmp, Finish

\* A reader never finds an incomplete file where a whole one was.
THEOREM PublishedStaysWhole ==
  ASSUME OneMigrator
  PROVE  Spec => PublishedIsWhole
<1> DEFINE Inv == TypeOK /\ ProvenanceSound /\ TransferSound /\ SoleWriter
<1>1. Inv /\ [Next]_vars =>
        [\A f \in ObjId : bin[f] \in Sealed => bin'[f] \in Sealed]_vars
  <2> SUFFICES ASSUME Inv, [Next]_vars, NEW f \in ObjId, bin[f] \in Sealed
               PROVE  bin'[f] \in Sealed
    OBVIOUS
  <2>1. bin \in [ObjId -> File] /\ bin[f] # NoFile
    BY FileAssumption DEF TypeOK
  <2>2. ASSUME NEW g \in ObjId, SealingStep(g)
        PROVE  bin'[f] \in Sealed
    BY <2>2, SealingKeeps
  <2>3. ASSUME NEW g \in ObjId, NEW o \in Incoming,
               NEW s \in ScopeId \cup {None}, Arrives(g, o, s)
        PROVE  bin'[f] \in Sealed
    BY <2>1, <2>3 DEF Arrives
  <2>4. ASSUME NEW g \in ObjId, NEW e \in Misfiled, Misfile(g, e)
        PROVE  bin'[f] \in Sealed
    BY <2>4, MisfileKeepsTheSeal DEF SameCore
  <2>5. ASSUME NEW p \in Migrator, MigrateStep(p)
        PROVE  bin'[f] \in Sealed
    BY <2>5, MigratorSteps DEF Upgraded, Carries
  <2>6. ASSUME NEW a \in Admin, AdminStep(a)
        PROVE  bin'[f] \in Sealed
    BY <2>6, AdminKeeps
  <2> QED
    BY <2>2, <2>3, <2>4, <2>5, <2>6
    DEF Next, SealingStep, AdminStep, Revoke, StartMigrate, Crash, vars
<1> QED
  BY <1>1, MigratorWritesAlone, PTL DEF Spec, PublishedIsWhole

\* A format 2 object stays what it is; only its cleartext envelope can change.
THEOREM SealedStaysSealed ==
  ASSUME OneMigrator
  PROVE  Spec => SealedIsFinal
<1> DEFINE Inv == TypeOK /\ ProvenanceSound /\ TransferSound /\ SoleWriter
           Kept(f) == bin'[f] \in Sealed
                      /\ [bin'[f] EXCEPT !.id = 0, !.scope = 0, !.ver = 0]
                         = [bin[f] EXCEPT !.id = 0, !.scope = 0, !.ver = 0]
<1>1. Inv /\ [Next]_vars =>
        [\A f \in ObjId :
           bin[f] \in Sealed /\ bin[f].aead # LegacyAad => Kept(f)]_vars
  <2> SUFFICES ASSUME Inv, [Next]_vars, NEW f \in ObjId,
                      bin[f] \in Sealed, bin[f].aead # LegacyAad
               PROVE  Kept(f)
    OBVIOUS
  <2>1. bin \in [ObjId -> File] /\ bin[f] # NoFile
    BY FileAssumption DEF TypeOK
  <2>k. bin'[f] = bin[f] => Kept(f)
    OBVIOUS
  <2>2. ASSUME NEW g \in ObjId, SealingStep(g)
        PROVE  bin'[f] = bin[f]
    BY <2>2, SealingKeeps
  <2>3. ASSUME NEW g \in ObjId, NEW o \in Incoming,
               NEW s \in ScopeId \cup {None}, Arrives(g, o, s)
        PROVE  bin'[f] = bin[f]
    BY <2>1, <2>3 DEF Arrives
  <2>4. ASSUME NEW g \in ObjId, NEW e \in Misfiled, Misfile(g, e)
        PROVE  Kept(f)
    <3>1. e.id \in ObjId /\ e.scope \in ScopeId /\ e.ver \in Version
      BY MisfiledAssumption
    <3>2. \/ bin'[f] = bin[f]
          \/ bin'[f] = [bin[f] EXCEPT !.id = e.id, !.scope = e.scope,
                                      !.ver = e.ver]
      BY <2>1, <2>4 DEF Misfile
    <3>3. LET x == [bin[f] EXCEPT !.id = e.id, !.scope = e.scope, !.ver = e.ver]
          IN  /\ x \in Sealed
              /\ [x EXCEPT !.id = 0, !.scope = 0, !.ver = 0]
                   = [bin[f] EXCEPT !.id = 0, !.scope = 0, !.ver = 0]
      BY <3>1 DEF Sealed
    <3> QED
      BY <2>k, <3>2, <3>3
  <2>5. ASSUME NEW p \in Migrator, MigrateStep(p)
        PROVE  bin'[f] = bin[f]
    BY <2>5, MigratorSteps DEF Upgraded, IsLegacy
  <2>6. ASSUME NEW a \in Admin, AdminStep(a)
        PROVE  bin'[f] = bin[f]
    BY <2>6, AdminKeeps
  <2> HIDE DEF Kept
  <2> QED
    BY <2>2, <2>3, <2>4, <2>5, <2>6, <2>k
    DEF Next, SealingStep, AdminStep, Revoke, StartMigrate, Crash, vars
<1> QED
  BY <1>1, MigratorWritesAlone, PTL DEF Spec, SealedIsFinal

-----------------------------------------------------------------------------
(* The vault implements Attribution.                                       *)

Author == {Own} \cup ({FALSE} \X Kid)

LEMMA AuthorType ==
  ASSUME NEW o \in Sealed
  PROVE  AuthorOf(o) \in Author \cup {Nobody}
BY KeyAssumption
DEF AuthorOf, Author, Credit, Nobody, Own, Sealed, Custody

\* Only what the owner signed, and holds in nobody's custody, is the owner's.
LEMMA OwnMeansOwner ==
  ASSUME NEW o \in Sealed, o.signer = Owner => LegacyCore(o)
  PROVE  (AuthorOf(o) = Own) <=> (o.signer = Owner)
<1>1. \A key \in Key : (Credit(key) = Own) <=> (key = Owner)
  BY DEF Credit, Own
<1>2. o.signer \in Key \cup {None} /\ Own # Nobody /\ Owner # None
  BY KeyAssumption DEF Sealed, Own, Nobody
<1>3. \A k : <<FALSE, k>> # Own
  BY DEF Own
<1> QED
  BY <1>1, <1>2, <1>3 DEF AuthorOf, LegacyCore

LEMMA CoreAuthor ==
  ASSUME NEW x, NEW y, SameCore(x, y)
  PROVE  AuthorOf(x) = AuthorOf(y) /\ x.memory = y.memory
BY DEF SameCore, AuthorOf

LEMMA AuthoredIsSaid ==
  ASSUME NEW key \in Key, NEW m, <<key, m>> \in authored
  PROVE  <<Credit(key), m>> \in Said
<1> DEFINE s == <<key, m>>
<1>1. s[1] = key /\ s[2] = m
  OBVIOUS
<1> QED
  BY <1>1 DEF Said

LEMMA SaidGrows ==
  ASSUME NEW key \in Key, NEW m, authored' = authored \cup {<<key, m>>}
  PROVE  Said' = Said \cup {<<Credit(key), m>>}
<1> DEFINE Entry(s) == <<Credit(s[1]), s[2]>>
<1>1. Said = {Entry(s) : s \in authored} /\ Said' = {Entry(s) : s \in authored'}
  BY DEF Said, Credit
<1>2. Entry(<<key, m>>) = <<Credit(key), m>>
  OBVIOUS
<1> HIDE DEF Entry
<1> QED
  BY <1>1, <1>2

\* What an upgraded file says of its author is what was proved, and the
\* owner's own stays the owner's own.
LEMMA UpgradedAuthor ==
  ASSUME TypeOK, NEW f \in ObjId, Upgraded(f)
  PROVE  /\ bin'[f] \in Sealed /\ bin'[f].memory.body = bin[f].memory.body
         /\ \/ AuthorOf(bin[f]) = Own /\ AuthorOf(bin'[f]) = Own
            \/ /\ AuthorOf(bin[f]) # Own /\ AuthorOf(bin'[f]) # Own
               /\ \/ AuthorOf(bin'[f]) = Nobody
                  \/ <<AuthorOf(bin'[f]), bin[f].memory.body>> \in Said
<1> DEFINE o == bin[f]
           x == bin'[f]
<1>1. /\ o \in Sealed /\ x \in Sealed /\ x.memory.body = o.memory.body
      /\ x.signer = Owner /\ x.author = KeyIdOf[Owner]
      /\ x.custody.kind = "absent" <=> (o.signer = Owner /\ LegacyCore(o))
      /\ (x.custody.kind # "absent" /\ x.custody.proven # None) =>
           \E key \in Key \ {Owner} : /\ KeyIdOf[key] = x.custody.proven
                                     /\ <<key, o.memory.body>> \in authored
  BY RebuiltKeeps DEF Upgraded, Carries, IsLegacy
<1>2. (o.signer = Owner => LegacyCore(o)) /\ Owner # None
  BY KeyAssumption DEF Upgraded
<1>3. (AuthorOf(o) = Own) <=> (o.signer = Owner)
  BY <1>1, <1>2, OwnMeansOwner
<1> HIDE DEF o, x
<1>4. CASE o.signer = Owner
  <2>1. AuthorOf(x) = Own
    BY <1>1, <1>2, <1>4 DEF AuthorOf, Credit
  <2> QED
    BY <1>1, <1>3, <1>4, <2>1 DEF o, x
<1>5. CASE o.signer # Owner
  <2>1. AuthorOf(x) = <<FALSE, x.custody.proven>>
    BY <1>1, <1>5 DEF AuthorOf
  <2>2. AuthorOf(x) # Own
    BY <2>1 DEF Own
  <2>3. CASE x.custody.proven = None
    BY <1>1, <1>3, <1>5, <2>1, <2>2, <2>3 DEF Nobody, o, x
  <2>4. CASE x.custody.proven # None
    <3>1. PICK key \in Key \ {Owner} : /\ KeyIdOf[key] = x.custody.proven
                                      /\ <<key, o.memory.body>> \in authored
      BY <1>1, <1>5, <2>4
    <3>2. Credit(key) = AuthorOf(x)
      BY <2>1, <3>1 DEF Credit
    <3>3. <<AuthorOf(x), o.memory.body>> \in Said
      BY <3>1, <3>2, AuthoredIsSaid
    <3> QED
      BY <1>1, <1>3, <1>5, <2>2, <3>3 DEF o, x
  <2> QED
    BY <2>3, <2>4
<1> QED
  BY <1>4, <1>5

\* The shelf where one file changes and its neighbours do not.
LEMMA ShelfAt ==
  ASSUME NEW f \in ObjId, bin'[f] \in Sealed,
         \A g \in ObjId \ {f} :
           bin'[g] = bin[g] \/ SameCore(bin[g], bin'[g])
  PROVE  Shelf' = [Shelf EXCEPT ![f] = [memory |-> bin'[f].memory.body,
                                        author |-> AuthorOf(bin'[f])]]
<1> DEFINE At(x) == IF x \in Sealed
                    THEN [memory |-> x.memory.body, author |-> AuthorOf(x)]
                    ELSE <<>>
<1>1. \A g \in ObjId \ {f} : At(bin'[g]) = At(bin[g])
  BY CoreAuthor DEF SameCore
<1>2. At(bin'[f]) = [memory |-> bin'[f].memory.body, author |-> AuthorOf(bin'[f])]
  OBVIOUS
<1>3. /\ Shelf = [g \in ObjId |-> At(bin[g])]
      /\ Shelf' = [g \in ObjId |-> At(bin'[g])]
  BY DEF Shelf, AuthorOf
<1> HIDE DEF At
<1> QED
  BY <1>1, <1>2, <1>3

LEMMA PromiseInit == Init => Promise!AInit
<1> SUFFICES ASSUME Init PROVE Promise!AInit
  OBVIOUS
<1>1. \A f \in ObjId : bin[f] \notin Sealed
  BY FileAssumption DEF Init
<1>2. Shelf = [f \in ObjId |-> <<>>]
  BY <1>1 DEF Shelf
<1>3. Said = {}
  BY DEF Init, Said
<1> QED
  BY <1>2, <1>3 DEF Promise!AInit

LEMMA PromiseNext ==
  ASSUME OneMigrator
  PROVE  TypeOK /\ TransferSound /\ SoleWriter /\ [Next]_vars
           => [Promise!ANext]_<<Shelf, Said>>
<1> SUFFICES ASSUME TypeOK, TransferSound, SoleWriter, [Next]_vars
             PROVE  [Promise!ANext]_<<Shelf, Said>>
  OBVIOUS
<1>t. /\ bin \in [ObjId -> File] /\ NoFile \notin Sealed
      /\ authored \subseteq Key \X Body
  BY FileAssumption DEF TypeOK
<1>p. ASSUME NEW f \in ObjId, NEW a \in Author \cup {Nobody}, NEW m \in Body,
             bin[f] \notin Sealed, bin'[f] \in Sealed,
             bin'[f].memory.body = m, AuthorOf(bin'[f]) = a,
             \A g \in ObjId \ {f} : bin'[g] = bin[g],
             Said \subseteq Said', Said' \ Said \subseteq Author \X {m},
             a = Nobody \/ <<a, m>> \in Said'
      PROVE  Promise!ANext
  <2>1. Shelf[f] = <<>>
    BY <1>p, <1>t DEF Shelf
  <2>2. Shelf' = [Shelf EXCEPT ![f] = [memory |-> m, author |-> a]]
    BY <1>p, ShelfAt
  <2>3. Promise!Put(f)
    BY <1>p, <2>1, <2>2 DEF Promise!Put, Promise!Creditable, Author
  <2> QED
    BY <2>3 DEF Promise!ANext
<1>u. UNCHANGED <<bin, authored>> => UNCHANGED <<Shelf, Said>>
  BY DEF Shelf, Said, AuthorOf
<1>1. ASSUME NEW f \in ObjId, SealingStep(f)
      PROVE  [Promise!ANext]_<<Shelf, Said>>
  <2>1. ASSUME NEW b \in Body, NEW s \in ScopeId, seal_object(f, b, s)
        PROVE  UNCHANGED <<Shelf, Said>>
    <3>1. /\ bin[f] \notin Sealed /\ bin'[f] \notin Sealed
          /\ \A g \in ObjId \ {f} : bin'[g] = bin[g]
          /\ authored' = authored
      BY <2>1, <1>t, FileAssumption DEF seal_object
    <3> QED
      BY <3>1 DEF Shelf, Said, AuthorOf
  <2>2. CASE SealBin(f)
    <3> DEFINE m == sealing[f].body
               o == seal(Owner, Fresh(m), NoCustody, f, sealing[f].scope)
    <3>1. /\ bin[f] \notin Sealed /\ bin'[f] \in Sealed
          /\ bin'[f].memory.body = m /\ m \in Body /\ bin'[f] = o
          /\ \A g \in ObjId \ {f} : bin'[g] = bin[g]
      BY <2>2, SealBinFiles, FileAssumption
    <3>2. o.signer = Owner /\ o.custody = NoCustody /\ o.author = KeyIdOf[Owner]
      BY DEF seal
    <3> HIDE DEF o
    <3>3. AuthorOf(bin'[f]) = Own
      BY <3>1, <3>2, NoCustodyType, KeyAssumption DEF AuthorOf, Credit
    <3>4. Said' = Said \cup {<<Own, m>>}
      <4>1. Credit(Owner) = Own
        BY DEF Credit
      <4>2. authored' = authored \cup {<<Owner, m>>}
        BY <2>2 DEF SealBin
      <4> QED
        BY <4>1, <4>2, SaidGrows, KeyAssumption
    <3>5. Own \in Author
      BY DEF Author
    <3> HIDE DEF m
    <3>6. /\ Said \subseteq Said' /\ Said' \ Said \subseteq Author \X {m}
          /\ <<Own, m>> \in Said'
      BY <3>4, <3>5
    <3> QED
      BY <1>p, <3>1, <3>3, <3>5, <3>6
  <2>3. CASE SealDek(f) \/ SealDies(f)
    BY <1>u, <2>3 DEF SealDek, SealDies
  <2> QED
    BY <1>1, <2>1, <2>2, <2>3 DEF SealingStep
<1>2. ASSUME NEW f \in ObjId, NEW o \in Incoming,
             NEW s \in ScopeId \cup {None}, Arrives(f, o, s)
      PROVE  Promise!ANext
  <2>1. o \in Sealed /\ (o.signer = Owner => LegacyCore(o))
    BY IncomingAssumption
  <2>2. /\ bin[f] \notin Sealed /\ bin'[f] = o
        /\ \A g \in ObjId \ {f} : bin'[g] = bin[g]
    BY <1>2, <1>t DEF Arrives
  <2>3. o.memory.body \in Body /\ o.signer \in Key \cup {None}
    BY <2>1, BodyType DEF Sealed
  <2>4. AuthorOf(o) \in Author \cup {Nobody}
    BY <2>1, AuthorType
  <2>5. CASE o.signer # None /\ o.author = KeyIdOf[o.signer]
    <3> DEFINE c == Credit(o.signer)
    <3>1. authored' = authored \cup {<<o.signer, o.memory.body>>}
      BY <1>2, <2>5 DEF Arrives
    <3>2. Said' = Said \cup {<<c, o.memory.body>>}
      BY <2>3, <2>5, <3>1, SaidGrows
    <3>3. c \in Author
      BY <2>3, <2>5, KeyAssumption DEF Credit, Author
    <3>4. AuthorOf(o) \in {c, Nobody}
      BY <2>1, KeyAssumption DEF AuthorOf, LegacyCore
    <3> HIDE DEF c
    <3>5. /\ Said \subseteq Said'
          /\ Said' \ Said \subseteq Author \X {o.memory.body}
          /\ <<c, o.memory.body>> \in Said'
      BY <3>2, <3>3
    <3> QED
      BY <1>p, <2>1, <2>2, <2>3, <2>4, <3>4, <3>5
  <2>6. CASE ~(o.signer # None /\ o.author = KeyIdOf[o.signer])
    <3>1. authored' = authored
      BY <1>2, <2>6 DEF Arrives
    <3>2. Said' = Said
      BY <3>1 DEF Said
    <3>3. AuthorOf(o) = Nobody
      BY <2>1, <2>6, KeyAssumption DEF AuthorOf, LegacyCore
    <3> QED
      BY <1>p, <2>1, <2>2, <2>3, <2>4, <3>2, <3>3
  <2> QED
    BY <2>5, <2>6
<1>3. ASSUME NEW f \in ObjId, NEW e \in Misfiled, Misfile(f, e)
      PROVE  UNCHANGED <<Shelf, Said>>
  <2>1. SameCore(bin[f], bin'[f]) /\ \A g \in ObjId \ {f} : bin'[g] = bin[g]
    BY <1>3, MisfileKeepsTheSeal
  <2>2. /\ bin[f] \in Sealed /\ bin'[f] \in Sealed
        /\ bin'[f].memory.body = bin[f].memory.body
        /\ AuthorOf(bin'[f]) = AuthorOf(bin[f])
    BY <2>1, CoreAuthor DEF SameCore
  <2>3. Shelf' = [Shelf EXCEPT ![f] = [memory |-> bin[f].memory.body,
                                       author |-> AuthorOf(bin[f])]]
    BY <2>1, <2>2, ShelfAt
  <2>4. Shelf[f] = [memory |-> bin[f].memory.body, author |-> AuthorOf(bin[f])]
    BY <2>2 DEF Shelf
  <2>5. Shelf' = Shelf
    BY <2>3, <2>4 DEF Shelf
  <2>6. authored' = authored
    BY <1>3 DEF Misfile
  <2> QED
    BY <2>5, <2>6 DEF Said
<1>4. ASSUME NEW f \in ObjId, Upgraded(f)
      PROVE  [Promise!ANext]_<<Shelf, Said>>
  <2>1. /\ bin'[f] \in Sealed /\ bin'[f].memory.body = bin[f].memory.body
        /\ \/ AuthorOf(bin[f]) = Own /\ AuthorOf(bin'[f]) = Own
           \/ /\ AuthorOf(bin[f]) # Own /\ AuthorOf(bin'[f]) # Own
              /\ \/ AuthorOf(bin'[f]) = Nobody
                 \/ <<AuthorOf(bin'[f]), bin[f].memory.body>> \in Said
    BY <1>4, UpgradedAuthor
  <2>2. /\ bin[f] \in Sealed /\ authored' = authored
        /\ \A g \in ObjId \ {f} : bin'[g] = bin[g]
    BY <1>4 DEF Upgraded, IsLegacy
  <2>3. Said' = Said
    BY <2>2 DEF Said
  <2>4. Shelf[f] = [memory |-> bin[f].memory.body, author |-> AuthorOf(bin[f])]
    BY <2>2 DEF Shelf
  <2>5. Shelf' = [Shelf EXCEPT ![f] = [memory |-> bin'[f].memory.body,
                                       author |-> AuthorOf(bin'[f])]]
    BY <2>1, <2>2, ShelfAt
  <2>6. CASE AuthorOf(bin[f]) = Own /\ AuthorOf(bin'[f]) = Own
    <3>1. Shelf' = Shelf
      BY <2>1, <2>4, <2>5, <2>6 DEF Shelf
    <3> QED
      BY <2>3, <3>1
  <2>7. CASE AuthorOf(bin[f]) # Own /\ AuthorOf(bin'[f]) # Own
    <3> DEFINE a == AuthorOf(bin'[f])
    <3>1. a \in (Author \ {Own}) \cup {Nobody}
      BY <2>1, <2>7, AuthorType
    <3>2. a = Nobody \/ <<a, Shelf[f].memory>> \in Said
      BY <2>1, <2>4, <2>7
    <3>3. Shelf[f] # <<>> /\ Shelf[f].author # Own
      BY <2>2, <2>4, <2>7
    <3>4. Shelf' = [Shelf EXCEPT ![f].author = a]
      <4>1. [Shelf[f] EXCEPT !.author = a]
              = [memory |-> bin'[f].memory.body, author |-> a]
        BY <2>1, <2>4
      <4> QED
        BY <2>5, <4>1
    <3> HIDE DEF a
    <3>5. Promise!Reattribute(f)
      BY <2>3, <3>1, <3>2, <3>3, <3>4
      DEF Promise!Reattribute, Promise!Creditable, Author
    <3> QED
      BY <3>5 DEF Promise!ANext
  <2> QED
    BY <2>1, <2>6, <2>7
<1>5. ASSUME NEW p \in Migrator, MigrateStep(p)
      PROVE  [Promise!ANext]_<<Shelf, Said>>
  BY <1>4, <1>5, <1>u, MigratorSteps
<1>6. ASSUME NEW a \in Admin, AdminStep(a)
      PROVE  UNCHANGED <<Shelf, Said>>
  BY <1>6, <1>u, AdminKeeps
<1> QED
  BY <1>1, <1>2, <1>3, <1>5, <1>6, <1>u
  DEF Next, SealingStep, AdminStep, Revoke, StartMigrate, Crash, vars

\* One migrator, whatever else happens to the vault and wherever it is killed:
\* who is credited with a memory changes only as Attribution allows.
THEOREM VaultKeepsThePromise ==
  ASSUME OneMigrator
  PROVE  Spec => ImplementsAttribution
<1>1. Init => Promise!AInit
  BY PromiseInit
<1>2. (TypeOK /\ ProvenanceSound /\ TransferSound /\ SoleWriter) /\ [Next]_vars
        => [Promise!ANext]_<<Shelf, Said>>
  BY PromiseNext
<1> QED
  BY <1>1, <1>2, MigratorWritesAlone, PTL
  DEF Spec, ImplementsAttribution, Promise!ASpec, Promise!avars

-----------------------------------------------------------------------------
(* What a migration reports.                                               *)

\* No envelope is edited in place: nothing in src/ does.
NobodyMisfiles == Misfiled = {}

\* What the object in a file must be for its outcome to be reported.
Bears(o, outcome, stated) ==
  /\ o \in Sealed
  /\ outcome = "refused" => o.ver = 1
  /\ outcome \in Outcome => o.ver = 2 /\ o.signer = Owner
  /\ outcome = "migrated" =>
       o.custody = NoCustody /\ <<Owner, o.memory.body>> \in stated
  /\ outcome = "attributed" => o.custody.proven # None
  /\ outcome = "quarantined" =>
       o.custody.kind = "record" /\ o.custody.proven = None

\* A reported file holds what the report says; a migrator at work has read
\* what is still there, and what it has sealed is what it is going to report.
ReportAt(p, f) ==
  /\ mig[p].report[f] \in Outcome \cup {"refused"} =>
       Bears(bin[f], mig[p].report[f], authored)
  /\ AtHand(p, f) => mig[p].old = bin[f]
  /\ Rewriting(p, f) =>
       mig[p].kind \in Outcome /\ Bears(mig[p].new, mig[p].kind, authored)
ReportsSound == \A p \in Migrator, f \in ObjId : ReportAt(p, f)

\* The re-sealed object bears the outcome it was sealed for.
LEMMA ResealBears ==
  ASSUME NEW o \in Sealed, NEW keyring \in Keyring, NEW scope \in ScopeId,
         NEW quarantine \in BOOLEAN, NEW stated, NEW signed,
         o.signer = Owner => LegacyCore(o), SoundlySigned(o, stated, signed),
         OutcomeOf(o, keyring, quarantine) # "refused",
         Reseal(o, keyring, scope) \in Sealed
  PROVE  LET kind == OutcomeOf(o, keyring, quarantine)
         IN  kind \in Outcome /\ Bears(Reseal(o, keyring, scope), kind, stated)
<1> DEFINE v == verify_legacy_author(o, keyring)
           kind == OutcomeOf(o, keyring, quarantine)
           x == Reseal(o, keyring, scope)
<1>0. /\ Owner \in Key /\ Owner # None /\ o.signer \in Key \cup {None}
      /\ \A k \in Key : KeyIdOf[k] # None
  BY KeyAssumption DEF Sealed
<1>1. v = None \/ (v = o.signer /\ v \in Key)
  BY <1>0 DEF verify_legacy_author
<1>2. /\ x.ver = 2 /\ x.signer = Owner /\ x.memory.body = o.memory.body
      /\ x.custody = IF v = Owner THEN NoCustody
                     ELSE CustodyOf(AuthorKidOf(o, keyring),
                                    IF v = None THEN None ELSE KeyIdOf[v])
  BY RebuiltKeeps DEF Reseal, seal, FORMAT_VERSION
<1>3. /\ v = Owner => kind = "migrated"
      /\ v \notin {Owner, None} => kind = "attributed"
      /\ v = None => kind = "quarantined"
  BY <1>0 DEF OutcomeOf
<1> HIDE DEF v, kind, x
<1>4. CASE v = Owner
  <2>1. <<Owner, o.memory.body>> \in stated
    BY <1>0, <1>1, <1>4 DEF SoundlySigned, LegacyCore
  <2>2. kind = "migrated" /\ x.custody = NoCustody
    BY <1>2, <1>3, <1>4
  <2> QED BY <1>2, <2>1, <2>2 DEF Bears, Outcome, x, kind
<1>5. CASE v \notin {Owner, None}
  <2>1. kind = "attributed" /\ x.custody.proven = KeyIdOf[v]
    BY <1>2, <1>3, <1>5 DEF CustodyOf
  <2> QED BY <1>0, <1>1, <1>2, <1>5, <2>1 DEF Bears, Outcome, x, kind
<1>6. CASE v = None
  <2>1. /\ kind = "quarantined"
        /\ x.custody.kind = "record" /\ x.custody.proven = None
    BY <1>0, <1>2, <1>3, <1>6 DEF CustodyOf
  <2> QED BY <1>2, <2>1 DEF Bears, Outcome, x, kind
<1> QED
  BY <1>4, <1>5, <1>6

LEMMA BearsStays ==
  ASSUME NEW o, NEW outcome, NEW stated, NEW stated2,
         stated \subseteq stated2, Bears(o, outcome, stated)
  PROVE  Bears(o, outcome, stated2)
BY DEF Bears

LEMMA ReportsInit == Init => ReportsSound
BY DEF Init, ReportsSound, ReportAt, AtHand, Rewriting, Idle, NoReport, Outcome

LEMMA ReportsNext ==
  ASSUME OneMigrator, NobodyMisfiles
  PROVE  TypeOK /\ ProvenanceSound /\ TransferSound /\ SoleWriter
           /\ ReportsSound /\ [Next]_vars => ReportsSound'
<1> SUFFICES ASSUME TypeOK, ProvenanceSound, TransferSound, SoleWriter,
                    ReportsSound, [Next]_vars
             PROVE  ReportsSound'
  OBVIOUS
<1>t. /\ bin \in [ObjId -> File] /\ mig \in [Migrator -> MigratorState]
      /\ \A p \in Migrator : AtWork(mig[p]) /\ mig[p] \in MigratorState
  BY DEF TypeOK
<1>i. \A f \in ObjId : SoleAt(f) /\ TransferAt(f)
  BY DEF SoleWriter, TransferSound
<1>r. \A p \in Migrator, f \in ObjId : ReportAt(p, f)
  BY DEF ReportsSound
<1>n. \A p \in Migrator : mig[p].report \in [ObjId -> Report]
  BY <1>t DEF MigratorState
\* Nothing in a migrator's hands changes.
<1> DEFINE Unfiled(f) == bin[f] = NoFile \/ sealing[f].stage = "bin"
<1>a. ASSUME \A f \in ObjId : bin'[f] = bin[f] \/ Unfiled(f),
             mig' = mig, authored \subseteq authored'
      PROVE  ReportsSound'
  <2> SUFFICES ASSUME NEW p \in Migrator, NEW f \in ObjId
               PROVE  ReportAt(p, f)'
    BY DEF ReportsSound
  <2>1. ReportAt(p, f) /\ TransferAt(f)
    BY <1>i, <1>r
  <2>2. CASE bin'[f] = bin[f]
    BY <1>a, <2>1, <2>2, BearsStays DEF ReportAt, AtHand, Rewriting
  <2>3. CASE Unfiled(f)
    <3>1. mig[p].report[f] \notin Outcome \cup {"refused"}
      BY <2>1, <2>3, FileAssumption DEF ReportAt, Bears, TransferAt
    <3>2. ~AtHand(p, f) /\ ~Rewriting(p, f)
      BY <2>1, <2>3 DEF TransferAt, AtHand, Rewriting
    <3> QED BY <1>a, <3>1, <3>2 DEF ReportAt, AtHand, Rewriting
  <2> QED BY <1>a, <2>2, <2>3
\* The one migrator is between files.
<1>b. ASSUME NEW p \in Migrator, mig'[p].pc \in {"off", "scan"},
             NEW f \in ObjId, authored' = authored,
             \A g \in ObjId \ {f} : /\ mig'[p].report[g] = mig[p].report[g]
                                    /\ bin'[g] = bin[g],
             mig'[p].report[f] \in Outcome \cup {"refused"} =>
               Bears(bin'[f], mig'[p].report[f], authored)
      PROVE  ReportsSound'
  BY <1>b, <1>r DEF OneMigrator, ReportsSound, ReportAt, AtHand, Rewriting
\* It has a file in hand.
<1>c. ASSUME NEW p \in Migrator, NEW f \in ObjId, mig'[p].cur = f,
             mig'[p].report = mig[p].report, UNCHANGED <<bin, authored>>,
             mig'[p].old = bin[f],
             mig'[p].pc \in {"opened", "filled"} =>
               /\ mig'[p].kind \in Outcome
               /\ Bears(mig'[p].new, mig'[p].kind, authored)
      PROVE  ReportsSound'
  BY <1>c, <1>r DEF OneMigrator, ReportsSound, ReportAt, AtHand, Rewriting
<1>1. ASSUME NEW f \in ObjId, SealingStep(f)
      PROVE  ReportsSound'
  <2>1. ASSUME NEW b \in Body, NEW s \in ScopeId, seal_object(f, b, s)
        PROVE  ReportsSound'
    BY <1>a, <1>t, <2>1 DEF seal_object
  <2>2. CASE SealBin(f)
    BY <1>a, <1>t, <2>2 DEF SealBin
  <2>3. CASE SealDek(f) \/ SealDies(f)
    BY <1>a, <2>3 DEF SealDek, SealDies
  <2> QED
    BY <1>1, <2>1, <2>2, <2>3 DEF SealingStep
<1>2. ASSUME NEW f \in ObjId, NEW o \in Incoming,
             NEW s \in ScopeId \cup {None}, Arrives(f, o, s)
      PROVE  ReportsSound'
  <2>1. authored \subseteq authored'
    BY <1>2 DEF Arrives
  <2> QED BY <1>2, <1>a, <1>t, <2>1 DEF Arrives
<1>3. ASSUME UNCHANGED <<bin, mig, authored>>
      PROVE  ReportsSound'
  BY <1>3, <1>a
<1>4. ASSUME NEW p \in Migrator,
             Crash(p) \/ \E q \in BOOLEAN : StartMigrate(p, q)
      PROVE  ReportsSound'
  <2>1. /\ mig'[p].pc \in {"off", "scan"} /\ mig'[p].report = NoReport
        /\ UNCHANGED <<bin, authored>>
    <3>1. CASE Crash(p)
      BY <1>t, <3>1 DEF Crash, Idle
    <3>2. ASSUME NEW q \in BOOLEAN, StartMigrate(p, q)
          PROVE  /\ mig'[p].pc = "scan" /\ mig'[p].report = NoReport
                 /\ UNCHANGED <<bin, authored>>
      BY <1>t, <3>2 DEF StartMigrate, Idle
    <3> QED BY <1>4, <3>1, <3>2
  <2> QED
    BY <2>1 DEF OneMigrator, ReportsSound, ReportAt, AtHand, Rewriting,
                NoReport, Outcome
<1>5. ASSUME NEW p \in Migrator, Finish(p)
      PROVE  ReportsSound'
  <2>1. /\ mig'[p].pc = "off" /\ mig'[p].report = mig[p].report
        /\ UNCHANGED <<bin, authored>>
    BY <1>5, <1>t DEF Finish, Idle
  <2> QED
    BY <1>r, <2>1 DEF OneMigrator, ReportsSound, ReportAt, AtHand, Rewriting
\* A file is closed.
<1>d. ASSUME NEW p \in Migrator, NEW f \in ObjId, NEW outcome,
             mig'[p] = Closed(p, f, outcome)
      PROVE  /\ mig'[p].pc = "scan" /\ mig'[p].report[f] = outcome
             /\ \A g \in ObjId \ {f} : mig'[p].report[g] = mig[p].report[g]
  <2>1. /\ mig'[p].pc = "scan"
        /\ mig'[p].report = [mig[p].report EXCEPT ![f] = outcome]
    BY <1>d DEF Closed, Idle
  <2> QED BY <1>n, <2>1
<1>6. ASSUME NEW p \in Migrator, NEW f \in ObjId, Load(p, f)
      PROVE  ReportsSound'
  <2> DEFINE s == [mig[p] EXCEPT !.pc = "loaded", !.cur = f, !.old = bin[f]]
  <2>1. /\ UNCHANGED <<bin, authored>>
        /\ \/ mig'[p] = s
           \/ \E outcome \in {"failed", "already_v2"} :
                mig'[p] = Closed(p, f, outcome)
    BY <1>6, <1>t DEF Load
  <2>2. CASE mig'[p] = s
    <3>1. /\ mig'[p].pc = "loaded" /\ mig'[p].cur = f /\ mig'[p].old = bin[f]
          /\ mig'[p].report = mig[p].report
      BY <1>t, <2>2 DEF MigratorState
    <3> QED BY <1>c, <2>1, <3>1
  <2>3. ASSUME NEW outcome \in {"failed", "already_v2"},
               mig'[p] = Closed(p, f, outcome)
        PROVE  ReportsSound'
    <3>1. outcome \notin Outcome \cup {"refused"}
      BY DEF Outcome
    <3> QED BY <1>b, <1>d, <2>1, <2>3, <3>1
  <2> QED BY <2>1, <2>2, <2>3
<1>7. ASSUME NEW p \in Migrator, Reject(p)
      PROVE  ReportsSound'
  <2>1. PICK f \in ObjId : f = mig[p].cur
    BY <1>7, <1>t DEF Reject, AtWork
  <2>2. AtHand(p, f) /\ mig[p].old = bin[f] /\ mig[p].old.ver = 1
        /\ bin[f] \in Sealed
    BY <1>7, <1>i, <1>r, <1>t, <2>1 DEF Reject, AtHand, SoleAt, ReportAt, AtWork
  <2>3. /\ UNCHANGED <<bin, authored>>
        /\ \E outcome \in {"refused", "failed", "unavailable"} :
             mig'[p] = Closed(p, f, outcome)
    BY <1>7, <1>t, <2>1 DEF Reject
  <2>4. Bears(bin[f], "refused", authored)
    BY <2>2 DEF Bears, Outcome
  <2>5. {"failed", "unavailable"} \cap (Outcome \cup {"refused"}) = {}
    BY DEF Outcome
  <2> QED BY <1>b, <1>d, <2>3, <2>4, <2>5
<1>8. ASSUME NEW p \in Migrator, OpenTmp(p)
      PROVE  ReportsSound'
  <2> DEFINE o == mig[p].old
             ring == mig[p].keyring
             kind == OutcomeOf(o, ring, mig[p].quarantine)
  <2>1. PICK f \in ObjId : f = mig[p].cur
    BY <1>8, <1>t DEF OpenTmp, AtWork
  <2> DEFINE new == Reseal(o, ring, bin[f].scope)
  <2>2. /\ AtHand(p, f) /\ o = bin[f] /\ o \in Sealed /\ o.ver = 1
        /\ Migratable(o, ring) /\ kind # "refused"
        /\ ring \in Keyring /\ mig[p].quarantine \in BOOLEAN
        /\ bin[f].scope \in ScopeId
    <3>1. /\ AtHand(p, f) /\ o \in Sealed
          /\ Migratable(o, ring) /\ kind # "refused"
      BY <1>8, <1>t, <2>1 DEF OpenTmp, AtHand, AtWork
    <3>2. o = bin[f] /\ o.ver = 1
      BY <1>i, <1>r, <3>1 DEF SoleAt, ReportAt
    <3>3. ring \in Keyring /\ mig[p].quarantine \in BOOLEAN
      BY <1>t DEF MigratorState
    <3> QED BY <3>1, <3>2, <3>3 DEF Sealed
  <2>3. IsLegacy(bin[f]) /\ (o.signer = Owner => LegacyCore(o))
    BY <1>i, <2>2, LegacyVersion DEF TransferAt
  <2>4. SoundlySigned(o, authored, signedAt)
    BY <2>2 DEF ProvenanceSound, SoundFile
  <2>5. Carries(new, o, authored)
    BY <2>2, <2>3, <2>4, ResealCarries
  <2>6. kind \in Outcome /\ Bears(new, kind, authored)
    BY <2>2, <2>3, <2>4, <2>5, ResealBears DEF Carries
  <2> HIDE DEF new, kind
  <2>7. /\ mig'[p].pc = "opened" /\ mig'[p].cur = f
        /\ mig'[p].old = mig[p].old /\ mig'[p].new = new
        /\ mig'[p].kind = kind /\ mig'[p].report = mig[p].report
        /\ UNCHANGED <<bin, authored>>
    BY <1>8, <1>t, <2>1 DEF OpenTmp, MigratorState, new, kind
  <2> QED BY <1>c, <2>2, <2>6, <2>7
<1>9. ASSUME NEW p \in Migrator, FillTmp(p)
      PROVE  ReportsSound'
  <2>1. PICK f \in ObjId : f = mig[p].cur
    BY <1>9, <1>t DEF FillTmp, AtWork
  <2>2. Rewriting(p, f) /\ AtHand(p, f) /\ mig[p].pc = "opened"
    BY <1>9, <2>1 DEF FillTmp, Rewriting, AtHand
  <2>3. mig[p].fd = "tmp"
    BY <1>i, <2>2 DEF SoleAt
  <2>4. /\ mig'[p].pc = "filled" /\ mig'[p].cur = f
        /\ mig'[p].old = mig[p].old /\ mig'[p].new = mig[p].new
        /\ mig'[p].kind = mig[p].kind /\ mig'[p].report = mig[p].report
        /\ UNCHANGED <<bin, authored>>
    BY <1>9, <1>t, <2>1, <2>3 DEF FillTmp, MigratorState
  <2> QED BY <1>c, <1>r, <2>2, <2>4 DEF ReportAt
<1>10. ASSUME NEW p \in Migrator, Replace(p)
       PROVE  ReportsSound'
  <2>1. PICK f \in ObjId : f = mig[p].cur
    BY <1>10, <1>t DEF Replace, AtWork
  <2>2. /\ Rewriting(p, f) /\ tmp[f] = mig[p].new /\ tmp[f] \in Sealed
    <3>1. Rewriting(p, f) /\ mig[p].pc = "filled"
      BY <1>10, <2>1 DEF Replace, Rewriting
    <3> QED BY <1>i, <3>1 DEF SoleAt, TransferAt
  <2>3. tmp[f] # NoFile
    BY <2>2, FileAssumption
  <2>4. /\ bin'[f] = tmp[f] /\ authored' = authored
        /\ \A g \in ObjId \ {f} : bin'[g] = bin[g]
        /\ mig'[p] = Closed(p, f, mig[p].kind)
    BY <1>10, <1>t, <2>1, <2>3 DEF Replace
  <2>5. Bears(bin'[f], mig[p].kind, authored)
    BY <1>r, <2>2, <2>4 DEF ReportAt
  <2> QED BY <1>b, <1>d, <2>4, <2>5
<1>11. ASSUME NEW a \in Admin, AdminStep(a)
       PROVE  ReportsSound'
  BY <1>3, <1>11, AdminKeeps
<1> QED
  BY <1>1, <1>2, <1>3, <1>4, <1>5, <1>6, <1>7, <1>8, <1>9, <1>10, <1>11
  DEF Next, NobodyMisfiles, MigrateStep, SealingStep, AdminStep, Revoke, vars

\* What `amem migrate` prints is what the directory holds, until the next
\* migration: a refused file is still the format 1 object, a migrated one is
\* format 2 with the owner as its only author, an attributed one names a proven
\* author and a quarantined one proves nothing, whatever arrives meanwhile and
\* wherever the process was killed before.
THEOREM ReportIsTrue ==
  ASSUME OneMigrator, NobodyMisfiles
  PROVE  Spec => []ReportMatchesStore
<1> DEFINE Inv == TypeOK /\ ProvenanceSound /\ TransferSound /\ SoleWriter
                  /\ ReportsSound
<1>1. Init => Inv
  BY TypeInit, ProvenanceInit, TransferInit, SoleInit, ReportsInit
<1>2. Inv /\ [Next]_vars => Inv'
  BY TypeNext, ProvenanceNext, TransferNext, SoleNext, ReportsNext
<1>3. Inv => ReportMatchesStore
  <2> SUFFICES ASSUME ReportsSound PROVE ReportMatchesStore
    OBVIOUS
  <2>1. ASSUME NEW p \in Migrator, NEW f \in ObjId
        PROVE  LET o == bin[f]
                   r == mig[p].report[f]
               IN  /\ r = "refused" => o.ver = 1
                   /\ r = "migrated" =>
                        /\ o.ver = 2 /\ o.custody = NoCustody
                        /\ <<Owner, o.memory.body>> \in authored
                   /\ r = "attributed" =>
                        o.ver = 2 /\ o.signer = Owner /\ o.custody.proven # None
                   /\ r = "quarantined" =>
                        /\ o.ver = 2 /\ o.signer = Owner
                        /\ o.custody.kind = "record" /\ o.custody.proven = None
    <3>1. mig[p].report[f] \in Outcome \cup {"refused"} =>
            Bears(bin[f], mig[p].report[f], authored)
      BY DEF ReportsSound, ReportAt
    <3> QED
      BY <3>1 DEF Bears, Outcome
  <2> QED
    BY <2>1 DEF ReportMatchesStore
<1> QED
  BY <1>1, <1>2, <1>3, PTL DEF Spec
=============================================================================
