----------------------------- MODULE VaultTrust -----------------------------
(***************************************************************************)
(* Who a vault says wrote a memory, while objects are sealed, arrive from  *)
(* other producers, have their cleartext envelope disturbed, keys are      *)
(* accepted and revoked, and one or more `amem migrate` processes re-seal  *)
(* format 1 objects (src/src/amem/vault.py, Vault.migrate).                *)
(*                                                                         *)
(* A migrator works file by file: read the .bin, decide, open the shared   *)
(* <id>.bin.tmp, fill it, os.replace it over the .bin.  seal_object writes *)
(* the .bin, then the .dek; trust_key reads vault.cbor, then writes it in  *)
(* place.  Every step is an action, so processes interleave and a crash    *)
(* falls between any two; a file opened for writing is empty until it is   *)
(* filled.  Files are named by object ids; a file's name and the id in its *)
(* envelope need not agree.                                                *)
(***************************************************************************)
EXTENDS SealedObject, FiniteSets

CONSTANTS
  Incoming,   \* objects other producers, and release 0.1, may have left
  Misfiled,   \* envelopes an object may be moved or edited to
  Migrator,   \* processes that may run `amem migrate`
  Admin,      \* processes that may run trust_key
  NoFile,     \* the file does not exist
  Torn        \* a file opened for writing and not yet written: zero bytes

\* A genuine signature of the owner in an incoming object is one release 0.1
\* made: over the payload only, naming the owner, with no custody record.
LegacyCore(o) ==
  /\ o.sigAad = LegacyAad
  /\ o.author = KeyIdOf[Owner]
  /\ o.custody.kind = "absent"

ASSUME IncomingAssumption ==
  /\ Incoming \subseteq Sealed
  /\ \A o \in Incoming : o.signer = Owner => LegacyCore(o)
ASSUME MisfiledAssumption ==
  Misfiled \subseteq [id : ObjId, scope : ScopeId, ver : Version]
ASSUME FileAssumption ==
  {NoFile, Torn} \cap Sealed = {} /\ NoFile # Torn

VARIABLES
  bin,        \* objects/<id>.bin
  tmp,        \* objects/<id>.bin.tmp
  dek,        \* objects/<id>.dek: the scope whose KEK wraps it, or None
  known,      \* known_keys of vault.cbor
  torn,       \* vault.cbor is truncated: whoever reads it raises
  adm,        \* the locals of each trust_key
  sealing,    \* the locals of the seal_object of each new file
  mig,        \* the locals of each migrator
  authored,   \* ghost: <<key, body>> signed by key as its own statement
  signedAt    \* ghost: <<key, memory, placement>> of every signature

vars == <<bin, tmp, dek, known, torn, adm, sealing, mig, authored, signedAt>>

File == Sealed \cup {NoFile, Torn}
Outcome == {"migrated", "attributed", "quarantined"}
Report == Outcome \cup
  {"none", "refused", "failed", "unavailable", "already_v2"}
NoReport == [f \in ObjId |-> "none"]

\* fd: where the inode a migrator has open for writing now is: still the
\* tmp file, renamed to the .bin by another migrator, or replaced in turn.
MigratorState ==
  [pc : {"off", "scan", "loaded", "opened", "filled"},
   quarantine : BOOLEAN, keyring : Keyring,
   todo : SUBSET ObjId, cur : ObjId \cup {None},
   old : File, new : File, kind : Outcome \cup {"none"},
   fd : {"none", "tmp", "bin", "gone"},
   report : [ObjId -> Report]]

Idle(report) ==
  [pc |-> "off", quarantine |-> FALSE, keyring |-> [k \in Kid |-> None],
   todo |-> {}, cur |-> None, old |-> NoFile, new |-> NoFile,
   kind |-> "none", fd |-> "none", report |-> report]

AdminState == [pc : {"off", "read", "open"}, ring : Keyring]
Away == [pc |-> "off", ring |-> [k \in Kid |-> None]]

Unwritten == [stage |-> "none", body |-> None, scope |-> None]
SealState ==
  {Unwritten} \cup [stage : {"bin", "dek"}, body : Body, scope : ScopeId]

Init ==
  /\ bin = [f \in ObjId |-> NoFile]
  /\ tmp = [f \in ObjId |-> NoFile]
  /\ dek = [f \in ObjId |-> None]
  /\ known = [k \in Kid |-> None]
  /\ torn = FALSE
  /\ adm = [a \in Admin |-> Away]
  /\ sealing = [f \in ObjId |-> Unwritten]
  /\ mig = [p \in Migrator |-> Idle(NoReport)]
  /\ authored = {}
  /\ signedAt = {}

-----------------------------------------------------------------------------
(* The owner, other producers, and the keyring.                            *)

\* A fresh object id; the object is sealed in memory and its .bin opened.
seal_object(f, b, s) ==
  /\ ~torn
  /\ bin[f] = NoFile
  /\ bin' = [bin EXCEPT ![f] = Torn]
  /\ sealing' = [sealing EXCEPT
       ![f] = [stage |-> "bin", body |-> b, scope |-> s]]
  /\ UNCHANGED <<tmp, dek, known, torn, adm, mig, authored, signedAt>>

SealBin(f) ==
  LET s == sealing[f]
      o == seal(Owner, Fresh(s.body), NoCustody, f, s.scope)
  IN  /\ s.stage = "bin"
      /\ bin' = [bin EXCEPT ![f] = o]
      /\ sealing' = [sealing EXCEPT ![f].stage = "dek"]
      /\ authored' = authored \cup {<<Owner, s.body>>}
      /\ signedAt' = signedAt \cup {<<Owner, o.memory, o.sigAad>>}
      /\ UNCHANGED <<tmp, dek, known, torn, adm, mig>>

SealDek(f) ==
  /\ sealing[f].stage = "dek"
  /\ dek' = [dek EXCEPT ![f] = sealing[f].scope]
  /\ sealing' = [sealing EXCEPT ![f] = Unwritten]
  /\ UNCHANGED <<bin, tmp, known, torn, adm, mig, authored, signedAt>>

SealDies(f) ==
  /\ sealing[f] # Unwritten
  /\ sealing' = [sealing EXCEPT ![f] = Unwritten]
  /\ UNCHANGED <<bin, tmp, dek, known, torn, adm, mig, authored, signedAt>>

\* An object this code did not write reaches the directory, with a DEK
\* wrapped under some scope or under none the vault can unwrap: a .dek that
\* comes after its .bin is one or the other to whoever looks.  A signature is
\* its signer's own statement when the payload names the signer.
Arrives(f, o, s) ==
  /\ bin[f] = NoFile
  /\ bin' = [bin EXCEPT ![f] = o]
  /\ dek' = [dek EXCEPT ![f] = s]
  /\ IF o.signer = None
     THEN UNCHANGED <<authored, signedAt>>
     ELSE /\ authored' = IF o.author = KeyIdOf[o.signer]
                         THEN authored \cup {<<o.signer, o.memory.body>>}
                         ELSE authored
          /\ signedAt' = signedAt \cup {<<o.signer, o.memory, o.sigAad>>}
  /\ UNCHANGED <<tmp, known, torn, adm, sealing, mig>>

\* The cleartext envelope no longer says what was sealed.
Misfile(f, e) ==
  /\ bin[f] \in Sealed
  /\ bin' = [bin EXCEPT ![f].id = e.id, ![f].scope = e.scope,
                        ![f].ver = e.ver]
  /\ UNCHANGED <<tmp, dek, known, torn, adm, sealing, mig, authored, signedAt>>

\* Faulty: the id is filed, not the key.
TrustKeyStoringTheId(a, key) ==
  /\ ~torn /\ adm[a].pc = "off"
  /\ adm' = [adm EXCEPT
       ![a] = [pc |-> "read",
               ring |-> [known EXCEPT ![KeyIdOf[key]] = KeyIdOf[key]]]]
  /\ UNCHANGED <<bin, tmp, dek, known, torn, sealing, mig, authored, signedAt>>
\* trust_key reads vault.cbor and adds the key to what it read.
trust_key(a, key) ==
  /\ ~torn /\ adm[a].pc = "off"
  /\ adm' = [adm EXCEPT
       ![a] = [pc |-> "read", ring |-> [known EXCEPT ![KeyIdOf[key]] = key]]]
  /\ UNCHANGED <<bin, tmp, dek, known, torn, sealing, mig, authored, signedAt>>

\* _write_meta opens vault.cbor, and fills it.
TruncateMeta(a) ==
  /\ adm[a].pc = "read"
  /\ torn' = TRUE
  /\ adm' = [adm EXCEPT ![a].pc = "open"]
  /\ UNCHANGED <<bin, tmp, dek, known, sealing, mig, authored, signedAt>>
FillMeta(a) ==
  /\ adm[a].pc = "open"
  /\ known' = adm[a].ring
  /\ torn' = FALSE
  /\ adm' = [adm EXCEPT ![a] = Away]
  /\ UNCHANGED <<bin, tmp, dek, sealing, mig, authored, signedAt>>

\* The process dies; a vault.cbor it had opened stays empty.
AdminDies(a) ==
  /\ adm[a].pc # "off"
  /\ adm' = [adm EXCEPT ![a] = Away]
  /\ UNCHANGED <<bin, tmp, dek, known, torn, sealing, mig, authored, signedAt>>

\* An entry of known_keys removed: nothing in src/ does it, the draft does.
Revoke(kid) ==
  /\ ~torn
  /\ known' = [known EXCEPT ![kid] = None]
  /\ UNCHANGED <<bin, tmp, dek, torn, adm, sealing, mig, authored, signedAt>>

-----------------------------------------------------------------------------
(* Vault.migrate.                                                          *)

\* The keyring is read once and the directory listed once.
StartMigrate(p, quarantine) ==
  /\ ~torn
  /\ mig[p].pc = "off"
  /\ mig' = [mig EXCEPT ![p] =
       [Idle(NoReport) EXCEPT !.pc = "scan", !.quarantine = quarantine,
                              !.keyring = known,
                              !.todo = {f \in ObjId : bin[f] # NoFile}]]
  /\ UNCHANGED <<bin, tmp, dek, known, torn, adm, sealing, authored, signedAt>>

\* The object under way is done with, one way or another.
Closed(p, f, outcome) ==
  [Idle([mig[p].report EXCEPT ![f] = outcome]) EXCEPT
     !.pc = "scan", !.quarantine = mig[p].quarantine,
     !.keyring = mig[p].keyring, !.todo = mig[p].todo \ {f}]

\* Faulty: a format 2 object stays on the list.
LoadForgettingWhatWasDone(p, f) ==
  /\ mig[p].pc = "scan" /\ f \in mig[p].todo
  /\ mig' = [mig EXCEPT ![p] =
       IF bin[f] \notin Sealed THEN Closed(p, f, "failed")
       ELSE IF bin[f].ver >= FORMAT_VERSION
            THEN [Closed(p, f, "already_v2") EXCEPT !.todo = mig[p].todo]
       ELSE [mig[p] EXCEPT !.pc = "loaded", !.cur = f, !.old = bin[f]]]
  /\ UNCHANGED <<bin, tmp, dek, known, torn, adm, sealing, authored, signedAt>>
\* Faulty: format 2 objects are taken up as well.
LoadAnyVersion(p, f) ==
  /\ mig[p].pc = "scan" /\ f \in mig[p].todo
  /\ mig' = [mig EXCEPT ![p] =
       IF bin[f] \notin Sealed THEN Closed(p, f, "failed")
       ELSE [mig[p] EXCEPT !.pc = "loaded", !.cur = f, !.old = bin[f]]]
  /\ UNCHANGED <<bin, tmp, dek, known, torn, adm, sealing, authored, signedAt>>
Load(p, f) ==
  /\ mig[p].pc = "scan" /\ f \in mig[p].todo
  /\ mig' = [mig EXCEPT ![p] =
       IF bin[f] \notin Sealed THEN Closed(p, f, "failed")
       ELSE IF bin[f].ver >= FORMAT_VERSION THEN Closed(p, f, "already_v2")
       ELSE [mig[p] EXCEPT !.pc = "loaded", !.cur = f, !.old = bin[f]]]
  /\ UNCHANGED <<bin, tmp, dek, known, torn, adm, sealing, authored, signedAt>>

\* _dek_for reads the .bin again, for its scope, and unwraps the .dek.
DekOpens(f) == bin[f] \in Sealed /\ dek[f] = bin[f].scope

\* Faulty: an exception ends the whole migration.
RejectAbandoningTheRest(p) ==
  LET o == mig[p].old
      ring == mig[p].keyring
  IN  /\ mig[p].pc = "loaded"
      /\ \/ torn
         \/ ~DekOpens(mig[p].cur)
         \/ ~Migratable(o, ring)
         \/ OutcomeOf(o, ring, mig[p].quarantine) = "refused"
         \/ ~o.sealable
      /\ mig' = [mig EXCEPT ![p] =
                   Idle([mig[p].report EXCEPT ![mig[p].cur] = "failed"])]
      /\ UNCHANGED <<bin, tmp, dek, known, torn, adm, sealing, authored,
                     signedAt>>

\* An exception, or a refusal, before anything is written.  The report tells
\* a vault.cbor that could not be read from what is wrong with the object.
Reject(p) ==
  LET f == mig[p].cur
      o == mig[p].old
      ring == mig[p].keyring
      refused == OutcomeOf(o, ring, mig[p].quarantine) = "refused"
      raises == ~DekOpens(f) \/ ~Migratable(o, ring)
  IN  /\ mig[p].pc = "loaded"
      /\ torn \/ raises \/ refused \/ ~o.sealable
      /\ mig' = [mig EXCEPT ![p] =
                   Closed(p, f, IF torn THEN "unavailable"
                                ELSE IF ~raises /\ refused THEN "refused"
                                ELSE "failed")]
      /\ UNCHANGED <<bin, tmp, dek, known, torn, adm, sealing, authored,
                     signedAt>>

\* The object is re-sealed in memory and the tmp file opened for writing:
\* created, or truncated if another migrator is still using it.
OpenTmp(p) ==
  LET f == mig[p].cur
      o == mig[p].old
      kind == OutcomeOf(o, mig[p].keyring, mig[p].quarantine)
      new == Reseal(o, mig[p].keyring, bin[f].scope)
  IN  /\ ~torn
      /\ mig[p].pc = "loaded"
      /\ DekOpens(f) /\ Migratable(o, mig[p].keyring)
      /\ kind # "refused" /\ o.sealable
      /\ tmp' = [tmp EXCEPT ![f] = Torn]
      /\ mig' = [mig EXCEPT ![p].pc = "opened", ![p].new = new,
                            ![p].kind = kind, ![p].fd = "tmp"]
      /\ signedAt' = signedAt \cup
           {<<Owner, new.memory, <<FORMAT_VERSION, o.id, bin[f].scope>>>>}
      /\ UNCHANGED <<bin, dek, known, torn, adm, sealing, authored>>

\* The bytes go to the inode opened above, wherever it is by now.
FillTmp(p) ==
  LET f == mig[p].cur
      fd == mig[p].fd
  IN  /\ mig[p].pc = "opened"
      /\ tmp' = IF fd = "tmp" THEN [tmp EXCEPT ![f] = mig[p].new] ELSE tmp
      /\ bin' = IF fd = "bin" THEN [bin EXCEPT ![f] = mig[p].new] ELSE bin
      /\ mig' = [mig EXCEPT ![p].pc = "filled", ![p].fd = "none"]
      /\ UNCHANGED <<dek, known, torn, adm, sealing, authored, signedAt>>

Renamed(fd) == CASE fd = "tmp" -> "bin" [] fd = "bin" -> "gone" [] OTHER -> fd

\* os.replace.  It raises if another migrator has renamed the file already.
\* Faulty: os.replace before the tmp file is filled.
ReplaceEarly(p) ==
  LET f == mig[p].cur
  IN  /\ mig[p].pc \in {"opened", "filled"} /\ tmp[f] # NoFile
      /\ bin' = [bin EXCEPT ![f] = tmp[f]]
      /\ tmp' = [tmp EXCEPT ![f] = NoFile]
      /\ mig' = [mig EXCEPT ![p] = Closed(p, f, mig[p].kind)]
      /\ UNCHANGED <<dek, known, torn, adm, sealing, authored, signedAt>>
Replace(p) ==
  LET f == mig[p].cur
  IN  /\ mig[p].pc = "filled"
      /\ IF tmp[f] = NoFile
         THEN /\ mig' = [mig EXCEPT ![p] = Closed(p, f, "failed")]
              /\ UNCHANGED <<bin, tmp>>
         ELSE /\ bin' = [bin EXCEPT ![f] = tmp[f]]
              /\ tmp' = [tmp EXCEPT ![f] = NoFile]
              /\ mig' = [q \in Migrator |->
                   IF q = p THEN Closed(p, f, mig[p].kind)
                   ELSE IF mig[q].cur = f
                        THEN [mig[q] EXCEPT !.fd = Renamed(mig[q].fd)]
                   ELSE mig[q]]
      /\ UNCHANGED <<dek, known, torn, adm, sealing, authored, signedAt>>

Finish(p) ==
  /\ mig[p].pc = "scan" /\ mig[p].todo = {}
  /\ mig' = [mig EXCEPT ![p] = Idle(mig[p].report)]
  /\ UNCHANGED <<bin, tmp, dek, known, torn, adm, sealing, authored, signedAt>>

\* The process dies: its report is never printed, its files stay.
Crash(p) ==
  /\ mig[p].pc # "off"
  /\ mig' = [mig EXCEPT ![p] = Idle(NoReport)]
  /\ UNCHANGED <<bin, tmp, dek, known, torn, adm, sealing, authored, signedAt>>

-----------------------------------------------------------------------------
MigrateStep(p) ==
  \/ \E f \in ObjId : Load(p, f)
  \/ Reject(p)
  \/ OpenTmp(p)
  \/ FillTmp(p)
  \/ Replace(p)
  \/ Finish(p)

Next ==
  \/ \E f \in ObjId, b \in Body, s \in ScopeId : seal_object(f, b, s)
  \/ \E f \in ObjId : SealBin(f) \/ SealDek(f) \/ SealDies(f)
  \/ \E f \in ObjId, o \in Incoming, s \in ScopeId \cup {None} :
       Arrives(f, o, s)
  \/ \E f \in ObjId, e \in Misfiled : Misfile(f, e)
  \/ \E a \in Admin, key \in Key : trust_key(a, key)
  \/ \E a \in Admin : TruncateMeta(a) \/ FillMeta(a) \/ AdminDies(a)
  \/ \E kid \in Kid : Revoke(kid)
  \/ \E p \in Migrator, quarantine \in BOOLEAN : StartMigrate(p, quarantine)
  \/ \E p \in Migrator : MigrateStep(p)
  \/ \E p \in Migrator : Crash(p)

Spec == Init /\ [][Next]_vars

\* A migration in progress keeps running: migrate never waits for anything.
FairSpec == Spec /\ \A p \in Migrator : WF_vars(MigrateStep(p))

-----------------------------------------------------------------------------
(* Properties.                                                             *)

\* Between loading a file and closing it a migrator has an object in hand.
AtWork(m) ==
  m.pc \in {"loaded", "opened", "filled"}
    => m.cur \in ObjId /\ m.old \in Sealed

TypeOK ==
  /\ bin \in [ObjId -> File]
  /\ tmp \in [ObjId -> File]
  /\ dek \in [ObjId -> ScopeId \cup {None}]
  /\ known \in Keyring
  /\ torn \in BOOLEAN
  /\ adm \in [Admin -> AdminState]
  /\ sealing \in [ObjId -> SealState]
  /\ mig \in [Migrator -> MigratorState]
  /\ \A p \in Migrator : AtWork(mig[p])
  /\ authored \subseteq Key \X Body
  /\ signedAt \subseteq Key \X Memory \X Aad

\* open_object(f) returns a result to a reader.
Recalls(f, allow_unverified) ==
  ~torn /\ DekOpens(f) /\ Opens(bin[f], known, allow_unverified)

\* A memory reported with trust "self" says what the owner authored: no other
\* producer, no migration, no change of the keyring and no misfiled envelope
\* can make foreign content read as the owner's own (open_sealed, migrate).
SelfIsOwn ==
  \A f \in ObjId :
    Recalls(f, TRUE) /\ TrustOf(bin[f], known) = "self"
      => <<Owner, bin[f].memory.body>> \in authored

\* A memory reported with trust "trusted" names an author whose key id is
\* accepted now, and a key with that id did author it, whether the author's
\* signature is still there or only the custody record of a migration.
TrustedIsAttributable ==
  \A f \in ObjId :
    Recalls(f, TRUE) /\ TrustOf(bin[f], known) = "trusted"
      => LET kid == AuthorKidOf(bin[f], known)
         IN  /\ kid \in Accepted(known)
             /\ \E key \in Key : /\ KeyIdOf[key] = kid
                                 /\ <<key, bin[f].memory.body>> \in authored

\* What a reader is given without opting in to unverified content was signed
\* by a key for exactly the id, scope and version of the envelope it is read
\* from, and by an accepted key (envelope_aad as AAD of signature and AEAD).
PlacementIsSigned ==
  \A f \in ObjId :
    Recalls(f, FALSE)
      => LET o == bin[f]
         IN  /\ o.signer \in Candidates(known)
             /\ <<o.signer, o.memory, <<o.ver, o.id, o.scope>>>> \in signedAt

\* Re-sealing changes a file from a format 1 object to another ciphertext.
Resealed(f) ==
  /\ bin[f] \in Sealed /\ bin[f].aead = LegacyAad
  /\ bin'[f] \in Sealed /\ bin'[f].aead # LegacyAad

\* Migration keeps what the memory says, and all of a memory payload_map has
\* written; of another producer's it rebuilds the other fields.  It keeps trust
\* "self" for exactly the objects whose own signature is the owner's: an object
\* of the owner is not demoted to attributed or quarantined, any other is never
\* promoted (Vault.migrate, 153-198).
MigrationTransfersTrust ==
  [][\A f \in ObjId :
       Resealed(f) =>
         /\ bin'[f].memory.body = bin[f].memory.body
         /\ bin[f].textual /\ bin[f].memory = Fresh(bin[f].memory.body)
              => bin'[f].memory = bin[f].memory
         /\ (TrustOf(bin'[f], known') = "self")
              <=> (bin[f].signer = Owner /\ LegacyCore(bin[f]))]_vars

\* A .bin that holds a whole object never becomes an incomplete one, crashes
\* included (vault.py 196-198: tmp file, then os.replace).
PublishedIsWhole ==
  [][\A f \in ObjId : bin[f] \in Sealed => bin'[f] \in Sealed]_vars

\* An object sealed as format 2 is final: its ciphertext is never replaced,
\* so a custody record, once written, stays.
SealedIsFinal ==
  [][\A f \in ObjId :
       bin[f] \in Sealed /\ bin[f].aead # LegacyAad
         => bin'[f] \in Sealed
            /\ [bin'[f] EXCEPT !.id = 0, !.scope = 0, !.ver = 0]
               = [bin[f] EXCEPT !.id = 0, !.scope = 0, !.ver = 0]]_vars

\* The report of a migration is what the directory holds: a refused object is
\* still the format 1 object, a migrated one is the owner's, an attributed one
\* names a proven author, a quarantined one proves nothing (res, 147-207).
ReportMatchesStore ==
  \A p \in Migrator, f \in ObjId :
    LET o == bin[f]
    IN  CASE mig[p].report[f] = "refused" -> o.ver = 1
          [] mig[p].report[f] = "migrated" ->
               /\ o.ver = 2 /\ o.custody = NoCustody
               /\ <<Owner, o.memory.body>> \in authored
          [] mig[p].report[f] = "attributed" ->
               /\ o.ver = 2 /\ o.signer = Owner /\ o.custody.proven # None
          [] mig[p].report[f] = "quarantined" ->
               /\ o.ver = 2 /\ o.signer = Owner
               /\ o.custody.kind = "record" /\ o.custody.proven = None
          [] OTHER -> TRUE

\* A migration that is not killed ends, whatever the files hold.
MigrationEnds ==
  \A p \in Migrator : mig[p].pc = "scan" ~> mig[p].pc = "off"

\* One run of migrate brings every readable object of the owner to format 2,
\* whatever other objects do to it on the way, unless the process dies or
\* vault.cbor is truncated when the object's turn comes.
OwnLegacyUpgraded ==
  \A p \in Migrator, f \in ObjId :
    (/\ mig[p].pc = "scan" /\ f \in mig[p].todo
     /\ DekOpens(f) /\ Opens(bin[f], known, TRUE)
     /\ bin[f].signer = Owner /\ LegacyCore(bin[f]) /\ bin[f].sealable)
      ~> \/ bin[f] \in Sealed /\ bin[f].ver = 2
         \/ mig[p].report[f] = "unavailable"
         \/ mig[p].pc = "off" /\ mig[p].report = NoReport

-----------------------------------------------------------------------------
(* The inductive invariant behind SelfIsOwn, TrustedIsAttributable and     *)
(* PlacementIsSigned: every object anywhere on the way through the vault   *)
(* carries provenance the ghosts confirm, and a custody record of the      *)
(* owner is never under the format 1 AEAD, where migrate would drop it.    *)

\* A keyring as trust_key files it.
WellFiled(ring) == \A k \in Kid : ring[k] # None => KeyIdOf[ring[k]] = k

SoundlySigned(o, stated, signed) ==
  o.signer # None =>
    /\ <<o.signer, o.memory, o.sigAad>> \in signed
    /\ (/\ o.author = KeyIdOf[o.signer]
        /\ o.signer = Owner => o.custody.kind = "absent")
         => <<o.signer, o.memory.body>> \in stated
SoundCustody(o, stated) ==
  (o.signer = Owner /\ o.custody.kind # "absent") =>
    /\ o.aead # LegacyAad
    /\ o.custody.proven # None =>
         \E key \in Key : /\ KeyIdOf[key] = o.custody.proven
                          /\ <<key, o.memory.body>> \in stated
SoundFile(x, stated, signed) ==
  x \in Sealed => SoundlySigned(x, stated, signed) /\ SoundCustody(x, stated)

\* Wherever an object is, in a .bin, in a .bin.tmp or in the hands of a
\* migrator between two steps, its signature and its custody record say only
\* what happened (seal, migrate); an entry of known_keys, and one a trust_key
\* is about to write, is filed under the id of its key.
ProvenanceSound ==
  /\ \A f \in ObjId : /\ SoundFile(bin[f], authored, signedAt)
                      /\ SoundFile(tmp[f], authored, signedAt)
  /\ \A p \in Migrator : /\ SoundFile(mig[p].old, authored, signedAt)
                         /\ SoundFile(mig[p].new, authored, signedAt)
  /\ WellFiled(known)
  /\ \A a \in Admin : WellFiled(adm[a].ring)

-----------------------------------------------------------------------------
(* What a file says of authorship, whoever reads it: the owner, the author *)
(* whose key id its signature or the owner's custody record proves, or     *)
(* nobody.                                                                 *)

Own == <<TRUE, KeyIdOf[Owner]>>
Nobody == <<FALSE, None>>
Credit(key) == IF key = Owner THEN Own ELSE <<FALSE, KeyIdOf[key]>>

AuthorOf(o) ==
  CASE o.custody.kind = "absent" ->
         IF o.signer # None /\ o.author = KeyIdOf[o.signer]
         THEN Credit(o.signer) ELSE Nobody
    [] OTHER ->
         IF o.signer = Owner THEN <<FALSE, o.custody.proven>> ELSE Nobody

Shelf ==
  [f \in ObjId |-> IF bin[f] \in Sealed
                   THEN [memory |-> bin[f].memory.body,
                         author |-> AuthorOf(bin[f])]
                   ELSE <<>>]
Said == {<<Credit(s[1]), s[2]>> : s \in authored}

Promise == INSTANCE Attribution
  WITH Memory <- Body, File <- ObjId, Author <- {Own} \cup ({FALSE} \X Kid),
       Nothing <- <<>>, shelf <- Shelf, said <- Said

\* The vault keeps the promise: whatever is sealed, copied in, misfiled or
\* migrated, credit is given only to who authored the words, the owner's own
\* stays the owner's, and a migration changes no words (Vault.migrate).
ImplementsAttribution == Promise!ASpec

-----------------------------------------------------------------------------
(* The inductive invariants behind MigrationTransfersTrust, for any number *)
(* of migrators, and behind PublishedIsWhole, SealedIsFinal and            *)
(* ImplementsAttribution, for one.                                         *)

AtHand(p, f) ==
  mig[p].pc \in {"loaded", "opened", "filled"} /\ mig[p].cur = f
Rewriting(p, f) == mig[p].pc \in {"opened", "filled"} /\ mig[p].cur = f

\* The ciphertext is one of format 1, whatever the envelope says by now.
IsLegacy(x) == x \in Sealed /\ x.aead = LegacyAad
SameCore(x, y) ==
  /\ x \in Sealed /\ y \in Sealed
  /\ x.aead = y.aead /\ x.signer = y.signer /\ x.sigAad = y.sigAad
  /\ x.author = y.author /\ x.memory = y.memory /\ x.custody = y.custody
  /\ x.textual = y.textual

\* x is what a migration may put in the place of the format 1 object o.
Carries(x, o, stated) ==
  /\ x \in Sealed /\ x.aead # LegacyAad
  /\ x.ver = 2 /\ x.sigAad = AadOf(x)
  /\ x.signer = Owner /\ x.author = KeyIdOf[Owner]
  /\ x.memory = Rebuilt(o)
  /\ x.custody.kind = "absent" <=> (o.signer = Owner /\ LegacyCore(o))
  /\ (x.custody.kind # "absent" /\ x.custody.proven # None) =>
       \E key \in Key \ {Owner} : /\ KeyIdOf[key] = x.custody.proven
                                 /\ <<key, o.memory.body>> \in stated

\* As long as a .bin holds a format 1 object, every migrator at work on it
\* loaded that object, and what any of them has sealed or written for it says
\* what that object proves, whichever keyring it used (migrate, 153-198).
TransferAt(f) ==
  /\ sealing[f].stage = "bin" => bin[f] = Torn
  /\ bin[f] = NoFile \/ sealing[f].stage = "bin" =>
       tmp[f] = NoFile /\ \A p \in Migrator : ~AtHand(p, f)
  /\ IsLegacy(bin[f]) =>
       /\ bin[f].signer = Owner => LegacyCore(bin[f])
       /\ tmp[f] \in Sealed => Carries(tmp[f], bin[f], authored)
       /\ \A p \in Migrator :
            /\ AtHand(p, f) => SameCore(mig[p].old, bin[f])
            /\ Rewriting(p, f) => Carries(mig[p].new, bin[f], authored)
  /\ ~IsLegacy(tmp[f])
  /\ \A p \in Migrator :
       Rewriting(p, f) => mig[p].new \in Sealed /\ ~IsLegacy(mig[p].new)
TransferSound == \A f \in ObjId : TransferAt(f)

\* With one migrator nobody else touches the tmp file, and the object being
\* replaced is still the one loaded.
SoleAt(f) ==
  \A p \in Migrator :
    /\ AtHand(p, f) => mig[p].old.ver = 1 /\ SameCore(mig[p].old, bin[f])
    /\ Rewriting(p, f) =>
         /\ IsLegacy(bin[f])
         /\ mig[p].pc = "opened" => mig[p].fd = "tmp"
         /\ mig[p].pc = "filled" => tmp[f] = mig[p].new
SoleWriter == \A f \in ObjId : SoleAt(f)
=============================================================================
