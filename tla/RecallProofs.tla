---------------------------- MODULE RecallProofs ----------------------------
(***************************************************************************)
(* Proofs about Recall, Projection and TestVectors: what a reader is       *)
(* given, while others write, and what an adapter makes of it, for any     *)
(* number of readers and migrators.                                        *)
(***************************************************************************)
EXTENDS Projection, TestVectors, MigrationProofs, FiniteSetTheorems

-----------------------------------------------------------------------------
(* One object.                                                             *)

LEMMA OpenedType ==
  ASSUME NEW f \in ObjId, NEW o \in Sealed, NEW ring \in Keyring,
         NEW scope \in ScopeId
  PROVE  Opened(f, o, ring, scope) \in Entry
<1>1. TrustOf(o, ring) \in {"self", "trusted", "unverified"}
  BY DEF TrustOf
<1>2. AuthorshipOf(o, ring) \in {"signed", "attested", "unknown"}
  BY DEF AuthorshipOf
<1>3. AuthorKidOf(o, ring) \in Kid \cup {None}
  BY AuthorKidType
<1> QED
  BY <1>1, <1>2, <1>3 DEF Opened, Entry

\* An object whose provenance the ghosts confirm, opened with any keyring that
\* is filed by key id, is labelled truly.
LEMMA OpenedIsSound ==
  ASSUME NEW f \in ObjId, NEW o \in Sealed, NEW ring \in Keyring, NEW scope,
         NEW optin \in BOOLEAN, NEW stated, NEW signed,
         WellFiled(ring), SoundFile(o, stated, signed), Opens(o, ring, optin)
  PROVE  EntrySound(Opened(f, o, ring, scope), optin, stated, signed)
<1> DEFINE e == Opened(f, o, ring, scope)
<1>1. SoundlySigned(o, stated, signed) /\ SoundCustody(o, stated)
  BY DEF SoundFile
<1>2. Owner # None /\ Owner \in Key /\ None \notin Key
  BY KeyAssumption
<1>3. ASSUME TrustOf(o, ring) = "self"
      PROVE  <<Owner, o.memory.body>> \in stated
  <2>1. o.custody.kind = "absent" /\ VerifiedBy(o, ring) = Owner
    BY <1>3 DEF TrustOf
  <2>2. o.signer = Owner /\ o.author = KeyIdOf[Owner]
    BY <1>2, <2>1, VerifiedBySigner
  <2> QED
    BY <1>1, <1>2, <2>1, <2>2 DEF SoundlySigned
<1>4. ASSUME TrustOf(o, ring) = "trusted"
      PROVE  \E key \in Key : /\ KeyIdOf[key] = AuthorKidOf(o, ring)
                              /\ <<key, o.memory.body>> \in stated
  <2>1. CASE o.custody.kind # "absent"
    <3>1. Honoured(o, ring)
      BY <1>4, <2>1 DEF TrustOf
    <3>2. AuthorKidOf(o, ring) = o.custody.proven
      BY <2>1, <3>1 DEF AuthorKidOf
    <3> QED
      BY <1>1, <2>1, <3>1, <3>2, HonouredProof DEF SoundCustody
  <2>2. CASE o.custody.kind = "absent"
    <3>1. VerifiedBy(o, ring) \notin {None, Owner}
      BY <1>4, <2>2 DEF TrustOf
    <3>2. /\ o.signer \in Candidates(ring) /\ o.signer \notin {None, Owner}
          /\ o.author = KeyIdOf[o.signer]
      BY <3>1, VerifiedBySigner
    <3>3. o.signer \in Key
      BY <3>2 DEF Sealed
    <3>4. <<o.signer, o.memory.body>> \in stated
      BY <1>1, <3>2 DEF SoundlySigned
    <3>5. AuthorKidOf(o, ring) = o.author
      BY <2>2 DEF AuthorKidOf
    <3> QED
      BY <3>2, <3>3, <3>4, <3>5
  <2> QED
    BY <2>1, <2>2
<1>5. ASSUME ~optin
      PROVE  /\ o.signer # None
             /\ <<o.signer, o.memory, <<o.ver, o.id, o.scope>>>> \in signed
  <2>1. Authenticates(o, ring)
    BY <1>5 DEF Opens
  <2>2. /\ o.signer \in Candidates(ring)
        /\ o.sigAad = <<o.ver, o.id, o.scope>>
    BY <2>1 DEF Authenticates, verify_signature, AadOf, envelope_aad
  <2>3. o.signer # None
    BY <1>2, <2>2 DEF Candidates
  <2> QED
    BY <1>1, <2>2, <2>3 DEF SoundlySigned
<1>6. /\ e.trust = TrustOf(o, ring) /\ e.author = AuthorKidOf(o, ring)
      /\ e.obj = o
  BY DEF Opened
<1> HIDE DEF e
<1>7. EntrySound(e, optin, stated, signed)
  BY <1>3, <1>4, <1>5, <1>6 DEF EntrySound
<1> QED
  BY <1>7 DEF e

\* Without opt-in the labels of an object never contradict each other.
LEMMA OpenedIsConsistent ==
  ASSUME NEW f \in ObjId, NEW o \in Sealed, NEW ring \in Keyring, NEW scope,
         Opens(o, ring, FALSE)
  PROVE  Consistent(Opened(f, o, ring, scope))
<1> DEFINE e == Opened(f, o, ring, scope)
<1>1. Authenticates(o, ring) /\ o.custody.kind # "malformed"
  BY DEF Opens
<1>2. VerifiedBy(o, ring) = o.signer /\ o.signer \in Candidates(ring)
  BY <1>1 DEF VerifiedBy, Authenticates, verify_signature
<1>3. o.signer # None /\ o.author = KeyIdOf[o.signer] /\ o.signer \in Key
  <2>1. o.signer # None
    BY <1>2, KeyAssumption DEF Candidates
  <2> QED
    BY <1>2, <2>1, VerifiedBySigner DEF Sealed
<1>4. o.author \in Kid /\ o.author # None
  BY <1>3, KeyAssumption
<1>5. CASE o.custody.kind = "absent"
  <2>1. /\ TrustOf(o, ring) # "unverified"
        /\ AuthorshipOf(o, ring) = "signed" /\ AuthorKidOf(o, ring) = o.author
    BY <1>2, <1>3, <1>5 DEF TrustOf, AuthorshipOf, AuthorKidOf
  <2> QED
    BY <1>4, <2>1 DEF Consistent, Opened
<1>6. CASE o.custody.kind # "absent" /\ Honoured(o, ring)
  <2>1. o.custody.proven # None
    BY <1>6, HonouredProof
  <2>2. o.custody.kind = "record"
    BY <1>1, <1>6, <2>1 DEF Sealed, Custody
  <2>3. /\ TrustOf(o, ring) = "trusted" /\ AuthorshipOf(o, ring) = "attested"
        /\ AuthorKidOf(o, ring) = o.custody.proven
    BY <1>6 DEF TrustOf, AuthorshipOf, AuthorKidOf
  <2> QED
    BY <2>1, <2>2, <2>3 DEF Consistent, Opened
<1>7. CASE o.custody.kind # "absent" /\ ~Honoured(o, ring)
  <2>1. /\ TrustOf(o, ring) = "unverified" /\ AuthorshipOf(o, ring) = "unknown"
        /\ AuthorKidOf(o, ring) = None
    BY <1>7 DEF TrustOf, AuthorshipOf, AuthorKidOf
  <2> QED
    BY <2>1 DEF Consistent, Opened
<1> QED
  BY <1>5, <1>6, <1>7

\* An entry of known_keys that files the owner's own key changes nothing: the
\* same objects open, with the same labels.
LEMMA OwnerEntryIsRedundant ==
  ASSUME NEW o \in Sealed, NEW ring \in Keyring, NEW optin \in BOOLEAN,
         ring[KeyIdOf[Owner]] = None
  PROVE  LET ring2 == [ring EXCEPT ![KeyIdOf[Owner]] = Owner]
         IN  /\ Opens(o, ring2, optin) <=> Opens(o, ring, optin)
             /\ TrustOf(o, ring2) = TrustOf(o, ring)
             /\ AuthorshipOf(o, ring2) = AuthorshipOf(o, ring)
             /\ AuthorKidOf(o, ring2) = AuthorKidOf(o, ring)
<1> DEFINE ring2 == [ring EXCEPT ![KeyIdOf[Owner]] = Owner]
<1>1. KeyIdOf[Owner] \in Kid /\ Owner \in Key /\ Owner # None
  BY KeyAssumption
<1>2. /\ ring2[KeyIdOf[Owner]] = Owner
      /\ \A k \in Kid : k # KeyIdOf[Owner] => ring2[k] = ring[k]
  BY <1>1 DEF Keyring
<1> HIDE DEF ring2
<1>3. Candidates(ring2) = Candidates(ring)
  BY <1>1, <1>2 DEF Candidates
<1>4. Accepted(ring2) = Accepted(ring)
  BY <1>1, <1>2 DEF Accepted
<1>5. /\ Authenticates(o, ring2) <=> Authenticates(o, ring)
      /\ VerifiedBy(o, ring2) = VerifiedBy(o, ring)
  BY <1>3 DEF Authenticates, VerifiedBy
<1>6. Honoured(o, ring2) <=> Honoured(o, ring)
  BY <1>4, <1>5 DEF Honoured
<1>7. Opens(o, ring2, optin) <=> Opens(o, ring, optin)
  BY <1>5 DEF Opens
<1>8. TrustOf(o, ring2) = TrustOf(o, ring)
  BY <1>5, <1>6 DEF TrustOf
<1>9. /\ AuthorshipOf(o, ring2) = AuthorshipOf(o, ring)
      /\ AuthorKidOf(o, ring2) = AuthorKidOf(o, ring)
  BY <1>6 DEF AuthorshipOf, AuthorKidOf
<1> QED
  BY <1>7, <1>8, <1>9 DEF ring2

-----------------------------------------------------------------------------
(* Readers.                                                                *)

LEMMA AtRestType ==
  ASSUME NEW answer \in {"none", "memories", "error"}
  PROVE  /\ AtRest(answer) \in ReaderState
         /\ \A stated, signed : ReaderSound(AtRest(answer), stated, signed)
<1>1. AtRest(answer) \in ReaderState
  BY DEF AtRest, ReaderState, File
<1>2. \A stated, signed : SoundFile(NoFile, stated, signed)
  BY NoObjectIsSound
<1> QED
  BY <1>1, <1>2 DEF AtRest, ReaderSound

\* What a reader holds stays sound while others write: the ghosts only grow.
LEMMA ReaderSoundMonotone ==
  ASSUME NEW s, NEW stated, NEW stated2, NEW signed, NEW signed2,
         stated \subseteq stated2, signed \subseteq signed2,
         ReaderSound(s, stated, signed)
  PROVE  ReaderSound(s, stated2, signed2)
<1>1. SoundFile(s.held, stated2, signed2)
  BY SoundFileMonotone DEF ReaderSound
<1>2. ASSUME NEW e \in s.out
      PROVE  EntrySound(e, s.optin, stated2, signed2)
  <2>1. EntrySound(e, s.optin, stated, signed)
    BY <1>2 DEF ReaderSound
  <2> QED
    BY <2>1 DEF EntrySound
<1> QED
  BY <1>1, <1>2 DEF ReaderSound

LEMMA GhostsGrow ==
  ASSUME [Next]_vars
  PROVE  authored \subseteq authored' /\ signedAt \subseteq signedAt'
<1>1. ASSUME NEW f \in ObjId, SealingStep(f)
      PROVE  authored \subseteq authored' /\ signedAt \subseteq signedAt'
  BY <1>1, ZenonT(30) DEF SealingStep, seal_object, SealBin, SealDek, SealDies
<1>2. ASSUME NEW p \in Migrator, MigrateStep(p)
      PROVE  authored \subseteq authored' /\ signedAt \subseteq signedAt'
  BY <1>2, ZenonT(30)
  DEF MigrateStep, Load, Reject, OpenTmp, FillTmp, Replace, Finish
<1>3. ASSUME NEW f \in ObjId, NEW o \in Incoming,
             NEW s \in ScopeId \cup {None}, Arrives(f, o, s)
      PROVE  authored \subseteq authored' /\ signedAt \subseteq signedAt'
  BY <1>3 DEF Arrives
<1> QED
  BY <1>1, <1>2, <1>3, AdminKeeps, ZenonT(30)
  DEF Next, SealingStep, AdminStep, Misfile, Revoke, StartMigrate, Crash, vars

\* The step of a reader: its locals keep their type and stay sound.
LEMMA ReaderStep ==
  ASSUME RTypeOK, ProvenanceSound, ReadersSound,
         NEW r \in Reader, ReadStep(r)
  PROVE  /\ UNCHANGED vars
         /\ \E s \in ReaderState : /\ rd' = [rd EXCEPT ![r] = s]
                                   /\ ReaderSound(s, authored, signedAt)
<1> DEFINE Sound(s) == ReaderSound(s, authored, signedAt)
           Goal == \E s \in ReaderState : rd' = [rd EXCEPT ![r] = s] /\ Sound(s)
<1>t. /\ rd \in [Reader -> ReaderState] /\ rd[r] \in ReaderState
      /\ bin \in [ObjId -> File] /\ known \in Keyring /\ Sound(rd[r])
      /\ WellFiled(known)
      /\ \A f \in ObjId : SoundFile(bin[f], authored, signedAt)
  BY DEF RTypeOK, TypeOK, ReadersSound, ProvenanceSound
<1>1. ASSUME NEW optin \in BOOLEAN, NEW ring \in Keyring \cup {Live},
             ring # Live => WellFiled(ring), Start(r, optin, ring)
      PROVE  Goal
  <2> DEFINE rest == AtRest("none")
             own == OwnFiles(optin)
             s == [rest EXCEPT !.pc = "scan", !.optin = optin, !.ring = ring,
                               !.listed = {f \in ObjId : bin[f] # NoFile},
                               !.own = own]
  <2>1. /\ rest \in ReaderState /\ Sound(rest)
        /\ rest.out = {} /\ rest.held = NoFile
    BY AtRestType DEF AtRest
  <2>o. own \subseteq ObjId
    BY DEF OwnFiles
  <2> HIDE DEF rest, own
  <2>2. s \in ReaderState
    BY <1>1, <2>1, <2>o DEF ReaderState
  <2>3. /\ s.pc = "scan" /\ s.held = rest.held /\ s.out = {} /\ s.ring = ring
    BY <2>1 DEF ReaderState
  <2>4. Sound(s)
    BY <1>1, <2>1, <2>3 DEF ReaderSound
  <2>5. rd' = [rd EXCEPT ![r] = s]
    BY <1>1 DEF Start, rest, own
  <2> QED
    BY <2>2, <2>4, <2>5
<1>2. ASSUME NEW f \in ObjId, ReadObject(r, f)
      PROVE  Goal
  <2> DEFINE s == [rd[r] EXCEPT !.pc = "held", !.cur = f, !.held = bin[f]]
  <2>1. s \in ReaderState
    BY <1>t DEF ReaderState
  <2>2. /\ s.pc = "held" /\ s.cur = f /\ s.held = bin[f]
        /\ s.optin = rd[r].optin /\ s.ring = rd[r].ring /\ s.out = rd[r].out
    BY <1>t DEF ReaderState
  <2> HIDE DEF s
  <2>3. Sound(s)
    BY <1>t, <2>2 DEF ReaderSound
  <2>4. rd' = [rd EXCEPT ![r] = s]
    BY <1>2, <1>t DEF ReadObject, s
  <2> QED
    BY <2>1, <2>3, <2>4
<1>3. ASSUME OpenHeld(r)
      PROVE  Goal
  <2> DEFINE s == rd[r]
             e == Opened(s.cur, s.held, RingOf(s), bin[s.cur].scope)
             x == [file |-> s.cur, obj |-> s.held,
                   why |-> IF torn THEN "vault" ELSE "object"]
             s2 == [s EXCEPT !.pc = "scan", !.cur = None, !.held = NoFile]
             good == [s2 EXCEPT !.out = s2.out \cup {e}]
             bad == [s2 EXCEPT !.failed = s2.failed \cup {x}]
  <2>1. s.cur \in ObjId /\ s.pc = "held"
    BY <1>3, <1>t DEF OpenHeld, ReaderSound
  <2>2. RingOf(s) \in Keyring /\ WellFiled(RingOf(s))
    BY <1>t DEF RingOf, ReaderSound, ReaderState
  <2>3. SoundFile(NoFile, authored, signedAt)
    BY NoObjectIsSound
  <2>4. /\ s2 \in ReaderState
        /\ s2.pc = "scan" /\ s2.held = NoFile /\ s2.optin = s.optin
        /\ s2.ring = s.ring /\ s2.out = s.out /\ s2.failed = s.failed
    BY <1>t DEF ReaderState, File
  <2>5. CASE HeldOpens(s)
    <3>1. /\ s.held \in Sealed /\ bin[s.cur].scope \in ScopeId
          /\ Opens(s.held, RingOf(s), s.optin) /\ s.optin \in BOOLEAN
      BY <1>t, <2>1, <2>5 DEF HeldOpens, DekOpens, Sealed, ReaderState
    <3>2. e \in Entry
      BY <2>1, <2>2, <3>1, OpenedType
    <3>3. EntrySound(e, s.optin, authored, signedAt)
      BY <1>t, <2>1, <2>2, <3>1, OpenedIsSound DEF ReaderSound
    <3>4. ~s.optin => Consistent(e)
      BY <2>1, <2>2, <3>1, OpenedIsConsistent
    <3>5. rd' = [rd EXCEPT ![r] = good]
      BY <1>3, <2>5 DEF OpenHeld
    <3> HIDE DEF e, s2
    <3>6. /\ good \in ReaderState
          /\ good.pc = "scan" /\ good.held = NoFile /\ good.optin = s.optin
          /\ good.ring = s.ring /\ good.out = s.out \cup {e}
      BY <2>4, <3>2 DEF ReaderState
    <3> HIDE DEF good
    <3>7. Sound(good)
      BY <1>t, <2>3, <3>3, <3>4, <3>6 DEF ReaderSound
    <3>8. good \in ReaderState
      BY <3>6
    <3> QED
      BY <3>5, <3>7, <3>8
  <2>6. CASE ~HeldOpens(s)
    <3>1. x \in Failure
      BY <1>t, <2>1 DEF ReaderState, Failure
    <3>2. rd' = [rd EXCEPT ![r] = bad]
      BY <1>3, <2>6 DEF OpenHeld
    <3> HIDE DEF x, s2
    <3>3. /\ bad \in ReaderState
          /\ bad.pc = "scan" /\ bad.held = NoFile /\ bad.optin = s.optin
          /\ bad.ring = s.ring /\ bad.out = s.out
      BY <2>4, <3>1 DEF ReaderState
    <3> HIDE DEF bad
    <3>4. Sound(bad)
      BY <1>t, <2>3, <3>3 DEF ReaderSound
    <3>5. bad \in ReaderState
      BY <3>3
    <3> QED
      BY <3>2, <3>4, <3>5
  <2> QED
    BY <2>5, <2>6
<1>u. ASSUME NEW f \in ObjId, Unavailable(r, f)
      PROVE  Goal
  <2> DEFINE x == [file |-> f, obj |-> NoFile, why |-> "vault"]
             s == [rd[r] EXCEPT !.failed = rd[r].failed \cup {x}]
  <2>1. x \in Failure
    BY DEF Failure, File
  <2>2. rd' = [rd EXCEPT ![r] = s]
    BY <1>u, <1>t DEF Unavailable
  <2> HIDE DEF x
  <2>3. /\ s \in ReaderState /\ s.pc = rd[r].pc /\ s.cur = rd[r].cur
        /\ s.held = rd[r].held /\ s.optin = rd[r].optin
        /\ s.ring = rd[r].ring /\ s.out = rd[r].out
    BY <1>t, <2>1 DEF ReaderState
  <2> HIDE DEF s
  <2>4. Sound(s)
    BY <1>t, <2>3 DEF ReaderSound
  <2>5. s \in ReaderState
    BY <2>3
  <2> QED
    BY <2>2, <2>4, <2>5
<1>4. ASSUME Opened_all(r)
      PROVE  Goal
  <2> DEFINE s == [rd[r] EXCEPT !.pc = "done"]
  <2>1. /\ s \in ReaderState /\ s.pc = "done" /\ s.held = rd[r].held
        /\ s.optin = rd[r].optin /\ s.ring = rd[r].ring /\ s.out = rd[r].out
    BY <1>t DEF ReaderState
  <2> HIDE DEF s
  <2>2. Sound(s)
    BY <1>t, <2>1 DEF ReaderSound
  <2>3. rd' = [rd EXCEPT ![r] = s]
    BY <1>4, <1>t DEF Opened_all, s
  <2>4. s \in ReaderState
    BY <2>1
  <2> QED
    BY <2>2, <2>3, <2>4
<1>5. ASSUME NEW scope, amem_recall(r, scope)
      PROVE  Goal
  BY <1>5, AtRestType DEF amem_recall
<1>6. ASSUME Return(r)
      PROVE  Goal
  BY <1>6, AtRestType DEF Return
<1> HIDE DEF Goal
<1>7. Goal
  <2>1. ASSUME NEW optin \in BOOLEAN, open_all(r, optin)
        PROVE  Goal
    BY <1>1, <2>1 DEF open_all
  <2>2. CASE Capture(r)
    BY <1>1, <1>t, <2>2 DEF Capture
  <2> QED
    BY <1>2, <1>3, <1>u, <1>4, <1>5, <1>6, <2>1, <2>2 DEF ReadStep
<1>8. UNCHANGED vars
  BY DEF ReadStep, open_all, Capture, Start, ReadObject, Unavailable,
         OpenHeld, Opened_all, amem_recall, Return
<1> QED
  BY <1>7, <1>8 DEF Goal

RInv == RTypeOK /\ ProvenanceSound /\ ReadersSound

LEMMA RInvInit == RInit => RInv
<1> SUFFICES ASSUME RInit PROVE RInv
  OBVIOUS
<1>1. Init /\ rd = [r \in Reader |-> AtRest("none")]
  BY DEF RInit
<1>2. TypeOK /\ ProvenanceSound
  BY <1>1, TypeInit, ProvenanceInit
<1> QED
  BY <1>1, <1>2, AtRestType DEF RInv, RTypeOK, ReadersSound

LEMMA RInvNext == RInv /\ [RNext]_rvars => RInv'
<1> SUFFICES ASSUME RInv, [RNext]_rvars PROVE RInv'
  OBVIOUS
<1>i. TypeOK /\ ProvenanceSound /\ ReadersSound /\ rd \in [Reader -> ReaderState]
  BY DEF RInv, RTypeOK
<1>1. ASSUME [Next]_vars
      PROVE  /\ TypeOK' /\ ProvenanceSound'
             /\ authored \subseteq authored' /\ signedAt \subseteq signedAt'
  BY <1>1, <1>i, TypeNext, ProvenanceNext, GhostsGrow
<1>2. CASE [Next]_vars /\ rd' = rd
  <2>1. \A r \in Reader : ReaderSound(rd[r], authored', signedAt')
    BY <1>1, <1>2, <1>i, ReaderSoundMonotone DEF ReadersSound
  <2> QED
    BY <1>1, <1>2, <1>i, <2>1 DEF RInv, RTypeOK, ReadersSound
<1>3. ASSUME NEW r \in Reader, ReadStep(r)
      PROVE  RInv'
  <2>1. UNCHANGED vars
    BY <1>3, ReaderStep DEF RInv
  <2>2. PICK s \in ReaderState : /\ rd' = [rd EXCEPT ![r] = s]
                                 /\ ReaderSound(s, authored, signedAt)
    BY <1>3, ReaderStep DEF RInv
  <2>3. TypeOK' /\ ProvenanceSound'
    BY <1>1, <2>1
  <2>4. authored' = authored /\ signedAt' = signedAt
    BY <2>1 DEF vars
  <2>5. /\ rd' \in [Reader -> ReaderState]
        /\ \A q \in Reader : ReaderSound(rd'[q], authored', signedAt')
    BY <1>i, <2>2, <2>4 DEF ReadersSound
  <2> QED
    BY <2>3, <2>5 DEF RInv, RTypeOK, ReadersSound
<1> QED
  BY <1>2, <1>3 DEF RNext, rvars

\* Every step of a recall leaves what it holds well-formed and sound.
THEOREM ReadersStaySound == RSpec => []RInv
<1> QED
  BY RInvInit, RInvNext, PTL DEF RSpec

\* Whatever is written, migrated, accepted or revoked between the reads of one
\* recall, what it gives is labelled truly.
THEOREM RecallIsAttributable == RSpec => []EntriesAttributable
<1>1. RInv => EntriesAttributable
  BY DEF RInv, ReadersSound, ReaderSound, EntriesAttributable
<1> QED
  BY <1>1, ReadersStaySound, PTL

\* The labels of one entry never contradict each other, whatever keyring they
\* were derived from.
THEOREM LabelsAreConsistent == RSpec => []LabelsConsistent
<1>1. RInv => LabelsConsistent
  BY DEF RInv, ReadersSound, ReaderSound, LabelsConsistent
<1> QED
  BY <1>1, ReadersStaySound, PTL

-----------------------------------------------------------------------------
(* The steps of a reader, by what they do to its locals.                   *)

SameRecall(s, s2) ==
  /\ s2.optin = s.optin /\ s2.ring = s.ring
  /\ s2.listed = s.listed /\ s2.own = s.own
Blank(s) == s.out = {} /\ s.failed = {}

Begins(s2) ==
  /\ s2.pc = "scan" /\ Blank(s2)
  /\ s2.listed = {f \in ObjId : bin[f] # NoFile}
  /\ s2.own = OwnFiles(s2.optin)
  /\ s2.ring # Live => ~s2.optin
Reads(s, s2) ==
  /\ SameRecall(s, s2) /\ s2.out = s.out /\ s2.failed = s.failed
  /\ s2.pc = "held" /\ s2.cur \in Pending(s) /\ s2.held = bin[s2.cur]
Gives(s, s2) ==
  /\ s.pc = "held" /\ HeldOpens(s)
  /\ SameRecall(s, s2) /\ s2.pc = "scan" /\ s2.failed = s.failed
  /\ s2.out = s.out \cup
       {Opened(s.cur, s.held, RingOf(s), bin[s.cur].scope)}
Fails(s, x) ==
  \/ /\ s.pc = "held" /\ ~HeldOpens(s)
     /\ x = [file |-> s.cur, obj |-> s.held,
             why |-> IF torn THEN "vault" ELSE "object"]
  \/ /\ torn /\ s.pc = "scan"
     /\ x.file \in Pending(s) /\ x.why = "vault"
Names(s, s2) ==
  \E x : /\ Fails(s, x)
         /\ SameRecall(s, s2) /\ s2.pc = "scan" /\ s2.out = s.out
         /\ s2.failed = s.failed \cup {x}
Ends(s, s2) ==
  /\ SameRecall(s, s2) /\ s2.out = s.out /\ s2.failed = s.failed
  /\ s2.pc = "done" /\ Pending(s) = {}
Rests(s2) ==
  /\ s2.pc = "off" /\ Blank(s2)
  /\ s2.listed = {} /\ s2.own = {} /\ s2.ring = Live

Moves(s, s2) ==
  \/ Begins(s2) \/ Reads(s, s2) \/ Gives(s, s2) \/ Names(s, s2)
  \/ Ends(s, s2) \/ Rests(s2)

LEMMA ReaderMoves ==
  ASSUME RInv, NEW r \in Reader, ReadStep(r)
  PROVE  /\ UNCHANGED vars
         /\ \A q \in Reader \ {r} : rd'[q] = rd[q]
         /\ Moves(rd[r], rd'[r])
<1>t. rd \in [Reader -> ReaderState] /\ rd[r] \in ReaderState
  BY DEF RInv, RTypeOK
<1>1. ASSUME NEW optin \in BOOLEAN, NEW ring, ring # Live => ~optin,
             Start(r, optin, ring)
      PROVE  Begins(rd'[r])
  BY <1>1, <1>t DEF Start, AtRest, Begins, Blank
<1>2. ASSUME NEW f \in ObjId, ReadObject(r, f)
      PROVE  Reads(rd[r], rd'[r])
  BY <1>2, <1>t DEF ReadObject, Reads, SameRecall, ReaderState
<1>3. ASSUME OpenHeld(r)
      PROVE  Gives(rd[r], rd'[r]) \/ Names(rd[r], rd'[r])
  <2> DEFINE s == rd[r]
             e == Opened(s.cur, s.held, RingOf(s), bin[s.cur].scope)
             x == [file |-> s.cur, obj |-> s.held,
                   why |-> IF torn THEN "vault" ELSE "object"]
             s2 == [s EXCEPT !.pc = "scan", !.cur = None, !.held = NoFile]
  <2>1. /\ s2.pc = "scan" /\ SameRecall(s, s2) /\ s2.out = s.out
        /\ s2.failed = s.failed /\ DOMAIN s2 = DOMAIN s
        /\ {"out", "failed"} \subseteq DOMAIN s
    BY <1>t DEF ReaderState, SameRecall
  <2>2. CASE HeldOpens(s)
    <3>1. rd'[r] = [s2 EXCEPT !.out = s2.out \cup {e}]
      BY <1>3, <1>t, <2>2 DEF OpenHeld
    <3>2. s.pc = "held"
      BY <1>3 DEF OpenHeld
    <3> HIDE DEF e, s2
    <3>3. /\ rd'[r].pc = "scan" /\ SameRecall(s, rd'[r])
          /\ rd'[r].out = s.out \cup {e} /\ rd'[r].failed = s.failed
      BY <2>1, <3>1 DEF SameRecall
    <3> QED BY <2>2, <3>2, <3>3 DEF Gives, e
  <2>3. CASE ~HeldOpens(s)
    <3>1. rd'[r] = [s2 EXCEPT !.failed = s2.failed \cup {x}]
      BY <1>3, <1>t, <2>3 DEF OpenHeld
    <3>2. s.pc = "held"
      BY <1>3 DEF OpenHeld
    <3> HIDE DEF x, s2
    <3>3. /\ rd'[r].pc = "scan" /\ SameRecall(s, rd'[r])
          /\ rd'[r].out = s.out /\ rd'[r].failed = s.failed \cup {x}
      BY <2>1, <3>1 DEF SameRecall
    <3>4. Fails(s, x)
      BY <2>3, <3>2 DEF Fails, x
    <3> QED BY <3>3, <3>4 DEF Names
  <2> QED BY <2>2, <2>3
<1>u. ASSUME NEW f \in ObjId, Unavailable(r, f)
      PROVE  Names(rd[r], rd'[r])
  <2> DEFINE s == rd[r]
             x == [file |-> f, obj |-> NoFile, why |-> "vault"]
  <2>1. Fails(s, x) /\ s.pc = "scan"
    BY <1>u DEF Unavailable, Fails
  <2>2. rd'[r] = [s EXCEPT !.failed = s.failed \cup {x}]
    BY <1>u, <1>t DEF Unavailable
  <2> HIDE DEF x
  <2>3. /\ rd'[r].pc = "scan" /\ SameRecall(s, rd'[r])
        /\ rd'[r].out = s.out /\ rd'[r].failed = s.failed \cup {x}
    BY <1>t, <2>1, <2>2 DEF SameRecall, ReaderState
  <2> QED BY <2>1, <2>3 DEF Names
<1>4. ASSUME Opened_all(r)
      PROVE  Ends(rd[r], rd'[r])
  BY <1>4, <1>t DEF Opened_all, Ends, SameRecall, ReaderState
<1>5. ASSUME NEW answer, rd' = [rd EXCEPT ![r] = AtRest(answer)]
      PROVE  Rests(rd'[r])
  BY <1>5, <1>t DEF AtRest, Rests, Blank
<1>6. ASSUME NEW scope, amem_recall(r, scope)
      PROVE  Rests(rd'[r])
  BY <1>5, <1>6 DEF amem_recall
<1>7. ASSUME Return(r)
      PROVE  Rests(rd'[r])
  BY <1>5, <1>7 DEF Return
<1>8. Moves(rd[r], rd'[r])
  BY <1>1, <1>2, <1>3, <1>u, <1>4, <1>6, <1>7
  DEF ReadStep, open_all, Capture, Moves
<1>9. UNCHANGED vars
  BY ReaderStep DEF RInv
<1>10. \A q \in Reader \ {r} : rd'[q] = rd[q]
  BY <1>t, ReaderStep DEF RInv
<1> QED
  BY <1>8, <1>9, <1>10

-----------------------------------------------------------------------------
(* The owner's own objects, beside one migrator.                           *)

\* What is sealed for a file has the scope of what is there, and is placed
\* where it goes.
WellPlaced(x, scope) ==
  x.scope = scope /\ x.aead = AadOf(x) /\ x.hdr = x.author
ScopesKept ==
  /\ \A f \in ObjId : sealing[f].stage = "dek" =>
       bin[f] \in Sealed /\ bin[f].scope = sealing[f].scope
  /\ \A p \in Migrator, f \in ObjId :
       Rewriting(p, f) => WellPlaced(mig[p].new, bin[f].scope)

\* An own file is still readable as the owner's, whoever replaced it since the
\* listing, and what a reader has of it in hand opens without any key.
NoneExcluded(s) ==
  /\ \A f \in s.own : f \in ObjId /\ ReadableAsOwn(f, bin[f], s.optin)
  /\ s.pc = "held" =>
       /\ s.cur \in ObjId
       /\ s.cur \in s.own => s.held \in Sealed /\ Opens(s.held, NoKeys, s.optin)
  /\ \A x \in s.failed : x.file \in s.own => x.why = "vault"
  /\ s.pc = "done" => Pending(s) = {}
OwnKept == ScopesKept /\ \A r \in Reader : NoneExcluded(rd[r])

\* The owner's key is among the candidates of every keyring.
LEMMA OpensWithoutKeys ==
  ASSUME NEW o, NEW ring, NEW optin, Opens(o, NoKeys, optin)
  PROVE  Opens(o, ring, optin)
<1>1. Candidates(NoKeys) \subseteq {Owner}
  BY DEF Candidates, NoKeys
<1>2. Owner \in Candidates(ring)
  BY DEF Candidates
<1>3. Authenticates(o, NoKeys) => Authenticates(o, ring)
  BY <1>1, <1>2 DEF Authenticates
<1> QED
  BY <1>3 DEF Opens

\* What a migration puts in the place of the owner's own opens without opt-in
\* and without any key, as the owner's own.
LEMMA UpgradeOpens ==
  ASSUME NEW x, NEW o \in Sealed, NEW stated, NEW scope,
         Carries(x, o, stated), WellPlaced(x, scope),
         o.signer = Owner => LegacyCore(o), AuthorOf(o) = Own
  PROVE  /\ x \in Sealed /\ x.scope = scope /\ AuthorOf(x) = Own
         /\ \A optin : Opens(x, NoKeys, optin)
<1>1. Owner # None
  BY KeyAssumption
<1>2. o.signer = Owner
  BY OwnMeansOwner
<1>3. /\ x \in Sealed /\ x.ver = 2 /\ x.sigAad = AadOf(x) /\ x.aead = AadOf(x)
      /\ x.signer = Owner /\ x.author = KeyIdOf[Owner] /\ x.hdr = x.author
      /\ x.custody.kind = "absent" /\ x.scope = scope
  BY <1>2 DEF Carries, WellPlaced
<1>4. AuthorOf(x) = Own
  BY <1>1, <1>3 DEF AuthorOf, Credit
<1>5. Authenticates(x, NoKeys)
  BY <1>3 DEF Authenticates, verify_signature, Candidates
<1>6. \A optin : Opens(x, NoKeys, optin)
  BY <1>3, <1>5 DEF Opens, Decrypts, SUPPORTED_VERSIONS
<1> QED
  BY <1>3, <1>4, <1>6

\* A whole file stays whole and in its scope, and one readable as the owner's
\* stays readable as the owner's.
Stays(f) ==
  bin[f] \in Sealed =>
    /\ bin'[f] \in Sealed /\ bin'[f].scope = bin[f].scope
    /\ \A optin : ReadableAsOwn(f, bin[f], optin)
                    => ReadableAsOwn(f, bin[f], optin)'

LEMMA UntouchedStays ==
  ASSUME NEW f \in ObjId, bin[f] \in Sealed => bin'[f] = bin[f],
         bin[f] \in Sealed => dek'[f] = dek[f] \/ dek'[f] = bin[f].scope
  PROVE  Stays(f)
BY DEF Stays, ReadableAsOwn

\* Nothing is being sealed anew for any file: by one migrator, or by the owner.
Alike(q) ==
  mig'[q].pc \in {"opened", "filled"} =>
    /\ mig[q].pc \in {"opened", "filled"}
    /\ mig'[q].cur = mig[q].cur /\ mig'[q].new = mig[q].new
InStep(f) ==
  sealing'[f].stage = "dek" =>
    \/ sealing'[f] = sealing[f]
    \/ bin'[f] \in Sealed /\ bin'[f].scope = sealing'[f].scope

LEMMA ScopesStay ==
  ASSUME SoleWriter, ScopesKept,
         \A f \in ObjId : Stays(f) /\ InStep(f),
         \A q \in Migrator : Alike(q)
  PROVE  ScopesKept'
<1>1. ASSUME NEW f \in ObjId, sealing'[f].stage = "dek"
      PROVE  bin'[f] \in Sealed /\ bin'[f].scope = sealing'[f].scope
  BY <1>1 DEF ScopesKept, Stays, InStep
<1>2. ASSUME NEW p \in Migrator, NEW f \in ObjId, Rewriting(p, f)'
      PROVE  WellPlaced(mig'[p].new, bin'[f].scope)
  <2>1. Rewriting(p, f) /\ mig'[p].new = mig[p].new
    BY <1>2 DEF Rewriting, Alike
  <2>2. bin[f] \in Sealed /\ WellPlaced(mig[p].new, bin[f].scope)
    BY <2>1 DEF SoleWriter, SoleAt, IsLegacy, ScopesKept
  <2>3. bin'[f].scope = bin[f].scope
    BY <2>2 DEF Stays
  <2> QED BY <2>1, <2>2, <2>3
<1>3. ASSUME NEW p \in Migrator, NEW f \in ObjId, Rewriting(p, f)'
      PROVE  WellPlaced(mig[p].new, bin[f].scope)'
  BY <1>2, <1>3 DEF WellPlaced, AadOf
<1> QED
  BY <1>1, <1>3 DEF ScopesKept

LEMMA FilesStay ==
  ASSUME OneMigrator, NobodyMisfiles
  PROVE  TypeOK /\ TransferSound /\ SoleWriter /\ ScopesKept /\ [Next]_vars
           => ScopesKept' /\ \A f \in ObjId : Stays(f)
<1> SUFFICES ASSUME TypeOK, TransferSound, SoleWriter, ScopesKept, [Next]_vars
             PROVE  ScopesKept' /\ \A f \in ObjId : Stays(f)
  OBVIOUS
<1> DEFINE Goal == ScopesKept' /\ \A f \in ObjId : Stays(f)
           Rested(q) == mig'[q].pc \notin {"opened", "filled"}
<1>t. /\ bin \in [ObjId -> File] /\ tmp \in [ObjId -> File]
      /\ dek \in [ObjId -> ScopeId \cup {None}]
      /\ sealing \in [ObjId -> SealState]
      /\ mig \in [Migrator -> MigratorState]
      /\ \A p \in Migrator : AtWork(mig[p])
  BY DEF TypeOK
<1>i. \A f \in ObjId : SoleAt(f) /\ TransferAt(f)
  BY DEF SoleWriter, TransferSound
<1>n. {NoFile, Torn} \cap Sealed = {}
  BY FileAssumption
<1>o. ASSUME NEW p \in Migrator, Alike(p)
      PROVE  \A q \in Migrator : Alike(q)
  BY <1>o DEF OneMigrator
<1>b. ASSUME bin' = bin, dek' = dek, sealing' = sealing,
             \A q \in Migrator : Alike(q)
      PROVE  Goal
  <2>1. \A f \in ObjId : Stays(f) /\ InStep(f)
    BY <1>b, UntouchedStays DEF InStep
  <2> QED BY <1>b, <2>1, ScopesStay
<1>c. ASSUME NEW p \in Migrator, bin' = bin, dek' = dek, sealing' = sealing,
             Rested(p)
      PROVE  Goal
  <2>1. Alike(p)
    BY <1>c DEF Alike
  <2> QED BY <1>b, <1>c, <1>o, <2>1
<1>1. ASSUME NEW g \in ObjId, SealingStep(g)
      PROVE  Goal
  <2>1. /\ mig' = mig
        /\ \A f \in ObjId : bin[f] \in Sealed => bin'[f] = bin[f]
    BY <1>1, SealingKeeps
  <2>2. \A q \in Migrator : Alike(q)
    BY <2>1 DEF Alike
  <2>3. \A f \in ObjId : Stays(f)
    <3>1. CASE dek' = dek
      BY <2>1, <3>1, UntouchedStays
    <3>2. CASE SealDek(g)
      <4>1. /\ sealing[g].stage = "dek" /\ dek'[g] = sealing[g].scope
            /\ \A f \in ObjId \ {g} : dek'[f] = dek[f]
        BY <1>t, <3>2 DEF SealDek
      <4>2. bin[g].scope = sealing[g].scope
        BY <4>1 DEF ScopesKept
      <4> QED BY <2>1, <4>1, <4>2, UntouchedStays
    <3> QED
      BY <1>1, <3>1, <3>2 DEF SealingStep, seal_object, SealBin, SealDies
  <2>4. \A f \in ObjId : InStep(f)
    <3>1. ASSUME NEW b \in Body, NEW s \in ScopeId, seal_object(g, b, s)
          PROVE  \A f \in ObjId : InStep(f)
      BY <1>t, <3>1 DEF seal_object, InStep
    <3>2. CASE SealBin(g)
      <4>0. /\ bin'[g] \in Sealed
            /\ bin'[g] = seal(Owner, Fresh(sealing[g].body), NoCustody, g,
                              sealing[g].scope)
        BY <3>2, SealBinFiles
      <4>1. bin'[g].scope = sealing[g].scope
        BY <4>0 DEF seal
      <4>2. /\ sealing'[g].scope = sealing[g].scope
            /\ \A f \in ObjId \ {g} : sealing'[f] = sealing[f]
        BY <1>t, <3>2 DEF SealBin, SealState, Unwritten
      <4> QED BY <4>0, <4>1, <4>2 DEF InStep
    <3>3. CASE SealDek(g) \/ SealDies(g)
      BY <1>t, <3>3 DEF SealDek, SealDies, Unwritten, InStep
    <3> QED BY <1>1, <3>1, <3>2, <3>3 DEF SealingStep
  <2> QED BY <2>2, <2>3, <2>4, ScopesStay
<1>2. ASSUME NEW g \in ObjId, NEW o \in Incoming,
             NEW s \in ScopeId \cup {None}, Arrives(g, o, s)
      PROVE  Goal
  <2>1. /\ bin[g] = NoFile /\ mig' = mig /\ sealing' = sealing
        /\ \A f \in ObjId \ {g} : bin'[f] = bin[f] /\ dek'[f] = dek[f]
    BY <1>2, <1>t DEF Arrives
  <2>2. \A f \in ObjId : Stays(f) /\ InStep(f)
    BY <1>n, <2>1, UntouchedStays DEF InStep
  <2>3. \A q \in Migrator : Alike(q)
    BY <2>1 DEF Alike
  <2> QED BY <2>2, <2>3, ScopesStay
<1>4. ASSUME UNCHANGED <<bin, dek, sealing, mig>>
      PROVE  Goal
  <2>1. \A q \in Migrator : Alike(q)
    BY <1>4 DEF Alike
  <2> QED BY <1>4, <1>b, <2>1
<1>5. ASSUME NEW p \in Migrator, NEW quarantine \in BOOLEAN,
             StartMigrate(p, quarantine)
      PROVE  Rested(p) /\ bin' = bin /\ dek' = dek /\ sealing' = sealing
  BY <1>5, <1>t DEF StartMigrate, Idle
<1>6. ASSUME NEW p \in Migrator, NEW g \in ObjId, Load(p, g)
      PROVE  Rested(p) /\ bin' = bin /\ dek' = dek /\ sealing' = sealing
  BY <1>6, <1>t, ClosedRests DEF Load, MigratorState
<1>7. ASSUME NEW p \in Migrator, Reject(p) \/ Finish(p) \/ Crash(p)
      PROVE  Rested(p) /\ bin' = bin /\ dek' = dek /\ sealing' = sealing
  BY <1>7, <1>t, ClosedRests DEF Reject, Finish, Crash, Idle
<1>8. ASSUME NEW p \in Migrator, OpenTmp(p)
      PROVE  Goal
  <2>1. /\ bin' = bin /\ dek' = dek /\ sealing' = sealing
        /\ mig'[p].cur = mig[p].cur
        /\ mig'[p].new = Reseal(mig[p].old, mig[p].keyring,
                                bin[mig[p].cur].scope)
    BY <1>8, <1>t DEF OpenTmp, MigratorState
  <2>2. WellPlaced(mig'[p].new, bin[mig[p].cur].scope)
    BY <2>1 DEF WellPlaced, Reseal, seal, AadOf, FORMAT_VERSION
  <2>3. \A q \in Migrator : q = p
    BY DEF OneMigrator
  <2>4. \A f \in ObjId : sealing'[f].stage = "dek" =>
          bin'[f] \in Sealed /\ bin'[f].scope = sealing'[f].scope
    BY <2>1 DEF ScopesKept
  <2>5. ASSUME NEW f \in ObjId, Rewriting(p, f)'
        PROVE  WellPlaced(mig[p].new, bin[f].scope)'
    BY <2>1, <2>2, <2>5 DEF Rewriting, WellPlaced, AadOf
  <2>6. ScopesKept'
    BY <2>3, <2>4, <2>5 DEF ScopesKept
  <2>7. \A f \in ObjId : Stays(f)
    BY <2>1, UntouchedStays
  <2> QED BY <2>6, <2>7
<1>9. ASSUME NEW p \in Migrator, FillTmp(p)
      PROVE  Goal
  <2>1. PICK f \in ObjId : f = mig[p].cur
    BY <1>9, <1>t DEF FillTmp, AtWork
  <2>2. mig[p].fd = "tmp"
    BY <1>9, <1>i, <2>1 DEF FillTmp, Rewriting, SoleAt
  <2>3. bin' = bin /\ dek' = dek /\ sealing' = sealing /\ Alike(p)
    BY <1>9, <1>t, <2>2 DEF FillTmp, MigratorState, Alike
  <2> QED BY <1>b, <1>o, <2>3
<1>10. ASSUME NEW p \in Migrator, Replace(p)
       PROVE  Goal
  <2>1. PICK f \in ObjId : f = mig[p].cur
    BY <1>10, <1>t DEF Replace, AtWork
  <2>2. Rewriting(p, f) /\ mig[p].pc = "filled"
    BY <1>10, <2>1 DEF Replace, Rewriting
  <2>3. /\ tmp[f] = mig[p].new /\ tmp[f] \in Sealed /\ tmp[f] # NoFile
        /\ IsLegacy(bin[f]) /\ bin[f] \in Sealed
        /\ Carries(tmp[f], bin[f], authored)
        /\ bin[f].signer = Owner => LegacyCore(bin[f])
        /\ WellPlaced(tmp[f], bin[f].scope)
    BY <1>i, <1>n, <2>2 DEF SoleAt, TransferAt, ScopesKept, IsLegacy
  <2>4. /\ bin' = [bin EXCEPT ![f] = tmp[f]] /\ dek' = dek
        /\ sealing' = sealing /\ mig'[p] = Closed(p, f, mig[p].kind)
    BY <1>10, <1>t, <2>1, <2>3 DEF Replace
  <2>5. bin'[f] = tmp[f] /\ \A g \in ObjId \ {f} : bin'[g] = bin[g]
    BY <1>t, <2>4
  <2>6. Stays(f)
    <3>1. bin'[f] \in Sealed /\ bin'[f].scope = bin[f].scope
      BY <2>3, <2>5 DEF WellPlaced
    <3>2. ASSUME NEW optin, ReadableAsOwn(f, bin[f], optin)
          PROVE  ReadableAsOwn(f, bin[f], optin)'
      <4>1. AuthorOf(bin[f]) = Own /\ dek[f] = bin[f].scope
        BY <3>2 DEF ReadableAsOwn
      <4>2. /\ tmp[f] \in Sealed /\ tmp[f].scope = bin[f].scope
            /\ AuthorOf(tmp[f]) = Own /\ Opens(tmp[f], NoKeys, optin)
        BY <2>3, <4>1, UpgradeOpens
      <4> QED BY <2>4, <2>5, <4>1, <4>2 DEF ReadableAsOwn
    <3> QED BY <3>1, <3>2 DEF Stays
  <2>7. \A g \in ObjId : Stays(g)
    BY <2>4, <2>5, <2>6, UntouchedStays
  <2>8. Alike(p)
    BY <2>4, ClosedRests DEF Alike
  <2>9. \A g \in ObjId : InStep(g)
    BY <2>4 DEF InStep
  <2> QED BY <1>o, <2>7, <2>8, <2>9, ScopesStay
<1> HIDE DEF Goal, Rested
<1>11. Goal
  <2>1. ASSUME NEW p \in Migrator, MigrateStep(p)
        PROVE  Goal
    BY <1>c, <1>6, <1>7, <1>8, <1>9, <1>10, <2>1 DEF MigrateStep
  <2>2. ASSUME NEW a \in Admin, AdminStep(a)
        PROVE  Goal
    BY <1>4, <2>2, AdminKeeps
  <2>3. CASE Next
    BY <1>c, <1>1, <1>2, <1>4, <1>5, <1>7, <2>1, <2>2, <2>3
    DEF Next, SealingStep, AdminStep, NobodyMisfiles, Revoke
  <2>4. CASE UNCHANGED vars
    BY <1>4, <2>4 DEF vars
  <2> QED BY <2>3, <2>4
<1> QED
  BY <1>11 DEF Goal

LEMMA OwnKeptInit == RInit => OwnKept
<1> SUFFICES ASSUME RInit PROVE OwnKept
  OBVIOUS
<1>1. /\ \A p \in Migrator, f \in ObjId : ~Rewriting(p, f)
      /\ \A f \in ObjId : sealing[f].stage = "none"
  BY DEF RInit, Init, Idle, Rewriting, Unwritten
<1>2. \A r \in Reader :
        rd[r].pc = "off" /\ rd[r].own = {} /\ rd[r].failed = {}
  BY DEF RInit, AtRest
<1> QED
  BY <1>1, <1>2 DEF OwnKept, ScopesKept, NoneExcluded

\* A step of a reader excludes nothing of the owner's.
LEMMA ReaderExcludesNone ==
  ASSUME RInv, OwnKept, NEW r \in Reader, Moves(rd[r], rd'[r])
  PROVE  NoneExcluded(rd'[r])
<1> DEFINE s == rd[r]
           s2 == rd'[r]
<1>t. s \in ReaderState /\ bin \in [ObjId -> File]
  BY DEF RInv, RTypeOK, TypeOK
<1>i. NoneExcluded(s)
  BY DEF OwnKept
<1>p. SameRecall(s, s2) /\ s2.out = s.out /\ s2.failed = s.failed
        => Pending(s2) = Pending(s)
  BY DEF SameRecall, Pending
<1>m. Moves(s, s2)
  OBVIOUS
<1> HIDE DEF s, s2
<1>1. CASE Begins(s2)
  <2>1. \A f \in OwnFiles(s2.optin) :
          f \in ObjId /\ ReadableAsOwn(f, bin[f], s2.optin)
    BY DEF OwnFiles
  <2> QED
    BY <1>1, <2>1 DEF Begins, Blank, NoneExcluded, s2
<1>r. CASE Rests(s2)
  BY <1>r DEF Rests, Blank, NoneExcluded, s2
<1>2. CASE Reads(s, s2)
  <2>1. s2.cur \in ObjId
    BY <1>2, <1>t DEF Reads, Pending, ReaderState
  <2>2. s2.cur \in s2.own =>
          s2.held \in Sealed /\ Opens(s2.held, NoKeys, s2.optin)
    BY <1>2, <1>i DEF Reads, SameRecall, NoneExcluded, ReadableAsOwn
  <2> QED
    BY <1>2, <1>i, <2>1, <2>2 DEF Reads, SameRecall, NoneExcluded, s2
<1>3. CASE Gives(s, s2)
  BY <1>3, <1>i DEF Gives, SameRecall, NoneExcluded, s2
<1>4. CASE Names(s, s2)
  <2>1. PICK x : /\ Fails(s, x) /\ SameRecall(s, s2) /\ s2.pc = "scan"
                 /\ s2.failed = s.failed \cup {x}
    BY <1>4 DEF Names
  <2>2. x.file \in s.own => x.why = "vault"
    <3>1. CASE torn
      BY <2>1, <3>1 DEF Fails
    <3>2. CASE ~torn
      <4> SUFFICES ASSUME x.file \in s.own PROVE FALSE
        OBVIOUS
      <4>1. s.pc = "held" /\ ~HeldOpens(s) /\ x.file = s.cur
        BY <2>1, <3>2 DEF Fails
      <4>2. /\ s.held \in Sealed /\ Opens(s.held, NoKeys, s.optin)
            /\ ReadableAsOwn(s.cur, bin[s.cur], s.optin)
        BY <1>i, <4>1 DEF NoneExcluded
      <4>3. Opens(s.held, RingOf(s), s.optin) /\ DekOpens(s.cur)
        BY <4>2, OpensWithoutKeys DEF ReadableAsOwn, DekOpens
      <4> QED
        BY <3>2, <4>1, <4>2, <4>3 DEF HeldOpens
    <3> QED BY <3>1, <3>2
  <2> QED
    BY <1>i, <2>1, <2>2 DEF SameRecall, NoneExcluded, s2
<1>5. CASE Ends(s, s2)
  BY <1>5, <1>i, <1>p DEF Ends, SameRecall, NoneExcluded, s2
<1> QED
  BY <1>m, <1>1, <1>r, <1>2, <1>3, <1>4, <1>5 DEF Moves

LEMMA OwnKeptNext ==
  ASSUME OneMigrator, NobodyMisfiles
  PROVE  RInv /\ TransferSound /\ SoleWriter /\ OwnKept /\ [RNext]_rvars
           => OwnKept'
<1> SUFFICES ASSUME RInv, TransferSound, SoleWriter, OwnKept, [RNext]_rvars
             PROVE  OwnKept'
  OBVIOUS
<1>t. TypeOK /\ ScopesKept /\ \A r \in Reader : NoneExcluded(rd[r])
  BY DEF RInv, RTypeOK, OwnKept
<1>1. CASE [Next]_vars /\ rd' = rd
  <2>1. ScopesKept' /\ \A f \in ObjId : Stays(f)
    BY <1>1, <1>t, FilesStay
  <2>2. ASSUME NEW r \in Reader
        PROVE  NoneExcluded(rd[r])'
    <3>1. NoneExcluded(rd[r]) /\ rd'[r] = rd[r]
      BY <1>1, <1>t
    <3>2. ASSUME NEW f \in rd[r].own
          PROVE  f \in ObjId /\ ReadableAsOwn(f, bin[f], rd[r].optin)'
      <4>1. f \in ObjId /\ ReadableAsOwn(f, bin[f], rd[r].optin)
        BY <3>1, <3>2 DEF NoneExcluded
      <4>2. Stays(f) /\ bin[f] \in Sealed
        BY <2>1, <4>1 DEF ReadableAsOwn
      <4>3. \A optin : ReadableAsOwn(f, bin[f], optin)
                         => ReadableAsOwn(f, bin[f], optin)'
        BY <4>2 DEF Stays
      <4> QED BY <3>1, <4>1, <4>3 DEF ReadableAsOwn
    <3>3. /\ rd'[r].pc = "held" =>
               /\ rd'[r].cur \in ObjId
               /\ rd'[r].cur \in rd'[r].own =>
                    /\ rd'[r].held \in Sealed
                    /\ Opens(rd'[r].held, NoKeys, rd'[r].optin)
          /\ \A x \in rd'[r].failed : x.file \in rd'[r].own => x.why = "vault"
          /\ rd'[r].pc = "done" => Pending(rd'[r]) = {}
      BY <3>1 DEF NoneExcluded
    <3> QED
      BY <3>1, <3>2, <3>3 DEF NoneExcluded, Pending
  <2> QED
    BY <2>1, <2>2 DEF OwnKept
<1>2. ASSUME NEW r \in Reader, ReadStep(r)
      PROVE  OwnKept'
  <2>1. /\ UNCHANGED vars
        /\ \A q \in Reader \ {r} : rd'[q] = rd[q]
        /\ Moves(rd[r], rd'[r])
    BY <1>2, ReaderMoves
  <2>2. \A q \in Reader : NoneExcluded(rd'[q])
    BY <1>t, <2>1, ReaderExcludesNone
  <2>3. bin' = bin /\ dek' = dek /\ mig' = mig /\ sealing' = sealing
    BY <2>1 DEF vars
  <2>4. ScopesKept'
    BY <1>t, <2>3 DEF ScopesKept, Rewriting, WellPlaced, AadOf
  <2>5. ASSUME NEW q \in Reader
        PROVE  NoneExcluded(rd[q])'
    BY <2>2, <2>3 DEF NoneExcluded, ReadableAsOwn, Pending
  <2> QED
    BY <2>4, <2>5 DEF OwnKept
<1> QED
  BY <1>1, <1>2 DEF RNext, rvars

\* A recall gives or names every object it listed, and leaves out one of the
\* owner's, whole on disk when the recall began, only if vault.cbor could not
\* be read: whatever else is in the directory, however broken, a seal_object
\* half done and a migration at work beside it take none of those away.
THEOREM OwnIsAlwaysRecalled ==
  ASSUME OneMigrator, NobodyMisfiles
  PROVE  RSpec => []OwnIsRecalled
<1> DEFINE Inv == RInv /\ TransferSound /\ SoleWriter /\ OwnKept
<1>1. RInit => Inv
  BY RInvInit, TransferInit, SoleInit, OwnKeptInit DEF RInit
<1>2. Inv /\ [RNext]_rvars => Inv'
  <2> SUFFICES ASSUME Inv, [RNext]_rvars PROVE Inv'
    OBVIOUS
  <2>1. TypeOK /\ ProvenanceSound
    BY DEF RInv, RTypeOK
  <2>2. [Next]_vars
    BY ReaderMoves DEF RNext, rvars, vars
  <2>3. RInv' /\ TransferSound' /\ SoleWriter'
    BY <2>1, <2>2, RInvNext, TransferNext, SoleNext
  <2>4. OwnKept'
    BY OwnKeptNext
  <2> QED
    BY <2>3, <2>4
<1>3. Inv => OwnIsRecalled
  BY DEF OwnKept, NoneExcluded, OwnIsRecalled
<1> QED
  BY <1>1, <1>2, <1>3, PTL DEF RSpec

-----------------------------------------------------------------------------
(* What an adapter holds when it makes a record.                           *)

\* The files are finitely many whatever ObjId is.
FilesAreFinite == IsFiniteSet({f \in ObjId : bin[f] # NoFile})

\* Every file listed is delivered, named as failed, or still to come, and no
\* file is so twice.
Counted(s) ==
  /\ IsFiniteSet(s.listed) /\ IsFiniteSet(s.out) /\ IsFiniteSet(s.failed)
  /\ FilesOf(s.out) \cup FilesOf(s.failed) \subseteq s.listed
  /\ Cardinality(s.out) + Cardinality(s.failed) + Cardinality(Pending(s))
       = Cardinality(s.listed)
  /\ s.pc = "held" => s.cur \in Pending(s)
  /\ s.pc = "done" => Pending(s) = {}

\* What was opened with a captured keyring was labelled with that keyring.
LabelledWith(s) ==
  s.ring # Live =>
    /\ ~s.optin
    /\ \A e \in s.out :
         /\ Opens(e.obj, s.ring, FALSE)
         /\ e.trust = TrustOf(e.obj, s.ring)
         /\ e.authorship = AuthorshipOf(e.obj, s.ring)
         /\ e.author = AuthorKidOf(e.obj, s.ring)

HeldSound ==
  FilesAreFinite /\ \A r \in Reader : Counted(rd[r]) /\ LabelledWith(rd[r])

LEMMA FinitelyManyStay ==
  ASSUME TypeOK, FilesAreFinite, [Next]_vars
  PROVE  FilesAreFinite'
<1> DEFINE Files == {f \in ObjId : bin[f] # NoFile}
<1>t. /\ bin \in [ObjId -> File] /\ \A p \in Migrator : AtWork(mig[p])
  BY DEF TypeOK
<1>f. IsFiniteSet(Files)
  BY DEF FilesAreFinite
<1>1. ASSUME NEW g \in ObjId, \A f \in ObjId \ {g} : bin'[f] = bin[f]
      PROVE  FilesAreFinite'
  <2>1. {f \in ObjId : bin'[f] # NoFile} \subseteq Files \cup {g}
    BY <1>1
  <2>2. IsFiniteSet(Files \cup {g})
    BY <1>f, FS_AddElement
  <2> HIDE DEF Files
  <2>3. IsFiniteSet({f \in ObjId : bin'[f] # NoFile})
    BY <2>1, <2>2, FS_Subset
  <2> QED
    BY <2>3 DEF FilesAreFinite
<1>2. ASSUME bin' = bin
      PROVE  FilesAreFinite'
  BY <1>2 DEF FilesAreFinite
<1>3. ASSUME NEW g \in ObjId, SealingStep(g)
      PROVE  FilesAreFinite'
  <2>1. \A f \in ObjId \ {g} : bin'[f] = bin[f]
    BY <1>3, <1>t DEF SealingStep, seal_object, SealBin, SealDek, SealDies
  <2> QED
    BY <1>1, <2>1
<1>a. ASSUME NEW a \in Admin, AdminStep(a)
      PROVE  FilesAreFinite'
  BY <1>2, <1>a, AdminKeeps
<1>4. ASSUME NEW g \in ObjId, NEW o \in Incoming,
             NEW s \in ScopeId \cup {None}, Arrives(g, o, s)
      PROVE  FilesAreFinite'
  BY <1>1, <1>4, <1>t DEF Arrives
<1>5. ASSUME NEW g \in ObjId, NEW e \in Misfiled, Misfile(g, e)
      PROVE  FilesAreFinite'
  BY <1>1, <1>5, <1>t DEF Misfile
<1>6. ASSUME NEW p \in Migrator, FillTmp(p) \/ Replace(p)
      PROVE  FilesAreFinite'
  <2>1. mig[p].cur \in ObjId
    BY <1>6, <1>t DEF FillTmp, Replace, AtWork
  <2>2. \/ bin' = bin
        \/ \E x : bin' = [bin EXCEPT ![mig[p].cur] = x]
    BY <1>6 DEF FillTmp, Replace
  <2>3. \A f \in ObjId \ {mig[p].cur} : bin'[f] = bin[f]
    BY <1>t, <2>2
  <2> QED
    BY <1>1, <2>1, <2>3
<1>7. ASSUME NEW p \in Migrator, MigrateStep(p)
      PROVE  FilesAreFinite'
  BY <1>2, <1>6, <1>7, ZenonT(30)
  DEF MigrateStep, Load, Reject, OpenTmp, Finish
<1>s. ASSUME NEW p \in Migrator, NEW quarantine \in BOOLEAN,
             StartMigrate(p, quarantine) \/ Crash(p)
      PROVE  FilesAreFinite'
  BY <1>2, <1>s DEF StartMigrate, Crash
<1>8. CASE Next
  BY <1>2, <1>3, <1>a, <1>4, <1>5, <1>7, <1>s, <1>8
  DEF Next, SealingStep, AdminStep, Revoke
<1> QED
  BY <1>2, <1>8 DEF vars

\* A file given or named is one less of those still to come.
LEMMA ReaderCounts ==
  ASSUME RInv, FilesAreFinite, NEW r \in Reader, Counted(rd[r]),
         Moves(rd[r], rd'[r])
  PROVE  Counted(rd'[r])
<1> DEFINE s == rd[r]
           s2 == rd'[r]
<1>c. Counted(s)
  OBVIOUS
<1>m. Moves(s, s2)
  OBVIOUS
<1> HIDE DEF s, s2
<1>p. /\ IsFiniteSet(Pending(s)) /\ Cardinality(Pending(s)) \in Nat
      /\ Cardinality(s.out) \in Nat /\ Cardinality(s.failed) \in Nat
  <2>1. Pending(s) \subseteq s.listed /\ IsFiniteSet(s.listed)
    BY <1>c DEF Pending, Counted
  <2>2. IsFiniteSet(Pending(s))
    BY <2>1, FS_Subset
  <2> QED
    BY <1>c, <2>2, FS_CardinalityType DEF Counted
<1>1. CASE Begins(s2) \/ Rests(s2)
  <2>1. /\ IsFiniteSet({}) /\ Cardinality({}) = 0
    BY FS_EmptySet
  <2>2. /\ s2.out = {} /\ s2.failed = {} /\ IsFiniteSet(s2.listed)
        /\ s2.pc \notin {"held", "done"}
    BY <1>1, <2>1 DEF Begins, Rests, Blank, FilesAreFinite
  <2>3. /\ FilesOf(s2.out) = {} /\ FilesOf(s2.failed) = {}
        /\ Pending(s2) = s2.listed
    BY <2>2 DEF FilesOf, Pending
  <2>4. Cardinality(s2.listed) \in Nat
    BY <2>2, FS_CardinalityType
  <2> QED
    BY <2>1, <2>2, <2>3, <2>4 DEF Counted, s2
<1>s. ASSUME SameRecall(s, s2), s2.out = s.out, s2.failed = s.failed
      PROVE  Pending(s2) = Pending(s)
  BY <1>s DEF SameRecall, Pending
<1>2. CASE Reads(s, s2)
  BY <1>2, <1>c, <1>s DEF Reads, SameRecall, Counted, s2
<1>3. CASE Ends(s, s2)
  BY <1>3, <1>c, <1>s DEF Ends, SameRecall, Counted, s2
<1>4. CASE Gives(s, s2)
  <2> DEFINE e == Opened(s.cur, s.held, RingOf(s), bin[s.cur].scope)
  <2>1. e.file = s.cur
    BY DEF Opened
  <2>2. /\ s.pc = "held" /\ SameRecall(s, s2) /\ s2.pc = "scan"
        /\ s2.failed = s.failed /\ s2.out = s.out \cup {e}
    BY <1>4 DEF Gives
  <2> HIDE DEF e
  <2>3. s.cur \in Pending(s)
    BY <1>c, <2>2 DEF Counted
  <2>4. s.cur \in s.listed /\ e \notin s.out
    BY <2>1, <2>3 DEF Pending, FilesOf
  <2>5. FilesOf(s2.out) = FilesOf(s.out) \cup {s.cur}
    BY <2>1, <2>2 DEF FilesOf
  <2>6. Pending(s2) = Pending(s) \ {s.cur}
    BY <2>2, <2>5 DEF Pending, SameRecall
  <2>7. IsFiniteSet(s.out)
    BY <1>c DEF Counted
  <2>8. /\ IsFiniteSet(s2.out) /\ Cardinality(s2.out) \in Nat
        /\ Cardinality(Pending(s2)) \in Nat
        /\ Cardinality(s2.out) + Cardinality(Pending(s2))
             = Cardinality(s.out) + Cardinality(Pending(s))
    <3>0. /\ IsFiniteSet(s.out \cup {e})
          /\ Cardinality(s.out \cup {e}) = Cardinality(s.out) + 1
      BY <2>4, <2>7, FS_AddElement
    <3>1. IsFiniteSet(s2.out) /\ Cardinality(s2.out) = Cardinality(s.out) + 1
      BY <2>2, <3>0
    <3>2. Cardinality(Pending(s2)) = Cardinality(Pending(s)) - 1
      BY <1>p, <2>3, <2>6, FS_RemoveElement
    <3>3. Cardinality(Pending(s2)) \in Nat
      BY <1>p, <2>6, FS_RemoveElement, FS_CardinalityType
    <3> QED
      BY <1>p, <3>1, <3>2, <3>3
  <2>9. Cardinality(s2.out) + Cardinality(s2.failed) + Cardinality(Pending(s2))
          = Cardinality(s2.listed)
    <3>1. Cardinality(s.out) + Cardinality(s.failed) + Cardinality(Pending(s))
            = Cardinality(s2.listed)
      BY <1>c, <2>2 DEF Counted, SameRecall
    <3> QED BY <1>p, <2>2, <2>8, <3>1
  <2>10. FilesOf(s2.out) \cup FilesOf(s2.failed) \subseteq s2.listed
    BY <1>c, <2>2, <2>4, <2>5 DEF SameRecall, Counted
  <2> QED
    BY <1>c, <2>2, <2>8, <2>9, <2>10 DEF SameRecall, Counted, s2
<1>5. CASE Names(s, s2)
  <2>2. PICK x : /\ Fails(s, x) /\ SameRecall(s, s2) /\ s2.pc = "scan"
                 /\ s2.out = s.out /\ s2.failed = s.failed \cup {x}
    BY <1>5 DEF Names
  <2>3. x.file \in Pending(s)
    BY <1>c, <2>2 DEF Fails, Counted
  <2>4. x.file \in s.listed /\ x \notin s.failed
    BY <2>3 DEF Pending, FilesOf
  <2>5. FilesOf(s2.failed) = FilesOf(s.failed) \cup {x.file}
    BY <2>2 DEF FilesOf
  <2>6. Pending(s2) = Pending(s) \ {x.file}
    BY <2>2, <2>5 DEF Pending, SameRecall
  <2>7. IsFiniteSet(s.failed)
    BY <1>c DEF Counted
  <2>8. /\ IsFiniteSet(s2.failed) /\ Cardinality(s2.failed) \in Nat
        /\ Cardinality(Pending(s2)) \in Nat
        /\ Cardinality(s2.failed) + Cardinality(Pending(s2))
             = Cardinality(s.failed) + Cardinality(Pending(s))
    <3>0. /\ IsFiniteSet(s.failed \cup {x})
          /\ Cardinality(s.failed \cup {x}) = Cardinality(s.failed) + 1
      BY <2>4, <2>7, FS_AddElement
    <3>1. IsFiniteSet(s2.failed) /\ Cardinality(s2.failed) = Cardinality(s.failed) + 1
      BY <2>2, <3>0
    <3>2. Cardinality(Pending(s2)) = Cardinality(Pending(s)) - 1
      BY <1>p, <2>3, <2>6, FS_RemoveElement
    <3>3. Cardinality(Pending(s2)) \in Nat
      BY <1>p, <2>6, FS_RemoveElement, FS_CardinalityType
    <3> QED
      BY <1>p, <3>1, <3>2, <3>3
  <2>9. Cardinality(s2.out) + Cardinality(s2.failed) + Cardinality(Pending(s2))
          = Cardinality(s2.listed)
    <3>1. Cardinality(s.out) + Cardinality(s.failed) + Cardinality(Pending(s))
            = Cardinality(s2.listed)
      BY <1>c, <2>2 DEF Counted, SameRecall
    <3> QED BY <1>p, <2>2, <2>8, <3>1
  <2>10. FilesOf(s2.out) \cup FilesOf(s2.failed) \subseteq s2.listed
    BY <1>c, <2>2, <2>4, <2>5 DEF SameRecall, Counted
  <2> QED
    BY <1>c, <2>2, <2>8, <2>9, <2>10 DEF SameRecall, Counted, s2
<1> QED
  BY <1>m, <1>1, <1>2, <1>3, <1>4, <1>5 DEF Moves

LEMMA ReaderLabels ==
  ASSUME RInv, NEW r \in Reader, LabelledWith(rd[r]), Moves(rd[r], rd'[r])
  PROVE  LabelledWith(rd'[r])
<1> DEFINE s == rd[r]
           s2 == rd'[r]
<1>c. LabelledWith(s) /\ Moves(s, s2)
  OBVIOUS
<1>t. s.optin \in BOOLEAN
  BY DEF RInv, RTypeOK, ReaderState
<1> HIDE DEF s, s2
<1>1. CASE Begins(s2) \/ Rests(s2)
  BY <1>1 DEF Begins, Rests, Blank, LabelledWith, s2
<1>2. CASE Reads(s, s2) \/ Ends(s, s2) \/ Names(s, s2)
  BY <1>2, <1>c DEF Reads, Ends, Names, SameRecall, LabelledWith, s2
<1>3. CASE Gives(s, s2)
  <2> DEFINE e == Opened(s.cur, s.held, RingOf(s), bin[s.cur].scope)
  <2>1. /\ SameRecall(s, s2) /\ s2.out = s.out \cup {e}
        /\ Opens(s.held, RingOf(s), s.optin)
    BY <1>3 DEF Gives, HeldOpens
  <2>2. /\ e.obj = s.held /\ e.trust = TrustOf(s.held, RingOf(s))
        /\ e.authorship = AuthorshipOf(s.held, RingOf(s))
        /\ e.author = AuthorKidOf(s.held, RingOf(s))
    BY DEF Opened
  <2> HIDE DEF e
  <2>3. s.ring # Live => RingOf(s) = s.ring /\ s.optin = FALSE
    BY <1>c, <1>t DEF RingOf, LabelledWith
  <2> QED
    BY <1>c, <2>1, <2>2, <2>3 DEF SameRecall, LabelledWith, s2
<1> QED
  BY <1>c, <1>1, <1>2, <1>3 DEF Moves

LEMMA HeldInit == RInit => HeldSound
<1> SUFFICES ASSUME RInit PROVE HeldSound
  OBVIOUS
<1>1. IsFiniteSet({}) /\ Cardinality({}) = 0
  BY FS_EmptySet
<1>2. {f \in ObjId : bin[f] # NoFile} = {}
  BY DEF RInit, Init
<1>3. FilesAreFinite
  BY <1>1, <1>2 DEF FilesAreFinite
<1>4. ASSUME NEW r \in Reader
      PROVE  Counted(rd[r]) /\ LabelledWith(rd[r])
  <2>1. rd[r] = AtRest("none")
    BY DEF RInit
  <2>2. /\ rd[r].pc = "off" /\ rd[r].listed = {} /\ rd[r].out = {}
        /\ rd[r].failed = {} /\ rd[r].ring = Live
    BY <2>1 DEF AtRest
  <2>3. /\ FilesOf(rd[r].out) = {} /\ FilesOf(rd[r].failed) = {}
        /\ Pending(rd[r]) = {}
    BY <2>2 DEF FilesOf, Pending
  <2> QED
    BY <1>1, <2>2, <2>3 DEF Counted, LabelledWith
<1> QED
  BY <1>3, <1>4 DEF HeldSound

LEMMA HeldNext == RInv /\ HeldSound /\ [RNext]_rvars => HeldSound'
<1> SUFFICES ASSUME RInv, HeldSound, [RNext]_rvars PROVE HeldSound'
  OBVIOUS
<1>t. /\ TypeOK /\ FilesAreFinite
      /\ \A r \in Reader : Counted(rd[r]) /\ LabelledWith(rd[r])
  BY DEF RInv, RTypeOK, HeldSound
<1>1. CASE [Next]_vars /\ rd' = rd
  <2>1. FilesAreFinite'
    BY <1>1, <1>t, FinitelyManyStay
  <2>2. \A r \in Reader : Counted(rd'[r]) /\ LabelledWith(rd'[r])
    BY <1>1, <1>t
  <2> QED
    BY <2>1, <2>2 DEF HeldSound, Counted, LabelledWith, Pending
<1>2. ASSUME NEW r \in Reader, ReadStep(r)
      PROVE  HeldSound'
  <2>1. /\ UNCHANGED vars
        /\ \A q \in Reader \ {r} : rd'[q] = rd[q]
        /\ Moves(rd[r], rd'[r])
    BY <1>2, ReaderMoves
  <2>2. Counted(rd'[r]) /\ LabelledWith(rd'[r])
    BY <1>t, <2>1, ReaderCounts, ReaderLabels
  <2>3. \A q \in Reader : Counted(rd'[q]) /\ LabelledWith(rd'[q])
    BY <1>t, <2>1, <2>2
  <2>4. FilesAreFinite'
    BY <1>t, <2>1 DEF FilesAreFinite, vars
  <2> QED
    BY <2>3, <2>4 DEF HeldSound
<1> QED
  BY <1>1, <1>2 DEF RNext, rvars

\* Whatever happens to the directory meanwhile, a reader accounts for every
\* file it listed, and labels what it gives with the keyring it captured.
THEOREM HeldIsSound == RSpec => []HeldSound
<1>1. RInit => RInv /\ HeldSound
  BY RInvInit, HeldInit
<1>2. (RInv /\ HeldSound) /\ [RNext]_rvars => (RInv /\ HeldSound)'
  BY RInvNext, HeldNext
<1> QED
  BY <1>1, <1>2, PTL DEF RSpec

-----------------------------------------------------------------------------
(* The record.                                                             *)

LEMMA SeqsOf ==
  ASSUME NEW S, IsFiniteSet(S), NEW q \in SetToSeqs(S)
  PROVE  q \in Seq(S) /\ Len(q) = Cardinality(S)
<1>1. Cardinality(S) \in Nat
  BY FS_CardinalityType
<1>2. q \in [1 .. Cardinality(S) -> S]
  BY DEF SetToSeqs
<1> QED
  BY <1>1, <1>2

\* The number of those left out under one reason.
Excluded(s, reason, w) ==
  Cardinality({x \in s.failed : FailureReason(x) = w})
  + Cardinality({e \in DOMAIN reason : reason[e] = w})

\* What a record says, field by field.
Describes(record, s, delivered, reason) ==
  /\ record.trust_snapshot_digest = SnapshotOf(s.ring)
  /\ record.delivered = [i \in 1 .. Len(delivered) |->
       [position |-> i - 1, entry |-> DeliveredEntry(delivered[i])]]
  /\ record.exclusions.total
       = Excluded(s, reason, "authentication_failed")
         + Excluded(s, reason, "schema_invalid")
         + Excluded(s, reason, "policy_filtered")
         + Excluded(s, reason, "context_limit")

LEMMA RecordFields ==
  ASSUME NEW s, NEW S, NEW delivered \in Seq(S), NEW reason
  PROVE  Describes(Record(s, delivered, reason), s, delivered, reason)
<1> DEFINE n == Len(delivered)
           count == [w \in Reasons |->
             Cardinality({x \in s.failed : FailureReason(x) = w})
             + Cardinality({e \in DOMAIN reason : reason[e] = w})]
           frames == [i \in 1 .. n |->
             build_fragment_v0(DeliveredObject(delivered[i]))]
           entries == [i \in 1 .. n |-> DeliveredEntry(delivered[i])]
           unsigned == assemble_record(SnapshotOf(s.ring), entries, frames, count)
           record == Record(s, delivered, reason)
<1>1. record = sign_record(unsigned, Adapter, AdapterId)
  BY DEF Record
<1>2. n \in Nat /\ Len(entries) = n
  OBVIOUS
<1>3. /\ unsigned.trust_snapshot_digest = SnapshotOf(s.ring)
      /\ unsigned.exclusions.total
           = count["authentication_failed"] + count["schema_invalid"]
             + count["policy_filtered"] + count["context_limit"]
      /\ {"trust_snapshot_digest", "delivered", "exclusions"}
           \subseteq DOMAIN unsigned \ {"proof"}
  BY DEF assemble_record
<1>4. unsigned.delivered = [i \in 1 .. n |->
                              [position |-> i - 1, entry |-> entries[i]]]
  BY <1>2 DEF assemble_record
<1>5. \A w \in Reasons : count[w] = Excluded(s, reason, w)
  BY DEF Excluded
<1> HIDE DEF unsigned, record, count
<1>6. \A m \in DOMAIN unsigned : m # "proof" => record[m] = unsigned[m]
  BY <1>1 DEF sign_record
<1>7. /\ record.trust_snapshot_digest = unsigned.trust_snapshot_digest
      /\ record.exclusions = unsigned.exclusions
      /\ record.delivered = unsigned.delivered
  BY <1>3, <1>6
<1>8. record.delivered = [i \in 1 .. n |->
        [position |-> i - 1, entry |-> DeliveredEntry(delivered[i])]]
  BY <1>4, <1>7
<1>9. record.exclusions.total
         = Excluded(s, reason, "authentication_failed")
           + Excluded(s, reason, "schema_invalid")
           + Excluded(s, reason, "policy_filtered")
           + Excluded(s, reason, "context_limit")
  BY <1>3, <1>5, <1>7 DEF Reasons
<1> QED
  BY <1>3, <1>7, <1>8, <1>9 DEF Describes, record

LEMMA RecordsOf ==
  ASSUME NEW s, IsFiniteSet(s.out), NEW record \in Records(s)
  PROVE  \E dropped \in SUBSET s.out :
           \E delivered \in Seq(s.out \ dropped),
              reason \in [dropped -> {"policy_filtered", "context_limit"}] :
             /\ Describes(record, s, delivered, reason)
             /\ Len(delivered) = Cardinality(s.out \ dropped)
<1> DEFINE Made(dropped) ==
             {Record(s, delivered, reason) :
                delivered \in SetToSeqs(s.out \ dropped),
                reason \in [dropped -> {"policy_filtered", "context_limit"}]}
<1>1. PICK dropped \in SUBSET s.out : record \in Made(dropped)
  <2>1. record \in UNION {Made(dropped) : dropped \in SUBSET s.out}
    BY DEF Records
  <2> HIDE DEF Made
  <2> QED BY <2>1
<1>2. PICK delivered \in SetToSeqs(s.out \ dropped),
           reason \in [dropped -> {"policy_filtered", "context_limit"}] :
        record = Record(s, delivered, reason)
  BY <1>1
<1>3. IsFiniteSet(s.out \ dropped)
  BY FS_Difference
<1>4. /\ delivered \in Seq(s.out \ dropped)
      /\ Len(delivered) = Cardinality(s.out \ dropped)
  BY <1>3, SeqsOf
<1>5. Describes(record, s, delivered, reason)
  BY <1>2, <1>4, RecordFields
<1> QED
  BY <1>4, <1>5

LEMMA PartCount ==
  ASSUME NEW A, NEW B, IsFiniteSet(A \cup B), A \cap B = {}
  PROVE  /\ Cardinality(A) \in Nat /\ Cardinality(B) \in Nat
         /\ Cardinality(A) + Cardinality(B) = Cardinality(A \cup B)
<1>1. IsFiniteSet(A) /\ IsFiniteSet(B)
  BY FS_Subset
<1>2. Cardinality(A \cup B)
        = Cardinality(A) + Cardinality(B) - Cardinality(A \cap B)
  BY <1>1, FS_Union
<1>3. Cardinality(A \cap B) = 0
  BY FS_EmptySet
<1>4. Cardinality(A) \in Nat /\ Cardinality(B) \in Nat
  BY <1>1, FS_CardinalityType
<1> QED
  BY <1>2, <1>3, <1>4

\* Of what was left out, each was left out under one reason.
LEMMA ExcludedOnce ==
  ASSUME NEW s, IsFiniteSet(s.failed), NEW dropped, IsFiniteSet(dropped),
         NEW reason \in [dropped -> {"policy_filtered", "context_limit"}]
  PROVE  Excluded(s, reason, "authentication_failed")
           + Excluded(s, reason, "schema_invalid")
           + Excluded(s, reason, "policy_filtered")
           + Excluded(s, reason, "context_limit")
         = Cardinality(s.failed) + Cardinality(dropped)
<1> DEFINE Failed(w) == {x \in s.failed : FailureReason(x) = w}
           Drops(w) == {e \in DOMAIN reason : reason[e] = w}
           F1 == Failed("authentication_failed")
           F2 == Failed("schema_invalid")
           D1 == Drops("policy_filtered")
           D2 == Drops("context_limit")
<1>1. /\ \A x : FailureReason(x) \in {"authentication_failed", "schema_invalid"}
      /\ DOMAIN reason = dropped
      /\ \A e \in dropped : reason[e] \in {"policy_filtered", "context_limit"}
  BY DEF FailureReason
<1>2. /\ F1 \cup F2 = s.failed /\ F1 \cap F2 = {}
      /\ Failed("policy_filtered") = {} /\ Failed("context_limit") = {}
  BY <1>1
<1>3. /\ D1 \cup D2 = dropped /\ D1 \cap D2 = {}
      /\ Drops("authentication_failed") = {} /\ Drops("schema_invalid") = {}
  BY <1>1
<1>4. Cardinality({}) = 0
  BY FS_EmptySet
<1>5. /\ Excluded(s, reason, "authentication_failed") = Cardinality(F1) + 0
      /\ Excluded(s, reason, "schema_invalid") = Cardinality(F2) + 0
      /\ Excluded(s, reason, "policy_filtered") = 0 + Cardinality(D1)
      /\ Excluded(s, reason, "context_limit") = 0 + Cardinality(D2)
  BY <1>2, <1>3, <1>4 DEF Excluded
<1> HIDE DEF F1, F2, D1, D2
<1>6. IsFiniteSet(F1 \cup F2) /\ IsFiniteSet(D1 \cup D2)
  BY <1>2, <1>3
<1>7. /\ Cardinality(F1) \in Nat /\ Cardinality(F2) \in Nat
      /\ Cardinality(F1) + Cardinality(F2) = Cardinality(F1 \cup F2)
  BY <1>2, <1>6, PartCount
<1>8. /\ Cardinality(D1) \in Nat /\ Cardinality(D2) \in Nat
      /\ Cardinality(D1) + Cardinality(D2) = Cardinality(D1 \cup D2)
  BY <1>3, <1>6, PartCount
<1>9. /\ Cardinality(F1) + Cardinality(F2) = Cardinality(s.failed)
      /\ Cardinality(D1) + Cardinality(D2) = Cardinality(dropped)
  BY <1>2, <1>3, <1>7, <1>8
<1> QED
  BY <1>5, <1>7, <1>8, <1>9

\* Every candidate the adapter listed is delivered once or counted once, for
\* any directory and whatever is written, removed from the keyring or migrated
\* while it was read.
THEOREM CandidatesAreCounted == RSpec => []EveryCandidateOnce
<1>1. HeldSound => EveryCandidateOnce
  <2> SUFFICES ASSUME HeldSound, NEW r \in Reader, Captured(r),
                      NEW record \in Records(rd[r])
               PROVE  Len(record.delivered) + record.exclusions.total
                        = Cardinality(rd[r].listed)
    BY DEF EveryCandidateOnce
  <2> DEFINE s == rd[r]
  <2>1. Counted(s) /\ s.pc = "done"
    BY DEF HeldSound, Captured
  <2> HIDE DEF s
  <2>2. /\ IsFiniteSet(s.out) /\ IsFiniteSet(s.failed) /\ Pending(s) = {}
        /\ Cardinality(s.out) + Cardinality(s.failed) + Cardinality({})
             = Cardinality(s.listed)
    BY <2>1 DEF Counted
  <2>3. PICK dropped \in SUBSET s.out :
          \E delivered \in Seq(s.out \ dropped),
             reason \in [dropped -> {"policy_filtered", "context_limit"}] :
            /\ Describes(record, s, delivered, reason)
            /\ Len(delivered) = Cardinality(s.out \ dropped)
    BY <2>2, RecordsOf DEF s
  <2>4. PICK delivered \in Seq(s.out \ dropped),
             reason \in [dropped -> {"policy_filtered", "context_limit"}] :
          /\ Describes(record, s, delivered, reason)
          /\ Len(delivered) = Cardinality(s.out \ dropped)
    BY <2>3
  <2>5. IsFiniteSet(dropped)
    BY <2>2, FS_Subset
  <2>6. record.exclusions.total = Cardinality(s.failed) + Cardinality(dropped)
    BY <2>2, <2>4, <2>5, ExcludedOnce DEF Describes
  <2>7. Len(record.delivered) = Cardinality(s.out \ dropped)
    <3>1. record.delivered = [i \in 1 .. Len(delivered) |->
            [position |-> i - 1, entry |-> DeliveredEntry(delivered[i])]]
      BY <2>4 DEF Describes
    <3>2. Len(delivered) \in Nat
      BY <2>4
    <3>3. Len(record.delivered) = Len(delivered)
      BY <3>1, <3>2
    <3> QED BY <2>4, <3>3
  <2>8. /\ Cardinality(s.out \ dropped) \in Nat /\ Cardinality(dropped) \in Nat
        /\ Cardinality(s.out \ dropped) + Cardinality(dropped)
             = Cardinality(s.out)
    <3>1. /\ (s.out \ dropped) \cup dropped = s.out
          /\ (s.out \ dropped) \cap dropped = {}
      OBVIOUS
    <3>2. IsFiniteSet((s.out \ dropped) \cup dropped)
      BY <2>2, <3>1
    <3>3. /\ Cardinality(s.out \ dropped) \in Nat
          /\ Cardinality(dropped) \in Nat
          /\ Cardinality(s.out \ dropped) + Cardinality(dropped)
               = Cardinality((s.out \ dropped) \cup dropped)
      BY <3>1, <3>2, PartCount
    <3> QED BY <3>1, <3>3
  <2>9. Cardinality({}) = 0 /\ Cardinality(s.failed) \in Nat
    BY <2>2, FS_EmptySet, FS_CardinalityType
  <2> QED
    BY <2>2, <2>6, <2>7, <2>8, <2>9 DEF s
<1> QED
  BY <1>1, HeldIsSound, PTL

\* No two keys share a key id, which are the first 8 bytes of a hash.
KeyIdsApart == \A k1, k2 \in Key : KeyIdOf[k1] = KeyIdOf[k2] => k1 = k2

\* The committed key ids determine the keyring.
LEMMA SnapshotDetermines ==
  ASSUME KeyIdsApart, NEW ring \in Keyring, NEW ring2 \in Keyring,
         WellFiled(ring), WellFiled(ring2), SnapshotOf(ring) = SnapshotOf(ring2)
  PROVE  ring = ring2
<1>1. {k \in Kid : ring[k] # None} = {k \in Kid : ring2[k] # None}
  BY DEF SnapshotOf, trust_snapshot_commitment, build_trust_snapshot_v1,
         sha256_commitment
<1>2. ASSUME NEW k \in Kid
      PROVE  ring[k] = ring2[k]
  <2>1. CASE ring[k] = None
    BY <1>1, <2>1
  <2>2. CASE ring[k] # None
    <3>1. ring2[k] # None
      BY <1>1, <2>2
    <3>2. ring[k] \in Key /\ ring2[k] \in Key
      BY <2>2, <3>1 DEF Keyring
    <3>3. KeyIdOf[ring[k]] = k /\ KeyIdOf[ring2[k]] = k
      BY <2>2, <3>1 DEF WellFiled
    <3> QED
      BY <3>2, <3>3 DEF KeyIdsApart
  <2> QED
    BY <2>1, <2>2
<1> QED
  BY <1>2 DEF Keyring

\* Whatever was accepted or revoked while the objects were read, whoever holds
\* a keyring with the committed key ids opens every delivered object with
\* exactly the delivered labels.
THEOREM LabelsAreExplained ==
  ASSUME KeyIdsApart
  PROVE  RSpec => []SnapshotExplainsLabels
<1>1. RInv /\ HeldSound => SnapshotExplainsLabels
  <2> SUFFICES ASSUME RInv, HeldSound, NEW r \in Reader, Captured(r),
                      NEW record \in Records(rd[r]),
                      NEW i \in DOMAIN record.delivered, NEW ring \in Keyring,
                      WellFiled(ring),
                      SnapshotOf(ring) = record.trust_snapshot_digest
               PROVE  LET entry == record.delivered[i].entry
                          o == entry.sealed_object_digest[2]
                      IN  /\ Opens(o, ring, FALSE)
                          /\ entry.labels.derived_trust = TrustOf(o, ring)
                          /\ entry.labels.authorship = AuthorshipOf(o, ring)
                          /\ entry.labels.author_key_id = AuthorKidOf(o, ring)
    BY DEF SnapshotExplainsLabels
  <2> DEFINE s == rd[r]
  <2>1. /\ Counted(s) /\ LabelledWith(s) /\ s.ring # Live
        /\ s.ring \in Keyring /\ WellFiled(s.ring)
    BY DEF HeldSound, Captured, RInv, RTypeOK, ReaderState, ReadersSound,
           ReaderSound
  <2> HIDE DEF s
  <2>2. IsFiniteSet(s.out)
    BY <2>1 DEF Counted
  <2>3. PICK dropped \in SUBSET s.out :
          \E delivered \in Seq(s.out \ dropped),
             reason \in [dropped -> {"policy_filtered", "context_limit"}] :
            /\ Describes(record, s, delivered, reason)
            /\ Len(delivered) = Cardinality(s.out \ dropped)
    BY <2>2, RecordsOf DEF s
  <2>4. PICK delivered \in Seq(s.out \ dropped),
             reason \in [dropped -> {"policy_filtered", "context_limit"}] :
          Describes(record, s, delivered, reason)
    BY <2>3
  <2>5. /\ record.trust_snapshot_digest = SnapshotOf(s.ring)
        /\ record.delivered = [j \in 1 .. Len(delivered) |->
             [position |-> j - 1, entry |-> DeliveredEntry(delivered[j])]]
    BY <2>4 DEF Describes
  <2>6. ring = s.ring
    BY <2>1, <2>5, SnapshotDetermines
  <2>7. /\ delivered[i] \in s.out
        /\ record.delivered[i].entry = DeliveredEntry(delivered[i])
    BY <2>4, <2>5
  <2> DEFINE e == delivered[i]
  <2>8. /\ Opens(e.obj, ring, FALSE) /\ e.trust = TrustOf(e.obj, ring)
        /\ e.authorship = AuthorshipOf(e.obj, ring)
        /\ e.author = AuthorKidOf(e.obj, ring)
    BY <2>1, <2>6, <2>7 DEF LabelledWith
  <2> HIDE DEF e
  <2>9. /\ DeliveredEntry(e).sealed_object_digest[2] = e.obj
        /\ DeliveredEntry(e).labels.derived_trust = e.trust
        /\ DeliveredEntry(e).labels.authorship = e.authorship
        /\ DeliveredEntry(e).labels.author_key_id = e.author
    BY DEF DeliveredEntry, DeliveredObject, sha256_commitment
  <2>10. record.delivered[i].entry = DeliveredEntry(e)
    BY <2>7 DEF e
  <2> QED
    BY <2>8, <2>9, <2>10
<1> QED
  BY <1>1, ReadersStaySound, HeldIsSound, PTL

-----------------------------------------------------------------------------
(* The test vectors.                                                       *)

\* What becomes of a format 2 object whose AEAD and signature were made over
\* the envelope it is read from.
LEMMA PlacedResult ==
  ASSUME NEW o, NEW ring, o.ver = 2, o.aead = AadOf(o), o.sigAad = AadOf(o),
         o.signer \in Key, o.custody.kind # "malformed"
  PROVE  LET verified == /\ o.signer \in Candidates(ring)
                         /\ o.author = KeyIdOf[o.signer]
             honoured == /\ o.signer = Owner /\ o.custody.proven # None
                         /\ o.custody.proven \in Accepted(ring)
         IN  /\ ~verified \/ o.hdr \notin {None, o.author} =>
                  Result(o, ring) = Refused
             /\ verified /\ o.hdr \in {None, o.author} =>
                  Result(o, ring) =
                    IF o.custody.kind = "absent"
                    THEN Told(IF o.signer = Owner THEN "self" ELSE "trusted",
                              "signed", o.author)
                    ELSE IF honoured
                         THEN Told("trusted", "attested", o.custody.proven)
                         ELSE Told("unverified", "unknown", None)
<1> DEFINE verified == /\ o.signer \in Candidates(ring)
                       /\ o.author = KeyIdOf[o.signer]
<1>0. Owner # None /\ o.signer # None
  BY KeyAssumption
<1>1. Authenticates(o, ring) <=> verified
  BY DEF Authenticates, verify_signature
<1>2. Opens(o, ring, FALSE) <=> verified /\ o.hdr \in {None, o.author}
  BY <1>1 DEF Opens, Decrypts, SUPPORTED_VERSIONS
<1>3. CASE ~verified \/ o.hdr \notin {None, o.author}
  BY <1>2, <1>3 DEF Result
<1>4. CASE verified /\ o.hdr \in {None, o.author}
  <2>1. VerifiedBy(o, ring) = o.signer
    BY <1>1, <1>4 DEF VerifiedBy
  <2>2. Opens(o, ring, FALSE)
    BY <1>2, <1>4
  <2>3. CASE o.custody.kind = "absent"
    <3>1. /\ TrustOf(o, ring) = IF o.signer = Owner THEN "self" ELSE "trusted"
          /\ AuthorshipOf(o, ring) = "signed"
          /\ AuthorKidOf(o, ring) = o.author
      BY <1>0, <2>1, <2>3 DEF TrustOf, AuthorshipOf, AuthorKidOf
    <3> QED
      BY <1>4, <2>2, <2>3, <3>1 DEF Result
  <2>4. CASE o.custody.kind # "absent"
    <3>1. Honoured(o, ring) <=> /\ o.signer = Owner /\ o.custody.proven # None
                                /\ o.custody.proven \in Accepted(ring)
      BY <2>1 DEF Honoured
    <3> QED
      BY <1>4, <2>2, <2>4, <3>1
      DEF Result, TrustOf, AuthorshipOf, AuthorKidOf
  <2> QED
    BY <2>3, <2>4
<1> QED
  BY <1>3, <1>4

\* The keyrings the vectors are opened with.
LEMMA VectorRings ==
  /\ Candidates(NoRing) = {Owner} /\ Accepted(NoRing) = {OK}
  /\ Candidates(OtherKnown) = {Owner, Other}
  /\ Accepted(OtherKnown) = {OK, FK}
  /\ Owner \in Key /\ Other \in Key /\ Other # Owner
  /\ OK \in Kid /\ FK \in Kid /\ OK # FK /\ OK # None /\ FK # None
<1>1. /\ Owner \in Key /\ Other \in Key /\ Other # Owner
      /\ Other # None /\ Owner # None
      /\ OK \in Kid /\ FK \in Kid /\ OK # FK /\ OK # None /\ FK # None
  BY KeyAssumption, VectorAssumption DEF OK, FK
<1>2. \A k \in Kid : /\ NoRing[k] = None
                     /\ OtherKnown[k] = IF k = FK THEN Other ELSE None
  BY <1>1 DEF NoRing, OtherKnown
<1>3. Candidates(NoRing) = {Owner} /\ Accepted(NoRing) = {OK}
  BY <1>2 DEF Candidates, Accepted, OK
<1>4. {OtherKnown[k] : k \in Kid} \ {None} = {Other}
  BY <1>1, <1>2
<1>5. {k \in Kid : OtherKnown[k] # None} = {FK}
  BY <1>1, <1>2
<1> QED
  BY <1>1, <1>3, <1>4, <1>5 DEF Candidates, Accepted, OK

\* seal() and a hand-made format 2 object are placed where they are read.
LEMMA VectorsPlaced ==
  ASSUME NEW signer, NEW hdr, NEW author, NEW custody
  PROVE  /\ LET o == raw_object(signer, hdr, author, 2, custody)
            IN  /\ o.ver = 2 /\ o.aead = AadOf(o) /\ o.sigAad = AadOf(o)
                /\ o.signer = signer /\ o.hdr = hdr /\ o.author = author
                /\ o.custody = custody
         /\ LET o == seal(Owner, Fresh(Probe), custody, OID, SCOPE_ID)
            IN  /\ o.ver = 2 /\ o.aead = AadOf(o) /\ o.sigAad = AadOf(o)
                /\ o.signer = Owner /\ o.hdr = OK /\ o.author = OK
                /\ o.custody = custody
BY DEF raw_object, seal, AadOf, envelope_aad, FORMAT_VERSION, OK

\* An object with a rewritten envelope, or downgraded, is refused whatever the
\* keyring and with opt-in as well.
LEMMA RewrittenIsRefused ==
  \A ring, optin :
    /\ ~Opens([Sealed003 EXCEPT !.id = RewrittenId, !.scope = RewrittenScope],
              ring, optin)
    /\ ~Opens([Sealed003 EXCEPT !.ver = 1], ring, optin)
<1>1. \A ring, optin :
        ~Opens([Sealed003 EXCEPT !.id = RewrittenId, !.scope = RewrittenScope],
               ring, optin)
  <2> DEFINE o == [Sealed003 EXCEPT !.id = RewrittenId, !.scope = RewrittenScope]
  <2>1. /\ o.ver = 2 /\ o.aead = <<2, OID, SCOPE_ID>>
        /\ o.id = RewrittenId /\ o.scope = RewrittenScope
    BY DEF Sealed003, seal, envelope_aad, FORMAT_VERSION
  <2> HIDE DEF o
  <2>2. ~Decrypts(o)
    BY <2>1, VectorAssumption DEF Decrypts, AadOf, envelope_aad
  <2> QED
    BY <2>2 DEF Opens, o
<1>2. \A ring, optin : ~Opens([Sealed003 EXCEPT !.ver = 1], ring, optin)
  <2> DEFINE o == [Sealed003 EXCEPT !.ver = 1]
  <2>1. o.ver = 1 /\ o.aead = <<2, OID, SCOPE_ID>>
    BY DEF Sealed003, seal, envelope_aad, FORMAT_VERSION
  <2> HIDE DEF o
  <2>2. ~Decrypts(o)
    BY <2>1 DEF Decrypts, AadOf, LegacyAad
  <2> QED
    BY <2>2 DEF Opens, o
<1> QED
  BY <1>1, <1>2

\* The outcome of each vector.
LEMMA VectorOutcomes == OutcomesAgree
<1>r. /\ Candidates(NoRing) = {Owner} /\ Accepted(NoRing) = {OK}
      /\ Candidates(OtherKnown) = {Owner, Other}
      /\ Accepted(OtherKnown) = {OK, FK}
      /\ Owner \in Key /\ Other \in Key /\ Other # Owner
      /\ OK # FK /\ OK # None /\ FK # None
      /\ KeyIdOf[Owner] = OK /\ KeyIdOf[Other] = FK
  BY VectorRings DEF OK, FK
<1>s. Stranger # OK
  BY VectorAssumption DEF OK
<1>3. Result(Sealed003, NoRing) = Told("self", "signed", OK)
  BY <1>r, VectorsPlaced, PlacedResult DEF Sealed003, NoCustody
<1>4. Result(raw_object(Other, OK, OK, 2, NoCustody), OtherKnown) = Refused
  BY <1>r, VectorsPlaced, PlacedResult DEF NoCustody
<1>7. Result(InCustody(CustodyOf(FK, FK)), OtherKnown)
        = Told("trusted", "attested", FK)
  BY <1>r, VectorsPlaced, PlacedResult DEF InCustody, CustodyOf
<1>8. Result(InCustody(CustodyOf(FK, None)), NoRing)
        = Told("unverified", "unknown", None)
  BY <1>r, VectorsPlaced, PlacedResult DEF InCustody, CustodyOf
<1>9. Result(raw_object(Owner, OK, OK, 1, NoCustody), NoRing) = Refused
  BY DEF Result, Opens, Authenticates, raw_object
<1>10. Result(raw_object(Owner, FK, OK, 2, NoCustody), NoRing) = Refused
  BY <1>r, VectorsPlaced, PlacedResult DEF NoCustody
<1>11. Result(raw_object(Other, FK, FK, 2, CustodyOf(FK, OK)), OtherKnown)
         = Told("unverified", "unknown", None)
  BY <1>r, VectorsPlaced, PlacedResult DEF CustodyOf
<1>12. Result(raw_object(Owner, OK, OK, 2, CustodyOf(OK, Stranger)), NoRing)
         = Told("unverified", "unknown", None)
  BY <1>r, <1>s, VectorsPlaced, PlacedResult DEF CustodyOf
<1>13. Result(raw_object(Owner, OK, OK, 2, NoCustody), NoRing)
         = Told("self", "signed", OK)
  BY <1>r, VectorsPlaced, PlacedResult DEF NoCustody
<1>14. Result(raw_object(Owner, OK, OK, 2, EmptyCustody), NoRing)
         = Told("unverified", "unknown", None)
  <2>1. EmptyCustody.kind = "empty" /\ EmptyCustody.proven = None
    BY DEF EmptyCustody, NoCustody
  <2> QED
    BY <1>r, <2>1, VectorsPlaced, PlacedResult
<1>15. \A ring :
         /\ Result([Sealed003 EXCEPT !.id = RewrittenId,
                                     !.scope = RewrittenScope], ring) = Refused
         /\ Result([Sealed003 EXCEPT !.ver = 1], ring) = Refused
  BY RewrittenIsRefused DEF Result
<1> QED
  BY <1>3, <1>4, <1>7, <1>8, <1>9, <1>10, <1>11, <1>12, <1>13, <1>14, <1>15
  DEF OutcomesAgree, Vectors

\* A format 1 object opens under opt-in only, as nobody's.
LEMMA LegacyResult ==
  ASSUME NEW hdr
  PROVE  LET o == raw_object(Owner, hdr, OK, 1, NoCustody)
         IN  /\ Opens(o, NoRing, TRUE) /\ ~Opens(o, NoRing, FALSE)
             /\ TrustOf(o, NoRing) = "unverified"
<1> DEFINE o == raw_object(Owner, hdr, OK, 1, NoCustody)
<1>1. /\ o.ver = 1 /\ o.aead = LegacyAad /\ o.custody.kind = "absent"
  BY DEF raw_object, NoCustody
<1> HIDE DEF o
<1>2. ~Authenticates(o, NoRing) /\ Decrypts(o)
  BY <1>1 DEF Authenticates, Decrypts, AadOf
<1>3. Opens(o, NoRing, TRUE) /\ ~Opens(o, NoRing, FALSE)
  BY <1>1, <1>2 DEF Opens, SUPPORTED_VERSIONS
<1>4. TrustOf(o, NoRing) = "unverified"
  BY <1>1, <1>2, KeyAssumption DEF TrustOf, VerifiedBy
<1> QED
  BY <1>3, <1>4 DEF o

\* The object of release 0.1 migrates to the object of vector 003.
LEMMA LegacyMigrates == Reseal(LegacyVector, NoRing, SCOPE_ID) = Sealed003
<1> DEFINE o == LegacyVector
           candidates == [NoRing EXCEPT ![KeyIdOf[Owner]] = Owner]
<1>1. /\ o.ver = 1 /\ o.sigAad = LegacyAad /\ o.signer = Owner
      /\ o.author = KeyIdOf[Owner] /\ o.id = OID
      /\ Rebuilt(o) = Fresh(Probe)
  BY DEF LegacyVector, raw_object, OK, Rebuilt, Fresh
<1>2. KeyIdOf[Owner] \in Kid /\ Owner # None
  BY KeyAssumption
<1>3. candidates[KeyIdOf[Owner]] = Owner
  BY <1>2 DEF NoRing
<1> HIDE DEF o, candidates
<1>4. verify_legacy_author(o, NoRing) = Owner
  BY <1>1, <1>2, <1>3 DEF verify_legacy_author, candidates
<1>5. Reseal(o, NoRing, SCOPE_ID)
        = seal(Owner, Fresh(Probe), NoCustody, OID, SCOPE_ID)
  BY <1>1, <1>4 DEF Reseal
<1> QED
  BY <1>5 DEF o, Sealed003

\* Every vector has its expected outcome, whatever the keys, ids, scopes and
\* contents in it are, and three of them are refused with opt-in as well,
\* whatever keys the vault at hand has accepted.
THEOREM VectorsAlwaysAgree == RSpec => []VectorsAgree
<1>1. LegacyNeedsOptIn
  <2>1. \A o \in {v.obj : v \in {w \in Vectors : w.of = 9}} \cup {LegacyVector} :
          \E hdr : o = raw_object(Owner, hdr, OK, 1, NoCustody)
    BY DEF Vectors, LegacyVector
  <2>2. Result(Sealed003, NoRing) = Told("self", "signed", OK)
    BY VectorOutcomes DEF OutcomesAgree, Vectors
  <2> QED
    BY <2>1, <2>2, LegacyResult, LegacyMigrates DEF LegacyNeedsOptIn
<1>2. \A v \in Vectors : v.of \in {5, 6, 10} => ~Opens(v.obj, known, TRUE)
  <2>1. ~Opens(raw_object(Owner, FK, OK, 2, NoCustody), known, TRUE)
    BY VectorRings, VectorsPlaced DEF Opens
  <2>2. ~Opens([Sealed003 EXCEPT !.id = RewrittenId, !.scope = RewrittenScope],
               known, TRUE)
    BY RewrittenIsRefused
  <2>3. ~Opens([Sealed003 EXCEPT !.ver = 1], known, TRUE)
    BY RewrittenIsRefused
  <2>4. ASSUME NEW v \in Vectors, v.of \in {5, 6, 10}
        PROVE  v.obj \in
                 {[Sealed003 EXCEPT !.id = RewrittenId, !.scope = RewrittenScope],
                  [Sealed003 EXCEPT !.ver = 1],
                  raw_object(Owner, FK, OK, 2, NoCustody)}
    BY <2>4 DEF Vectors
  <2> QED
    BY <2>1, <2>2, <2>3, <2>4
<1>3. VectorsAgree
  BY <1>1, <1>2, VectorOutcomes DEF VectorsAgree
<1> QED
  BY <1>3, PTL
=============================================================================
