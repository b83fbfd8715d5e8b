---------------------------- MODULE SealedObject ----------------------------
(***************************************************************************)
(* The sealed object of src/src/amem/objects.py: what seal() writes, when  *)
(* open_sealed() returns content, and the trust, authorship and author it  *)
(* derives for it.  Pure operators, no state.                              *)
(*                                                                         *)
(* Cryptography is symbolic.  A signature is the pair (signer, AAD it was  *)
(* made over); it verifies under a key iff that key signed and the AAD     *)
(* presented is the one signed.  An AEAD ciphertext decrypts iff the AAD   *)
(* presented is the one it was made over (the DEK is modelled by the vault *)
(* module).  key_id is the first 8 bytes of a hash: KeyIdOf is any         *)
(* function, and two keys may share an id.                                 *)
(***************************************************************************)
EXTENDS Integers

CONSTANTS
  Key,        \* Ed25519 public signing keys
  Kid,        \* 8-byte key ids
  KeyIdOf,    \* key_id as a function
  Owner,      \* the key of the vault's identity
  ObjId,      \* 16-byte object ids
  ScopeId,    \* 16-byte scope ids
  Body,       \* what a memory says: fields 1 and 2 and the extensions
  None        \* Python's None, an absent map field

ASSUME KeyAssumption ==
  /\ Owner \in Key
  /\ KeyIdOf \in [Key -> Kid]
  /\ None \notin Key \cup Kid

(***************************************************************************)
(* A sealed object, flattened: the cleartext envelope (id, scope, ver),    *)
(* the AAD its AEAD was made over, the protected header kid, the signature *)
(* (signer, sigAad), and the signed payload (author, memory, custody,      *)
(* sealable, textual).  signer = None is a signature no key made.  Two     *)
(* flags mark payloads open_sealed passes through: sealable is FALSE for   *)
(* one payload_map refuses (a content that is not a non-empty string, an   *)
(* unknown type), textual for one whose content or tags are not strings.   *)
(***************************************************************************)
FORMAT_VERSION == 2
SUPPORTED_VERSIONS == {1, 2}
Version == 1 .. 3                        \* 3: written by some later producer

LegacyAad == <<>>
\* Faulty: the same for every scope.
EnvelopeAadWithoutScope(ver, id, scope) ==
  <<ver, id, CHOOSE s \in ScopeId : TRUE>>
envelope_aad(ver, id, scope) == <<ver, id, scope>>
Aad == {LegacyAad} \cup ({FORMAT_VERSION} \X ObjId \X ScopeId)

\* "empty" is a map with no entries, "malformed" one open_sealed raises on.
Custody == [kind    : {"record"},
            claimed : Kid \cup {None},
            proven  : Kid \cup {None}]
           \cup [kind : {"absent", "empty", "malformed"},
                 claimed : {None}, proven : {None}]
NoCustody == [kind |-> "absent", claimed |-> None, proven |-> None]
CustodyOf(claimed, proven) ==
  [kind |-> "record", claimed |-> claimed, proven |-> proven]

\* The other fields of the payload, by what migrate tells apart.  "own": what
\* the producer wrote.  session is 4.3, updated 7.2 of the schema.
Memory == [body : Body,
           confidence : {"own", "invalid", "default"},
           tool : {"own", "absent", "amem"}, session : {"own", "absent"},
           tags : {"own", "str"},
           created : {"own", "absent", "now"}, updated : {"own", "absent"}]
\* payload_map of a new object: no session, no time of update.
Fresh(body) ==
  [body |-> body, confidence |-> "own", tool |-> "own", session |-> "absent",
   tags |-> "own", created |-> "own", updated |-> "absent"]

Sealed == [id : ObjId, scope : ScopeId, ver : Version,
           aead : Aad, hdr : Kid \cup {None},
           signer : Key \cup {None}, sigAad : Aad,
           author : Kid \cup {None}, memory : Memory,
           custody : Custody, sealable : BOOLEAN, textual : BOOLEAN]

\* Sealing always writes format 2 and signs the envelope and the author.
seal(by, memory, custody, id, scope) ==
  LET aad == envelope_aad(FORMAT_VERSION, id, scope)
  IN  [id |-> id, scope |-> scope, ver |-> FORMAT_VERSION,
       aead |-> aad, hdr |-> KeyIdOf[by],
       signer |-> by, sigAad |-> aad,
       author |-> KeyIdOf[by], memory |-> memory,
       custody |-> custody, sealable |-> TRUE, textual |-> TRUE]

(***************************************************************************)
(* Authentication: objects.py 148-201.                                     *)
(***************************************************************************)
Keyring == [Kid -> Key \cup {None}]      \* known_keys; None: no entry
Accepted(known_keys) == {k \in Kid : known_keys[k] # None} \cup {KeyIdOf[Owner]}
Candidates(known_keys) == {Owner} \cup ({known_keys[k] : k \in Kid} \ {None})

AadOf(o) ==
  IF o.ver >= 2 THEN envelope_aad(o.ver, o.id, o.scope) ELSE LegacyAad

Decrypts(o) == o.aead = AadOf(o)
verify_signature(o, key) == o.signer = key /\ o.sigAad = AadOf(o)

\* The candidate that authenticates o.  Only the signer's own key can, and
\* only if its key id is the author id the payload claims.
Authenticates(o, known_keys) ==
  /\ o.ver >= 2
  /\ \E key \in Candidates(known_keys) :
       KeyIdOf[key] = o.author /\ verify_signature(o, key)
VerifiedBy(o, known_keys) == IF Authenticates(o, known_keys) THEN o.signer ELSE None

\* open_sealed returns a result: no SignatureError, no ValueError, and no
\* exception out of a custody field that is not a well-formed map.
Opens(o, known_keys, allow_unverified) ==
  /\ o.ver \in SUPPORTED_VERSIONS
  /\ Decrypts(o)
  /\ o.ver >= 2 => o.hdr \in {None, o.author}
  /\ Authenticates(o, known_keys) \/ allow_unverified
  /\ o.custody.kind # "malformed"

(***************************************************************************)
(* What an opened object reports: 207-231 and _provenance, 259-284.        *)
(***************************************************************************)
\* Faulty: any verified signer can attest.
HonouredFromAnyone(o, known_keys) ==
  /\ VerifiedBy(o, known_keys) # None
  /\ o.custody.proven \in Accepted(known_keys)
Honoured(o, known_keys) ==
  /\ VerifiedBy(o, known_keys) = Owner
  /\ o.custody.proven # None
  /\ o.custody.proven \in Accepted(known_keys)

\* Faulty: the signature alone decides.
TrustIgnoringCustody(o, known_keys) ==
  CASE VerifiedBy(o, known_keys) = None  -> "unverified"
    [] VerifiedBy(o, known_keys) = Owner -> "self"
    [] OTHER                        -> "trusted"
TrustOf(o, known_keys) ==
  IF o.custody.kind # "absent"
  THEN IF Honoured(o, known_keys) THEN "trusted" ELSE "unverified"
  ELSE CASE VerifiedBy(o, known_keys) = None  -> "unverified"
         [] VerifiedBy(o, known_keys) = Owner -> "self"
         [] OTHER                        -> "trusted"

AuthorshipOf(o, known_keys) ==
  IF o.custody.kind = "absent" THEN "signed"
  ELSE IF Honoured(o, known_keys) THEN "attested" ELSE "unknown"
\* Faulty: an attestation that is not honoured is reported.
AuthorKidOfUnpopped(o, known_keys) ==
  IF o.custody.kind = "absent" THEN o.author ELSE o.custody.proven
AuthorKidOf(o, known_keys) ==
  IF o.custody.kind = "absent" THEN o.author
  ELSE IF Honoured(o, known_keys) THEN o.custody.proven ELSE None

(***************************************************************************)
(* Migration of one format 1 object: verify_legacy_author (287-312) and    *)
(* the decision in Vault.migrate (vault.py 159-194).                       *)
(***************************************************************************)
\* candidates is the keyring with the owner's own id always naming the owner.
verify_legacy_author(o, keyring) ==
  LET candidates == [keyring EXCEPT ![KeyIdOf[Owner]] = Owner]
  IN  IF /\ o.ver = 1
         /\ o.sigAad = LegacyAad
         /\ o.signer # None
         /\ o.author = KeyIdOf[o.signer]
         /\ \E k \in Kid : candidates[k] = o.signer
      THEN o.signer
      ELSE None

\* The calls migrate makes before it decides do not raise.
Migratable(o, keyring) == Opens(o, keyring, TRUE)

OutcomeOf(o, keyring, quarantine) ==
  LET verifier == verify_legacy_author(o, keyring)
  IN  CASE verifier = Owner                   -> "migrated"
        [] verifier \notin {Owner, None}      -> "attributed"
        [] verifier = None /\ quarantine      -> "quarantined"
        [] verifier = None /\ ~quarantine     -> "refused"

\* The memory migrate rebuilds from what open_sealed returned: an invalid
\* confidence is 0.8, a missing tool "amem", a missing time of creation now,
\* tags are str()'d; open_sealed returns no session and no time of update.
Rebuilt(o) ==
  LET m == o.memory
  IN  [body |-> m.body,
       confidence |-> IF m.confidence = "invalid" THEN "default"
                      ELSE m.confidence,
       tool |-> IF m.tool = "absent" THEN "amem" ELSE m.tool,
       session |-> "absent",
       tags |-> IF o.textual THEN m.tags ELSE "str",
       created |-> IF m.created = "absent" THEN "now" ELSE m.created,
       updated |-> "absent"]

\* Faulty: the owner's own objects get a custody record too.
ResealAlwaysInCustody(o, keyring, scope) ==
  LET verifier == verify_legacy_author(o, keyring)
  IN  seal(Owner, Rebuilt(o),
           CustodyOf(AuthorKidOf(o, keyring),
                     IF verifier = None THEN None ELSE KeyIdOf[verifier]),
           o.id, scope)
\* Faulty: a plain format conversion.
ResealWithoutCustody(o, keyring, scope) ==
  seal(Owner, Rebuilt(o), NoCustody, o.id, scope)
\* Faulty: the claimed author is recorded as proven.
ResealProvingTheClaim(o, keyring, scope) ==
  LET verifier == verify_legacy_author(o, keyring)
      custody  == IF verifier = Owner THEN NoCustody
                  ELSE CustodyOf(AuthorKidOf(o, keyring), o.author)
  IN  seal(Owner, Rebuilt(o), custody, o.id, scope)
Reseal(o, keyring, scope) ==
  LET verifier == verify_legacy_author(o, keyring)
      custody  == IF verifier = Owner THEN NoCustody
                  ELSE CustodyOf(AuthorKidOf(o, keyring),
                                 IF verifier = None THEN None
                                 ELSE KeyIdOf[verifier])
  IN  seal(Owner, Rebuilt(o), custody, o.id, scope)

=============================================================================
