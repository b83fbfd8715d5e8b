----------------------------- MODULE TestVectors -----------------------------
(***************************************************************************)
(* The normative test vectors of format 2, 003 to 014                      *)
(* (src/test-vectors/v2/generate.py), and the format 1 object of vector    *)
(* 001 (src/test-vectors/gen_testvectors.py), against the operators of     *)
(* SealedObject.                                                           *)
(***************************************************************************)
EXTENDS VaultTrust

CONSTANTS
  Other,      \* the third party's signing key
  Stranger,   \* a key id nobody accepted: deadbeefdeadbeef, or "author01"
  OID, SCOPE_ID,        \* the fixed object and scope
  RewrittenId, RewrittenScope,
  Probe       \* the content

ASSUME VectorAssumption ==
  /\ Other \in Key /\ KeyIdOf[Other] # KeyIdOf[Owner]
  /\ Stranger # KeyIdOf[Owner]
  /\ <<RewrittenId, RewrittenScope>> # <<OID, SCOPE_ID>>

OK == KeyIdOf[Owner]
FK == KeyIdOf[Other]

\* An object made at the COSE level, whatever seal() would refuse to make.
raw_object(signer, header_kid, payload_author_kid, version, custody) ==
  LET aad == IF version >= 2 THEN envelope_aad(version, OID, SCOPE_ID)
             ELSE LegacyAad
  IN  [id |-> OID, scope |-> SCOPE_ID, ver |-> version,
       aead |-> aad, hdr |-> header_kid, signer |-> signer, sigAad |-> aad,
       author |-> payload_author_kid, memory |-> Fresh(Probe),
       custody |-> custody, sealable |-> TRUE, textual |-> TRUE]

Sealed003 == seal(Owner, Fresh(Probe), NoCustody, OID, SCOPE_ID)
InCustody(custody) == seal(Owner, Fresh(Probe), custody, OID, SCOPE_ID)

NoRing == [k \in Kid |-> None]
OtherKnown == [NoRing EXCEPT ![FK] = Other]

Refused == [result |-> "reject"]
Told(trust, authorship, author) ==
  [result |-> "open", trust |-> trust, authorship |-> authorship,
   author_key_id |-> author]

\* The empty custody map of vector 014.
EmptyCustody == [NoCustody EXCEPT !.kind = "empty"]

\* What each vector gives to open_sealed, and what it says must come of it.
Vectors ==
  {[of |-> 3, obj |-> Sealed003, ring |-> NoRing,
    expect |-> Told("self", "signed", OK)],
   [of |-> 4, obj |-> raw_object(Other, OK, OK, 2, NoCustody),
    ring |-> OtherKnown, expect |-> Refused],
   [of |-> 5, ring |-> NoRing, expect |-> Refused,
    obj |-> [Sealed003 EXCEPT !.id = RewrittenId, !.scope = RewrittenScope]],
   [of |-> 6, ring |-> NoRing, expect |-> Refused,
    obj |-> [Sealed003 EXCEPT !.ver = 1]],
   [of |-> 7, obj |-> InCustody(CustodyOf(FK, FK)), ring |-> OtherKnown,
    expect |-> Told("trusted", "attested", FK)],
   [of |-> 8, obj |-> InCustody(CustodyOf(FK, None)), ring |-> NoRing,
    expect |-> Told("unverified", "unknown", None)],
   [of |-> 9, obj |-> raw_object(Owner, OK, OK, 1, NoCustody), ring |-> NoRing,
    expect |-> Refused],
   [of |-> 10, obj |-> raw_object(Owner, FK, OK, 2, NoCustody), ring |-> NoRing,
    expect |-> Refused],
   [of |-> 11, obj |-> raw_object(Other, FK, FK, 2, CustodyOf(FK, OK)),
    ring |-> OtherKnown, expect |-> Told("unverified", "unknown", None)],
   [of |-> 12, obj |-> raw_object(Owner, OK, OK, 2, CustodyOf(OK, Stranger)),
    ring |-> NoRing, expect |-> Told("unverified", "unknown", None)],
   [of |-> 13, obj |-> raw_object(Owner, OK, OK, 2, NoCustody), ring |-> NoRing,
    expect |-> Told("self", "signed", OK)],
   [of |-> 14, obj |-> raw_object(Owner, OK, OK, 2, EmptyCustody),
    ring |-> NoRing, expect |-> Told("unverified", "unknown", None)]}

Result(o, ring) ==
  IF Opens(o, ring, FALSE)
  THEN Told(TrustOf(o, ring), AuthorshipOf(o, ring), AuthorKidOf(o, ring))
  ELSE Refused

\* The object of vector 001 of release 0.1: its header kid is "author01".
LegacyVector == raw_object(Owner, Stranger, OK, 1, NoCustody)

\* The parts of VectorsAgree that no vault has a say in.
OutcomesAgree == \A v \in Vectors : Result(v.obj, v.ring) = v.expect
LegacyNeedsOptIn ==
  /\ \A o \in {v.obj : v \in {w \in Vectors : w.of = 9}} \cup {LegacyVector} :
       /\ Opens(o, NoRing, TRUE) /\ ~Opens(o, NoRing, FALSE)
       /\ TrustOf(o, NoRing) = "unverified"
  /\ Result(Reseal(LegacyVector, NoRing, SCOPE_ID), NoRing)
       = Told("self", "signed", OK)

\* Every vector has its expected outcome; vector 009 and the object of release
\* 0.1 open under opt-in only, as unverified, and the latter migrates to an
\* object like 003; a rewritten envelope, a downgrade and an inconsistent kid
\* (5, 6, 10) are refused with opt-in as well, whatever keys are accepted.
VectorsAgree ==
  /\ OutcomesAgree /\ LegacyNeedsOptIn
  /\ \A v \in Vectors : v.of \in {5, 6, 10} => ~Opens(v.obj, known, TRUE)
=============================================================================
