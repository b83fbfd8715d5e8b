----------------------------- MODULE Projection -----------------------------
(***************************************************************************)
(* The producer of MEMORY-PROJECTION-RECORD-v1                             *)
(* (src/interop/emilia/projection_producer.py): what it writes into a      *)
(* record for the objects an adapter opened.  The producer keeps no state: *)
(* its functions are operators, and the properties speak of every record   *)
(* it can make of what a reader of Recall holds.                           *)
(*                                                                         *)
(* The adapter is not in the repository; projection-v1-producer-spec       *)
(* section 5 says what it does: capture the keyring once, open every       *)
(* candidate with it, choose, count each exclusion under one reason.       *)
(*                                                                         *)
(* A digest is the bytes it commits to, an encoding the value it encodes.  *)
(***************************************************************************)
EXTENDS Recall, SequencesExt

CONSTANTS
  Adapter,    \* the adapter's signing key
  AdapterId   \* adapter_key_id

sha256_commitment(data) == <<"sha256:", data>>

-----------------------------------------------------------------------------
(* Fragments.                                                              *)

DeliveredObject(e) ==
  [derived_trust |-> e.trust, authorship |-> e.authorship,
   author_key_id |-> e.author, custody_present |-> e.custody_present,
   body |-> e.obj.memory.body]
build_fragment_v0(d) ==
  <<d.derived_trust, d.authorship,
    IF d.author_key_id = None THEN "none" ELSE d.author_key_id,
    d.custody_present, d.body>>
fragment_commitment(fragment) == sha256_commitment(fragment)

-----------------------------------------------------------------------------
(* The trust snapshot: key ids only, each once, in the order of their      *)
(* bytes, which is a set.                                                  *)

\* Faulty: the owner's id alone.
SnapshotOfTheOwner(owner_key_id, accepted_key_ids) ==
  <<"cbor", [owner |-> owner_key_id, accepted |-> {}]>>
build_trust_snapshot_v1(owner_key_id, accepted_key_ids) ==
  <<"cbor", [owner |-> owner_key_id, accepted |-> accepted_key_ids]>>
trust_snapshot_commitment(owner_key_id, accepted_key_ids) ==
  sha256_commitment(build_trust_snapshot_v1(owner_key_id, accepted_key_ids))

\* The snapshot of a keyring known_keys returned.
SnapshotOf(ring) ==
  trust_snapshot_commitment(KeyIdOf[Owner], {k \in Kid : ring[k] # None})

-----------------------------------------------------------------------------
(* The record and its signature.                                           *)

RECORD_VERSION == "MEMORY-PROJECTION-RECORD-v1"
SIGNING_DOMAIN == RECORD_VERSION
NONCLAIMS ==
  [c \in {"model_use", "action_linkage", "action_authorization",
          "execution_outcome"} |-> "NOT_ESTABLISHED"]
jcs_canonicalize(value) == <<"jcs", value>>

DeliveredEntry(e) ==
  [format_version |-> e.obj.ver,
   sealed_object_digest |-> sha256_commitment(e.obj),
   context_fragment_digest |->
     fragment_commitment(build_fragment_v0(DeliveredObject(e))),
   labels |-> DeliveredObject(e)]

Reasons ==
  {"authentication_failed", "schema_invalid", "policy_filtered",
   "context_limit"}

\* Members set by the caller and compared with nothing are left out.
\* Faulty: the reason added last is not in the total.
AssembleForgettingTheLimit(snapshot, delivered, bytes, excluded) ==
  [version |-> RECORD_VERSION, adapter |-> AdapterId,
   trust_snapshot_digest |-> snapshot,
   delivered |-> [i \in 1 .. Len(delivered) |->
                    [position |-> i - 1, entry |-> delivered[i]]],
   exclusions |->
     [by_reason |-> excluded,
      total |-> excluded["authentication_failed"]
                + excluded["schema_invalid"] + excluded["policy_filtered"]],
   projection |-> sha256_commitment(bytes),
   nonclaims |-> NONCLAIMS]
assemble_record(snapshot, delivered, bytes, excluded) ==
  [version |-> RECORD_VERSION, adapter |-> AdapterId,
   trust_snapshot_digest |-> snapshot,
   delivered |-> [i \in 1 .. Len(delivered) |->
                    [position |-> i - 1, entry |-> delivered[i]]],
   exclusions |->
     [by_reason |-> excluded,
      total |-> excluded["authentication_failed"]
                + excluded["schema_invalid"] + excluded["policy_filtered"]
                + excluded["context_limit"]],
   projection |-> sha256_commitment(bytes),
   nonclaims |-> NONCLAIMS]

signing_input(record) ==
  <<SIGNING_DOMAIN,
    jcs_canonicalize([m \in DOMAIN record \ {"proof"} |-> record[m]])>>
sign_record(record, key, key_id) ==
  [m \in DOMAIN record \cup {"proof"} |->
     IF m = "proof"
     THEN [key_id |-> key_id, signature |-> <<key, signing_input(record)>>]
     ELSE record[m]]

-----------------------------------------------------------------------------
(* The adapter (external).                                                 *)

Captured(r) == rd[r].pc = "done" /\ rd[r].ring # Live

\* An exclusion of what could not be opened.
FailureReason(x) ==
  IF x.obj \in Sealed /\ x.obj.ver \in SUPPORTED_VERSIONS
  THEN "authentication_failed" ELSE "schema_invalid"

\* The records that can be made of what r holds: some of the entries in some
\* order, every other counted under one reason.
Record(s, delivered, reason) ==
  LET count == [w \in Reasons |->
                  Cardinality({x \in s.failed : FailureReason(x) = w})
                  + Cardinality({e \in DOMAIN reason : reason[e] = w})]
      frames == [i \in 1 .. Len(delivered) |->
                   build_fragment_v0(DeliveredObject(delivered[i]))]
      entries == [i \in 1 .. Len(delivered) |-> DeliveredEntry(delivered[i])]
  IN  sign_record(
        assemble_record(SnapshotOf(s.ring), entries, frames, count),
        Adapter, AdapterId)
Records(s) ==
  UNION {{Record(s, delivered, reason) :
            delivered \in SetToSeqs(s.out \ dropped),
            reason \in [dropped -> {"policy_filtered", "context_limit"}]} :
           dropped \in SUBSET s.out}

-----------------------------------------------------------------------------
(* Properties.                                                             *)

\* The snapshot explains the labels: whatever was accepted or revoked while
\* the objects were read, any keyring with the committed key ids, whoever
\* holds it, opens every delivered object with exactly the delivered labels.
SnapshotExplainsLabels ==
  \A r \in Reader : Captured(r) =>
    \A record \in Records(rd[r]) :
      \A i \in DOMAIN record.delivered :
        LET entry == record.delivered[i].entry
            o == entry.sealed_object_digest[2]
        IN  \A ring \in Keyring :
              (WellFiled(ring) /\ SnapshotOf(ring) = record.trust_snapshot_digest)
                => /\ Opens(o, ring, FALSE)
                   /\ entry.labels.derived_trust = TrustOf(o, ring)
                   /\ entry.labels.authorship = AuthorshipOf(o, ring)
                   /\ entry.labels.author_key_id = AuthorKidOf(o, ring)

\* Every candidate the adapter listed is delivered once or counted once.
EveryCandidateOnce ==
  \A r \in Reader : Captured(r) =>
    \A record \in Records(rd[r]) :
      Len(record.delivered) + record.exclusions.total
        = Cardinality(rd[r].listed)
=============================================================================
