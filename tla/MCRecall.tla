------------------------------ MODULE MCRecall ------------------------------
(***************************************************************************)
(* Instances of Recall for TLC.                                            *)
(***************************************************************************)
EXTENDS Projection, MCVaultTrust, TestVectors

\* In the first file an object of the owner; in the other one of friend's that
\* a migration may attribute, or one whose text is no text.
RecallForms ==
  {[Base(Mine) EXCEPT !.signer = owner, !.author = ko]}
  \cup UNION {{[Base(f) EXCEPT !.signer = friend, !.author = kf],
               [Base(f) EXCEPT !.ver = 2, !.aead = Bound(f),
                  !.sigAad = Bound(f), !.signer = friend, !.author = kf,
                  !.textual = FALSE]} : f \in ObjId \ {Mine}}

\* Bounds of the run.  The owner seals into the other file, so that a
\* seal_object half done stands beside an object of the owner.
SealsBeside == sealing[Mine] = Unwritten
\* Readers and migrations have the owner's object to work on.
OwnIsThere ==
  bin[Mine] # NoFile \/ /\ \A r \in Reader : rd[r].pc = "off"
                        /\ \A p \in Migrator : mig[p].pc = "off"
\* A key already accepted is not accepted again, and a trust_key that dies over
\* an open vault.cbor, after which nothing is read any more, ends the run.
OneTrustKey ==
  /\ \A a \in Admin : adm[a].pc = "off" \/ known[kf] = None
  /\ torn => \E a \in Admin : adm[a].pc = "open"
\* Migrations know friend's key: what they do with an object they cannot prove
\* is in trust_forms and trust_migrate.
FriendIsProvable ==
  \A p \in Migrator :
    \/ mig[p].pc = "off"
    \/ mig[p].quarantine /\ mig[p].keyring[kf] = friend

\* What is left of a migration when it is over, its report and a tmp file that
\* the next one truncates, is nothing a reader sees; nor is an earlier answer.
Leftover(f) == \A p \in Migrator : ~Rewriting(p, f)
WithoutLeftovers ==
  <<bin, [f \in ObjId |-> IF Leftover(f) THEN NoFile ELSE tmp[f]],
    dek, known, torn, adm, sealing, authored, signedAt,
    [r \in Reader |-> [rd[r] EXCEPT !.answer = "none"]],
    [p \in Migrator |-> [mig[p] EXCEPT !.report = NoReport]]>>
=============================================================================
