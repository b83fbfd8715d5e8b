---------------------------- MODULE MCVaultTrust ----------------------------
(***************************************************************************)
(* Instances of VaultTrust for TLC.  friend and twin share a key id: ids   *)
(* are truncated hashes.                                                   *)
(***************************************************************************)
EXTENDS VaultTrust

CONSTANTS owner, friend, twin, ko, kf, s1, b1, b2

MCKeyIdOf == [key \in Key |-> IF key = owner THEN ko ELSE kf]

Base(f) ==
  [id |-> f, scope |-> s1, ver |-> 1, aead |-> LegacyAad, hdr |-> None,
   signer |-> None, sigAad |-> LegacyAad, author |-> None,
   memory |-> Fresh(b1), custody |-> NoCustody,
   sealable |-> TRUE, textual |-> TRUE]
\* A memory none of whose fields but the body outlives a migration.
Odd(b) ==
  [body |-> b, confidence |-> "invalid", tool |-> "absent", session |-> "own",
   tags |-> "own", created |-> "absent", updated |-> "own"]

CustodyForms ==
  {NoCustody, CustodyOf(kf, ko), CustodyOf(ko, kf),
   [kind |-> "malformed", claimed |-> None, proven |-> None]}

Bound(f) == envelope_aad(FORMAT_VERSION, f, s1)

Legacy ==
  {[Base(f) EXCEPT !.signer = key, !.author = kid, !.custody = c] :
     f \in ObjId, key \in Key \cup {None}, kid \in Kid \cup {None},
     c \in CustodyForms \ {CustodyOf(kf, ko)}}
Unusual ==
  {[Base(f) EXCEPT !.signer = key, !.author = MCKeyIdOf[key],
                   !.memory = Odd(b), !.textual = FALSE] :
     f \in ObjId, key \in Key, b \in Body}
Unsealable ==
  {[Base(f) EXCEPT !.signer = key, !.author = MCKeyIdOf[key],
                   !.sealable = FALSE] : f \in ObjId, key \in Key}
Modern ==
  LET forms ==
        {[Base(f) EXCEPT !.ver = 2, !.aead = Bound(f), !.sigAad = aad,
                         !.signer = key, !.author = kid, !.custody = c] :
           f \in ObjId, aad \in {LegacyAad} \cup {Bound(g) : g \in ObjId},
           key \in Key \cup {None}, kid \in Kid, c \in CustodyForms}
  IN  forms \cup {[o EXCEPT !.hdr = kf] :
                      o \in {x \in forms : x.custody = NoCustody}}
Later == {[o EXCEPT !.ver = 3] : o \in {Base(f) : f \in ObjId}}

Honest(o) == o.signer = Owner => LegacyCore(o)

\* Every form of object, for one file.
EveryForm ==
  {o \in Legacy \cup Unusual \cup Unsealable \cup Modern \cup Later :
     Honest(o)}
\* The version downgraded, or the scope changed.
EveryEnvelope ==
  {[id |-> f, scope |-> s, ver |-> v] :
     f \in ObjId, s \in ScopeId, v \in {1, 2}}

\* What a migration can meet: an object of the owner in one file; in the
\* other one provable under friend, not provable, or not readable, each saying
\* something else than the owner's.  Format 2 already is what the owner seals.
Mine == CHOOSE f \in ObjId : TRUE
MigrationForms ==
  {[Base(Mine) EXCEPT !.signer = owner, !.author = ko]}
  \cup {[Base(f) EXCEPT !.signer = friend, !.author = kf, !.memory = Odd(b2)] :
          f \in ObjId \ {Mine}}
  \cup {[Base(f) EXCEPT !.author = kf, !.memory = Fresh(b2),
                        !.custody.kind = k] :
          f \in ObjId \ {Mine}, k \in {"absent", "malformed"}}

\* One object of each outcome, for two processes at work on one file.
RaceForms ==
  {[Base(f) EXCEPT !.signer = key, !.author = MCKeyIdOf[key]] :
     f \in ObjId, key \in {owner, friend}}
  \cup {[Base(f) EXCEPT !.author = kf] : f \in ObjId}
NoEnvelope == {}

\* Bounds of the runs.  The owner's own key is not also accepted as a third
\* party's: such an entry changes no label (OwnerEntryIsRedundant).
OwnerIsNoThirdParty ==
  known[ko] = None /\ \A a \in Admin : adm[a].ring[ko] = None
\* The owner seals one thing only; others say it too, or something else.
OwnerSaysOneThing == <<owner, b2>> \notin authored
\* Every DEK that arrives is wrapped under some scope, which in trust_forms need
\* not be its object's.  A seal_object may be half done: the owner's own are the
\* only objects of format 2 signed by the owner.
HalfSealed(f) ==
  \/ bin[f] = Torn
  \/ bin[f] \in Sealed /\ bin[f].ver = 2 /\ bin[f].signer = Owner
DeksUnwrap ==
  \A f \in ObjId : bin[f] # NoFile => dek[f] # None \/ HalfSealed(f)
=============================================================================
