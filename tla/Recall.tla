------------------------------- MODULE Recall -------------------------------
(***************************************************************************)
(* Reading a vault that others are writing: Vault.open_all and, over it,   *)
(* amem_recall of the MCP server, beside the actions of VaultTrust.        *)
(*                                                                         *)
(* open_object reads vault.cbor and a .bin, then (_dek_for) the .bin again *)
(* for its scope, vault.cbor, the .dek and known_keys.  A reader holds the *)
(* first .bin in one step and does the rest in another, so a migration, a  *)
(* revocation or a misfiled envelope may come between.  An object whose    *)
(* .bin or .dek is not written yet is excluded, and so is every object     *)
(* while vault.cbor is truncated.                                          *)
(***************************************************************************)
EXTENDS VaultTrust

CONSTANTS
  Reader,     \* processes that read the vault
  Live        \* the keyring of a reader that looks it up for each object

ASSUME LiveAssumption == Live \notin Keyring

VARIABLE rd   \* the locals of each reader

rvars == <<vars, rd>>

NoKeys == [k \in Kid |-> None]

\* What open_sealed returned for the object in file f: the labels, and the
\* scope open_object adds to them.
Entry ==
  [file : ObjId, obj : Sealed, scope : ScopeId,
   trust : {"self", "trusted", "unverified"},
   authorship : {"signed", "attested", "unknown"},
   author : Kid \cup {None}, custody_present : BOOLEAN]
Opened(f, o, ring, scope) ==
  [file |-> f, obj |-> o, scope |-> scope,
   trust |-> TrustOf(o, ring), authorship |-> AuthorshipOf(o, ring),
   author |-> AuthorKidOf(o, ring),
   custody_present |-> o.custody.kind = "record"]

\* An excluded object, by whether vault.cbor could not be read or the object.
Failure == [file : ObjId, obj : File, why : {"vault", "object"}]

\* own is a ghost: the owner's own among the files listed, by OwnFiles below.
ReaderState ==
  [pc : {"off", "scan", "held", "done"},
   optin : BOOLEAN, ring : Keyring \cup {Live},
   listed : SUBSET ObjId, own : SUBSET ObjId,
   cur : ObjId \cup {None}, held : File,
   out : SUBSET Entry, failed : SUBSET Failure,
   answer : {"none", "memories", "error"}]

AtRest(answer) ==
  [pc |-> "off", optin |-> FALSE, ring |-> Live, listed |-> {},
   own |-> {}, cur |-> None, held |-> NoFile, out |-> {}, failed |-> {},
   answer |-> answer]

RInit == Init /\ rd = [r \in Reader |-> AtRest("none")]

FilesOf(entries) == {e.file : e \in entries}
Pending(s) == s.listed \ (FilesOf(s.out) \cup FilesOf(s.failed))

-----------------------------------------------------------------------------
(* open_all.                                                               *)

\* An object nobody but the owner is needed to read, both files written.
ReadableAsOwn(f, o, optin) ==
  /\ o \in Sealed /\ dek[f] = o.scope
  /\ AuthorOf(o) = Own
  /\ Opens(o, NoKeys, optin)
OwnFiles(optin) == {f \in ObjId : ReadableAsOwn(f, bin[f], optin)}

\* The passphrase is checked against vault.cbor, and the directory listed.
Start(r, optin, ring) ==
  /\ ~torn
  /\ rd[r].pc = "off"
  /\ rd' = [rd EXCEPT ![r] =
       [AtRest("none") EXCEPT !.pc = "scan", !.optin = optin, !.ring = ring,
                              !.listed = {f \in ObjId : bin[f] # NoFile},
                              !.own = OwnFiles(optin)]]
  /\ UNCHANGED vars
open_all(r, optin) == Start(r, optin, Live)
\* A projection adapter (external) captures the keyring once and opens every
\* object with it, as section 5 of projection-v1-producer-spec says.
Capture(r) == Start(r, FALSE, known)

ReadObject(r, f) ==
  /\ ~torn
  /\ rd[r].pc = "scan" /\ f \in Pending(rd[r])
  /\ rd' = [rd EXCEPT ![r].pc = "held", ![r].cur = f, ![r].held = bin[f]]
  /\ UNCHANGED vars

\* unlock raises: not even the .bin is read.
Unavailable(r, f) ==
  /\ torn
  /\ rd[r].pc = "scan" /\ f \in Pending(rd[r])
  /\ rd' = [rd EXCEPT ![r].failed =
               @ \cup {[file |-> f, obj |-> NoFile, why |-> "vault"]}]
  /\ UNCHANGED vars

\* Where the authority over authors is looked up.
RingOf(s) == IF s.ring = Live THEN known ELSE s.ring

\* The object in hand opens, with the scope and the DEK found on disk by now.
HeldOpens(s) ==
  /\ ~torn
  /\ DekOpens(s.cur)
  /\ s.held \in Sealed
  /\ Opens(s.held, RingOf(s), s.optin)

\* Faulty: an exception ends the loop.
OpenHeldEndingTheLoop(r) ==
  LET s == rd[r]
      e == Opened(s.cur, s.held, RingOf(s), bin[s.cur].scope)
      x == [file |-> s.cur, obj |-> s.held,
            why |-> IF torn THEN "vault" ELSE "object"]
  IN  /\ s.pc = "held"
      /\ rd' = [rd EXCEPT ![r] =
           IF HeldOpens(s)
           THEN [s EXCEPT !.pc = "scan", !.cur = None, !.held = NoFile,
                          !.out = @ \cup {e}]
           ELSE [s EXCEPT !.pc = "done", !.cur = None, !.held = NoFile,
                          !.failed = @ \cup {x}]]
      /\ UNCHANGED vars
\* One object is done with; an exception is kept with its id.
OpenHeld(r) ==
  LET s == rd[r]
      e == Opened(s.cur, s.held, RingOf(s), bin[s.cur].scope)
      x == [file |-> s.cur, obj |-> s.held,
            why |-> IF torn THEN "vault" ELSE "object"]
      s2 == [s EXCEPT !.pc = "scan", !.cur = None, !.held = NoFile]
  IN  /\ s.pc = "held"
      /\ rd' = [rd EXCEPT ![r] =
           IF HeldOpens(s) THEN [s2 EXCEPT !.out = @ \cup {e}]
                           ELSE [s2 EXCEPT !.failed = @ \cup {x}]]
      /\ UNCHANGED vars

Opened_all(r) ==
  /\ rd[r].pc = "scan" /\ Pending(rd[r]) = {}
  /\ rd' = [rd EXCEPT ![r].pc = "done"]
  /\ UNCHANGED vars

-----------------------------------------------------------------------------
(* amem_recall: the memories of one scope, or of all, as lines of text.    *)

InScope(entries, scope) ==
  IF scope = None THEN entries ELSE {e \in entries : e.scope = scope}

\* Content and tags are joined outside the isolation of open_all.
amem_recall(r, scope) ==
  /\ rd[r].pc = "done" /\ ~rd[r].optin /\ rd[r].ring = Live
  /\ rd' = [rd EXCEPT ![r] = AtRest(
       IF \A e \in InScope(rd[r].out, scope) : e.obj.textual
       THEN "memories" ELSE "error")]
  /\ UNCHANGED vars

\* A caller of open_all takes the objects as they are.
Return(r) ==
  /\ rd[r].pc = "done"
  /\ rd' = [rd EXCEPT ![r] = AtRest("none")]
  /\ UNCHANGED vars

-----------------------------------------------------------------------------
ReadStep(r) ==
  \/ \E optin \in BOOLEAN : open_all(r, optin)
  \/ Capture(r)
  \/ \E f \in ObjId : ReadObject(r, f) \/ Unavailable(r, f)
  \/ OpenHeld(r)
  \/ Opened_all(r)
  \/ \E scope \in ScopeId \cup {None} : amem_recall(r, scope)
  \/ Return(r)

RNext ==
  \/ Next /\ UNCHANGED rd
  \/ \E r \in Reader : ReadStep(r)

RSpec == RInit /\ [][RNext]_rvars

-----------------------------------------------------------------------------
(* Properties.                                                             *)

RTypeOK == TypeOK /\ rd \in [Reader -> ReaderState]

\* What a reader was given is true although the object, its scope and the
\* keyring were read at different moments: "self" is the owner's statement,
\* "trusted" one by the author named, and without opt-in the object was signed
\* for the envelope it was read in (open_object, open_all).
EntrySound(e, optin, stated, signed) ==
  LET o == e.obj
  IN  /\ e.trust = "self" => <<Owner, o.memory.body>> \in stated
      /\ e.trust = "trusted" =>
           \E key \in Key : /\ KeyIdOf[key] = e.author
                           /\ <<key, o.memory.body>> \in stated
      /\ ~optin => /\ o.signer # None
                   /\ <<o.signer, o.memory, <<o.ver, o.id, o.scope>>>> \in signed
EntriesAttributable ==
  \A r \in Reader :
    \A e \in rd[r].out : EntrySound(e, rd[r].optin, authored, signedAt)

\* The cross-field rules of a delivered entry, which projection-v1-producer-
\* spec section 1.3 says open_sealed satisfies: an unverified memory has no
\* author, an attested one carries its custody record, a verified one an author.
Consistent(e) ==
  /\ e.authorship = "attested" => e.custody_present
  /\ e.trust = "unverified" => e.authorship = "unknown" /\ e.author = None
  /\ e.trust # "unverified" => e.author # None
LabelsConsistent ==
  \A r \in Reader : ~rd[r].optin => \A e \in rd[r].out : Consistent(e)

\* A recall gives or names every object it listed, and an object of the owner
\* that was whole on disk when the recall began is left out only if vault.cbor
\* could not be read when its turn came: no other object, however broken, no
\* seal_object half done and no migration at work beside it takes one away
\* (open_all, 104-113; migrate, 196-198).
OwnIsRecalled ==
  \A r \in Reader :
    /\ \A x \in rd[r].failed : x.file \in rd[r].own => x.why = "vault"
    /\ rd[r].pc = "done" => Pending(rd[r]) = {}

\* mcp_server.py:42, "a single hostile or corrupt object must never take down
\* the whole recall": amem_recall answers with memories.
RecallIsolated == \A r \in Reader : rd[r].answer # "error"

-----------------------------------------------------------------------------
\* The inductive invariant behind EntriesAttributable and LabelsConsistent:
\* what a reader holds is an object whose provenance the ghosts confirm, and a
\* keyring it captured is filed by key id.
ReaderSound(s, stated, signed) ==
  /\ s.pc = "held" => s.cur \in ObjId
  /\ SoundFile(s.held, stated, signed)
  /\ s.ring # Live => WellFiled(s.ring)
  /\ \A e \in s.out : /\ EntrySound(e, s.optin, stated, signed)
                      /\ ~s.optin => Consistent(e)
ReadersSound == \A r \in Reader : ReaderSound(rd[r], authored, signedAt)
=============================================================================
