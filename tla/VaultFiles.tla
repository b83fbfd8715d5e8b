----------------------------- MODULE VaultFiles -----------------------------
(***************************************************************************)
(* The files of a vault under concurrent commands and crashes              *)
(* (src/src/amem/vault.py: init, add_scope, seal_object, trust_key,        *)
(* export, import_file_into).  A command is a process: the command line    *)
(* runs one per call, every MCP client keeps a server of its own, and they *)
(* share a directory without a lock.                                       *)
(*                                                                         *)
(* What a command reads from vault.cbor before its first write is one      *)
(* step.  Path.write_bytes is two: the file is truncated, then written.    *)
(* Every passphrase is the right one (a wrong one changes nothing).        *)
(***************************************************************************)
EXTENDS FiniteSets

CONSTANTS
  Process,    \* commands that may run at the same time
  Admin,      \* those among them that may change vault.cbor
  CrashAt,    \* the control points at which a command may be killed
  Dir,        \* vault directories, one per device
  Identity,   \* identities: one per random salt
  ScopeKey,   \* scope ids, each with its KEK: os.urandom
  ObjId,      \* object ids: os.urandom
  Name,       \* scope names
  Author,     \* third-party author keys
  None,       \* no such entry
  NoFile,     \* the file does not exist
  Torn        \* a file truncated and not yet written

\* A scope entry: its id and KEK, wrapped for the identity that added it.
Scope == [ident : Identity, key : ScopeKey]

VARIABLES
  meta,       \* <dir>/vault.cbor
  bin,        \* <dir>/objects/<id>.bin: the scope, and the signer, it names
  dek,        \* <dir>/objects/<id>.dek: the scope whose KEK wraps it
  amem,       \* the .amem file that travels between devices
  proc,       \* the locals of each command
  drawn,      \* random values drawn so far
  acked,      \* ghost: objects whose seal_object returned, by directory
  granted,    \* ghost: identity, scope entries, authors vault.cbor once held
  restored    \* ghost: objects an import that returned has promised, by directory

vars == <<meta, bin, dek, amem, proc, drawn, acked, granted, restored>>
disk == <<meta, bin, dek, amem>>
ghosts == <<acked, granted, restored>>

Meta == [ident : Identity, scopes : [Name -> Scope \cup {None}],
         known : SUBSET Author]
ObjFile == Scope \cup {NoFile, Torn}
\* promised (ghost): objects the vault had acknowledged when export started.
Box == [meta : Meta, objs : [ObjId -> ObjFile], deks : [ObjId -> ObjFile],
        promised : SUBSET ObjId]

ASSUME FilesAssumption ==
  /\ Admin \subseteq Process
  /\ \A x \in {None, NoFile, Torn} : x \notin Scope \cup Meta \cup Box
  /\ NoFile # Torn
  /\ "identity" \notin Name /\ "author" \notin Name

Pc == {"off", "meta0", "meta1", "bin0", "bin1", "dek0", "dek1",
       "list", "exbin", "exdek", "out1",
       "bins", "ibin1", "deks", "idek1"}
ProcState ==
  [pc : Pc, dir : Dir \cup {None}, m : Meta \cup {None},
   scope : Scope \cup {None}, obj : ObjId \cup {None},
   todo : SUBSET ObjId, box : Box \cup {None}]
Off == [pc |-> "off", dir |-> None, m |-> None, scope |-> None,
        obj |-> None, todo |-> {}, box |-> None]

NoObjects == [o \in ObjId |-> NoFile]

Init ==
  /\ meta = [d \in Dir |-> NoFile]
  /\ bin = [d \in Dir |-> NoObjects]
  /\ dek = [d \in Dir |-> NoObjects]
  /\ amem = NoFile
  /\ proc = [p \in Process |-> Off]
  /\ drawn = {}
  /\ acked = [d \in Dir |-> {}]
  /\ granted = [d \in Dir |-> {}]
  /\ restored = [d \in Dir |-> {}]

Become(p, s) == proc' = [proc EXCEPT ![p] = s]
Idle(p) == proc[p].pc = "off"

-----------------------------------------------------------------------------
(* vault.cbor: read, change, truncate, write.                              *)

init(p, d, i) ==
  /\ Idle(p) /\ p \in Admin
  /\ meta[d] = NoFile /\ i \notin drawn
  /\ drawn' = drawn \cup {i}
  /\ Become(p, [Off EXCEPT !.pc = "meta0", !.dir = d,
                  !.m = [ident |-> i, scopes |-> [n \in Name |-> None],
                         known |-> {}]])
  /\ UNCHANGED <<disk, ghosts>>

\* Faulty: without the "already exists" check.
AddScopeUnchecked(p, d, n, k) ==
  /\ Idle(p) /\ p \in Admin
  /\ meta[d] \in Meta /\ k \notin drawn
  /\ drawn' = drawn \cup {k}
  /\ Become(p, [Off EXCEPT !.pc = "meta0", !.dir = d,
                  !.m = [meta[d] EXCEPT !.scopes[n] =
                           [ident |-> meta[d].ident, key |-> k]]])
  /\ UNCHANGED <<disk, ghosts>>
\* Faulty: the bare key is stored, not the entry wrapped for the identity.
AddScopeUnwrapped(p, d, n, k) ==
  /\ Idle(p) /\ p \in Admin
  /\ meta[d] \in Meta /\ meta[d].scopes[n] = None
  /\ k \notin drawn
  /\ drawn' = drawn \cup {k}
  /\ Become(p, [Off EXCEPT !.pc = "meta0", !.dir = d,
                  !.m = [meta[d] EXCEPT !.scopes[n] = k]])
  /\ UNCHANGED <<disk, ghosts>>
add_scope(p, d, n, k) ==
  /\ Idle(p) /\ p \in Admin
  /\ meta[d] \in Meta /\ meta[d].scopes[n] = None
  /\ k \notin drawn
  /\ drawn' = drawn \cup {k}
  /\ Become(p, [Off EXCEPT !.pc = "meta0", !.dir = d,
                  !.m = [meta[d] EXCEPT !.scopes[n] =
                           [ident |-> meta[d].ident, key |-> k]]])
  /\ UNCHANGED <<disk, ghosts>>

trust_key(p, d, a) ==
  /\ Idle(p) /\ p \in Admin
  /\ meta[d] \in Meta
  /\ Become(p, [Off EXCEPT !.pc = "meta0", !.dir = d,
                  !.m = [meta[d] EXCEPT !.known = @ \cup {a}]])
  /\ UNCHANGED <<disk, drawn, ghosts>>

TruncateMeta(p) ==
  /\ proc[p].pc = "meta0"
  /\ meta' = [meta EXCEPT ![proc[p].dir] = Torn]
  /\ Become(p, [proc[p] EXCEPT !.pc = "meta1"])
  /\ UNCHANGED <<bin, dek, amem, drawn, ghosts>>

Granted(m) ==
  {<<"identity", m.ident>>}
  \cup {<<n, m.scopes[n]>> : n \in {x \in Name : m.scopes[x] # None}}
  \cup {<<"author", a>> : a \in m.known}

Whole(files) == {o \in ObjId : files[o] # NoFile}

\* _write_meta is done: init, add_scope and trust_key return, an import goes
\* on to the objects.
FillMeta(p) ==
  LET s == proc[p]
  IN  /\ s.pc = "meta1"
      /\ meta' = [meta EXCEPT ![s.dir] = s.m]
      /\ granted' = [granted EXCEPT ![s.dir] = @ \cup Granted(s.m)]
      /\ Become(p, IF s.box = None THEN Off
                   ELSE [s EXCEPT !.pc = "bins", !.todo = Whole(s.box.objs)])
      /\ UNCHANGED <<bin, dek, amem, drawn, acked, restored>>

-----------------------------------------------------------------------------
(* seal_object: .bin, then .dek, then return.                              *)

seal_object(p, d, n, o) ==
  /\ Idle(p)
  /\ meta[d] \in Meta /\ meta[d].scopes[n] # None
  /\ o \notin drawn
  /\ drawn' = drawn \cup {o}
  /\ Become(p, [Off EXCEPT !.pc = "bin0", !.dir = d, !.obj = o,
                           !.scope = meta[d].scopes[n]])
  /\ UNCHANGED <<disk, ghosts>>

\* The next control point of a seal, and what the files hold once there.
WriteBin(p) ==
  LET s == proc[p]
  IN  /\ s.pc \in {"bin0", "bin1"}
      /\ bin' = [bin EXCEPT ![s.dir][s.obj] =
                   IF s.pc = "bin0" THEN Torn ELSE s.scope]
      /\ Become(p, [s EXCEPT !.pc = IF s.pc = "bin0" THEN "bin1" ELSE "dek0"])
      /\ UNCHANGED <<meta, dek, amem, drawn, ghosts>>

WriteDek(p) ==
  LET s == proc[p]
  IN  /\ s.pc \in {"dek0", "dek1"}
      /\ dek' = [dek EXCEPT ![s.dir][s.obj] =
                   IF s.pc = "dek0" THEN Torn ELSE s.scope]
      /\ IF s.pc = "dek0"
         THEN Become(p, [s EXCEPT !.pc = "dek1"]) /\ UNCHANGED acked
         ELSE /\ Become(p, Off)
              /\ acked' = [acked EXCEPT ![s.dir] = @ \cup {s.obj}]
      /\ UNCHANGED <<meta, bin, amem, drawn, granted, restored>>

-----------------------------------------------------------------------------
(* export: vault.cbor, the directory listing, then .bin and .dek of each.  *)

export(p, d) ==
  /\ Idle(p)
  /\ meta[d] \in Meta
  /\ Become(p, [Off EXCEPT !.pc = "list", !.dir = d,
                  !.box = [meta |-> meta[d], objs |-> NoObjects,
                           deks |-> NoObjects, promised |-> acked[d]]])
  /\ UNCHANGED <<disk, drawn, ghosts>>

list_objects(p) ==
  /\ proc[p].pc = "list"
  /\ Become(p, [proc[p] EXCEPT !.pc = "exbin",
                               !.todo = Whole(bin[proc[p].dir])])
  /\ UNCHANGED <<disk, drawn, ghosts>>

ExportBin(p, o) ==
  /\ proc[p].pc = "exbin" /\ o \in proc[p].todo
  /\ Become(p, [proc[p] EXCEPT !.pc = "exdek", !.obj = o,
                               !.box.objs[o] = bin[proc[p].dir][o]])
  /\ UNCHANGED <<disk, drawn, ghosts>>

\* A missing .dek raises out of export.
MissingDek(p) ==
  proc[p].pc = "exdek" /\ dek[proc[p].dir][proc[p].obj] = NoFile
\* Faulty: the directory is listed again after each object.
ExportDekListingAgain(p) ==
  LET s == proc[p]
  IN  /\ s.pc = "exdek"
      /\ Become(p, IF MissingDek(p) THEN Off
                   ELSE [s EXCEPT !.pc = "list",
                                  !.box.deks[s.obj] = dek[s.dir][s.obj]])
      /\ UNCHANGED <<disk, drawn, ghosts>>
ExportDek(p) ==
  LET s == proc[p]
  IN  /\ s.pc = "exdek"
      /\ Become(p, IF MissingDek(p) THEN Off
                   ELSE [s EXCEPT !.pc = "exbin", !.todo = @ \ {s.obj},
                                  !.box.deks[s.obj] = dek[s.dir][s.obj]])
      /\ UNCHANGED <<disk, drawn, ghosts>>

WriteExport(p) ==
  LET s == proc[p]
  IN  /\ \/ s.pc = "exbin" /\ s.todo = {} /\ amem' = Torn
            /\ Become(p, [s EXCEPT !.pc = "out1"])
         \/ s.pc = "out1" /\ amem' = s.box /\ Become(p, Off)
      /\ UNCHANGED <<meta, bin, dek, drawn, ghosts>>

-----------------------------------------------------------------------------
(* import_file_into.                                                       *)

\* Faulty: update() instead of setdefault().
MergedOverwriting(m, src) ==
  [m EXCEPT !.scopes =
     [n \in Name |-> IF src.scopes[n] # None THEN src.scopes[n]
                     ELSE m.scopes[n]]]
\* Faulty: known_keys is the file's.
MergedTakingTheAuthors(m, src) ==
  [m EXCEPT !.known = src.known,
            !.scopes = [n \in Name |-> IF m.scopes[n] # None THEN m.scopes[n]
                                      ELSE src.scopes[n]]]
\* setdefault: a scope the vault has keeps the vault's entry; known_keys is
\* the vault's own.
Merged(m, src) ==
  [m EXCEPT !.scopes =
     [n \in Name |-> IF m.scopes[n] # None THEN m.scopes[n]
                     ELSE src.scopes[n]]]

\* An object of the file is well formed and names the id of a scope of m.
Storable(x, m) ==
  /\ x # Torn
  /\ \E n \in Name : m.scopes[n] # None /\ m.scopes[n].key = x.key
\* Faulty: the scope is not looked up.
ValidInAnyScope(box, m) ==
  \A o \in Whole(box.objs) : box.objs[o] # Torn
Valid(box, m) == \A o \in Whole(box.objs) : Storable(box.objs[o], m)

\* The vault.cbor the import will write, and the checks before it does.
ImportedMeta(d) ==
  IF meta[d] = NoFile THEN amem.meta ELSE Merged(meta[d], amem.meta)
ImportAccepted(d) ==
  /\ amem \in Box
  /\ meta[d] \in Meta \cup {NoFile}
  /\ meta[d] # NoFile => meta[d].ident = amem.meta.ident
  /\ Valid(amem, ImportedMeta(d))

import_file_into(p, d) ==
  /\ Idle(p) /\ p \in Admin
  /\ ImportAccepted(d)
  /\ Become(p, [Off EXCEPT !.pc = "meta0", !.dir = d, !.m = ImportedMeta(d),
                           !.box = amem])
  /\ UNCHANGED <<disk, drawn, ghosts>>

\* Loop over the objects, skipping a .bin that exists.
\* Faulty: a .bin that exists is written again.
ImportBinOverwriting(p, o) ==
  LET s == proc[p]
  IN  /\ s.pc = "bins" /\ o \in s.todo
      /\ bin' = [bin EXCEPT ![s.dir][o] = Torn]
      /\ Become(p, [s EXCEPT !.pc = "ibin1", !.obj = o])
      /\ UNCHANGED <<meta, dek, amem, drawn, ghosts>>
ImportBin(p, o) ==
  LET s == proc[p]
      there == bin[s.dir][o] # NoFile
  IN  /\ s.pc = "bins" /\ o \in s.todo
      /\ bin' = IF there THEN bin ELSE [bin EXCEPT ![s.dir][o] = Torn]
      /\ Become(p, IF there THEN [s EXCEPT !.todo = @ \ {o}]
                   ELSE [s EXCEPT !.pc = "ibin1", !.obj = o])
      /\ UNCHANGED <<meta, dek, amem, drawn, ghosts>>
FillBin(p) ==
  LET s == proc[p]
  IN  /\ s.pc = "ibin1"
      /\ bin' = [bin EXCEPT ![s.dir][s.obj] = s.box.objs[s.obj]]
      /\ Become(p, [s EXCEPT !.pc = "bins", !.todo = @ \ {s.obj}])
      /\ UNCHANGED <<meta, dek, amem, drawn, ghosts>>

\* Then over the DEKs, skipping a .dek that exists.
StartDeks(p) ==
  LET s == proc[p]
  IN  /\ s.pc = "bins" /\ s.todo = {}
      /\ Become(p, [s EXCEPT !.pc = "deks", !.todo = Whole(s.box.deks)])
      /\ UNCHANGED <<disk, drawn, ghosts>>
ImportDek(p, o) ==
  LET s == proc[p]
      there == dek[s.dir][o] # NoFile
  IN  /\ s.pc = "deks" /\ o \in s.todo
      /\ dek' = IF there THEN dek ELSE [dek EXCEPT ![s.dir][o] = Torn]
      /\ Become(p, IF there THEN [s EXCEPT !.todo = @ \ {o}]
                   ELSE [s EXCEPT !.pc = "idek1", !.obj = o])
      /\ UNCHANGED <<meta, bin, amem, drawn, ghosts>>
FillDek(p) ==
  LET s == proc[p]
  IN  /\ s.pc = "idek1"
      /\ dek' = [dek EXCEPT ![s.dir][s.obj] = s.box.deks[s.obj]]
      /\ Become(p, [s EXCEPT !.pc = "deks", !.todo = @ \ {s.obj}])
      /\ UNCHANGED <<meta, bin, amem, drawn, ghosts>>

\* The import returns.
ImportDone(p) ==
  LET s == proc[p]
  IN  /\ s.pc = "deks" /\ s.todo = {}
      /\ restored' = [restored EXCEPT ![s.dir] =
                        @ \cup s.box.promised]
      /\ Become(p, Off)
      /\ UNCHANGED <<disk, drawn, acked, granted>>

Crash(p) ==
  /\ proc[p].pc \in CrashAt \ {"off"}
  /\ Become(p, Off)
  /\ UNCHANGED <<disk, drawn, ghosts>>

-----------------------------------------------------------------------------
Command(p) ==
  \/ \E d \in Dir, i \in Identity : init(p, d, i)
  \/ \E d \in Dir, n \in Name, k \in ScopeKey : add_scope(p, d, n, k)
  \/ \E d \in Dir, a \in Author : trust_key(p, d, a)
  \/ \E d \in Dir, n \in Name, o \in ObjId : seal_object(p, d, n, o)
  \/ \E d \in Dir : export(p, d)
  \/ \E d \in Dir : import_file_into(p, d)

Step(p) ==
  \/ TruncateMeta(p) \/ FillMeta(p)
  \/ WriteBin(p) \/ WriteDek(p)
  \/ list_objects(p)
  \/ \E o \in ObjId : ExportBin(p, o)
  \/ ExportDek(p) \/ WriteExport(p)
  \/ \E o \in ObjId : ImportBin(p, o)
  \/ FillBin(p) \/ StartDeks(p)
  \/ \E o \in ObjId : ImportDek(p, o)
  \/ FillDek(p) \/ ImportDone(p)

Next == \E p \in Process : Command(p) \/ Step(p) \/ Crash(p)

Spec == Init /\ [][Next]_vars

-----------------------------------------------------------------------------
(* Properties.                                                             *)

TypeOK ==
  /\ meta \in [Dir -> Meta \cup {NoFile, Torn}]
  /\ bin \in [Dir -> [ObjId -> ObjFile]]
  /\ dek \in [Dir -> [ObjId -> ObjFile]]
  /\ amem \in Box \cup {NoFile, Torn}
  /\ proc \in [Process -> ProcState]
  /\ drawn \subseteq Identity \cup ScopeKey \cup ObjId
  /\ acked \in [Dir -> SUBSET ObjId]
  /\ granted \in [Dir -> SUBSET (({"identity"} \X Identity)
                                 \cup (Name \X Scope)
                                 \cup ({"author"} \X Author))]
  /\ restored \in [Dir -> SUBSET ObjId]

\* open_object: the scope is in vault.cbor, wrapped for its identity, the
\* signature is that identity's, and the .dek unwraps under the scope's KEK.
Readable(d, o) ==
  /\ meta[d] \in Meta /\ bin[d][o] \in Scope
  /\ dek[d][o] = bin[d][o]
  /\ bin[d][o].ident = meta[d].ident
  /\ \E n \in Name : meta[d].scopes[n] = bin[d][o]

\* A memory whose seal_object returned stays readable, whatever other
\* commands seal, export, import and die beside it, and as soon as vault.cbor
\* is readable at all.
AckedIsReadable ==
  \A d \in Dir : meta[d] \in Meta => \A o \in acked[d] : Readable(d, o)

\* vault.py:247, "scopes are added, never overwritten": vault.cbor keeps the
\* identity, every scope entry and every accepted author it ever held, through
\* add_scope, trust_key and import_file_into alike.
ScopesNeverOverwritten ==
  \A d \in Dir : meta[d] \in Meta => granted[d] \subseteq Granted(meta[d])

\* draft-02 section 10: the .amem file and the passphrase are "sufficient to
\* reconstruct the entire memory on a new device".  A fresh import accepts it,
\* and it holds the object and the DEK of every memory acknowledged before
\* the export began.
ContainerReconstructs ==
  amem \in Box =>
    /\ Valid(amem, amem.meta)
    /\ \A o \in amem.promised :
         amem.objs[o] \in Scope /\ amem.deks[o] = amem.objs[o]

\* The same sentence, seen from the new device: when import_file_into has
\* returned, every memory the file carries is readable there, also when an
\* earlier attempt died half way.
ImportRestores ==
  \A d \in Dir :
    meta[d] \in Meta => \A o \in restored[d] : Readable(d, o)

\* draft-02 section 10: "Failures MUST be isolated per object.  One hostile or
\* corrupt object must never prevent the rest of the container from being
\* read".  An import into a vault of the same identity that could store an
\* object of the file is not refused because of another.
ImportRejectsIndividually ==
  \A d \in Dir :
    LET m == Merged(meta[d], amem.meta)
    IN  (/\ amem \in Box /\ meta[d] \in Meta
         /\ meta[d].ident = amem.meta.ident
         /\ \E o \in Whole(amem.objs) : Storable(amem.objs[o], m))
           => Valid(amem, m)

-----------------------------------------------------------------------------
(* The inductive invariants behind ScopesNeverOverwritten and              *)
(* AckedIsReadable when one process at a time changes a vault.cbor.        *)

\* What a command holds at each control point.
InHand(s) ==
  /\ s.pc # "off" => s.dir \in Dir
  /\ s.pc = "off" => s.box = None
  /\ s.pc \in {"meta0", "meta1"} => s.m \in Meta
  /\ s.pc \in {"bin0", "bin1", "dek0", "dek1"} =>
       s.scope \in Scope /\ s.obj \in ObjId /\ s.box = None
  /\ s.pc \in {"list", "exbin", "exdek", "out1",
              "bins", "ibin1", "deks", "idek1"} => s.box \in Box
  /\ s.pc \in {"exdek", "ibin1", "idek1"} => s.obj \in ObjId
  /\ s.pc \in {"bins", "ibin1"} => s.todo \subseteq Whole(s.box.objs)
  /\ s.pc = "ibin1" => s.obj \in Whole(s.box.objs)
  /\ s.pc \in {"deks", "idek1"} => s.todo \subseteq Whole(s.box.deks)
  /\ s.pc = "idek1" => s.obj \in Whole(s.box.deks)
HandsTyped == \A p \in Process : InHand(proc[p])

\* No two commands have read the same vault.cbor to change it.
WritersApart ==
  \A p, q \in Process :
    (/\ proc[p].pc \in {"meta0", "meta1"} /\ proc[q].pc \in {"meta0", "meta1"}
     /\ proc[p].dir = proc[q].dir)
      => p = q

\* What vault.cbor held is in what is about to be written to it.
MetaKept ==
  /\ \A d \in Dir : meta[d] = NoFile => granted[d] = {}
  /\ ScopesNeverOverwritten
  /\ \A p \in Process : proc[p].pc \in {"meta0", "meta1"} =>
       p \in Admin /\ granted[proc[p].dir] \subseteq Granted(proc[p].m)

\* Every scope entry is wrapped for the identity beside it, and what
\* vault.cbor holds has been granted.
OneIdentity(m) ==
  \A n \in Name : m.scopes[n] # None => m.scopes[n].ident = m.ident
MetaOwn ==
  /\ \A d \in Dir : meta[d] \in Meta =>
       OneIdentity(meta[d]) /\ Granted(meta[d]) \subseteq granted[d]
  /\ amem \in Box => OneIdentity(amem.meta)
  /\ \A p \in Process :
       /\ proc[p].pc \in {"meta0", "meta1"} => OneIdentity(proc[p].m)
       /\ proc[p].box \in Box => OneIdentity(proc[p].box.meta)
Wrapped(d, scope) ==
  /\ scope \in Scope
  /\ \E n \in Name : <<n, scope>> \in granted[d]
  /\ <<"identity", scope.ident>> \in granted[d]

\* No .dek of o exists, so no export can have finished with o: no .amem file
\* and no import has it.
Unlisted(o) ==
  /\ \A d \in Dir : dek[d][o] = NoFile
  /\ amem \in Box => amem.objs[o] = NoFile /\ amem.deks[o] = NoFile
  /\ \A q \in Process : proc[q].box \in Box =>
       /\ proc[q].box.deks[o] = NoFile
       /\ proc[q].box.objs[o] # NoFile =>
            proc[q].pc = "exdek" /\ proc[q].obj = o
Sealing(p, o) ==
  proc[p].pc \in {"bin0", "bin1", "dek0", "dek1"} /\ proc[p].obj = o
Untouched(d, o) ==
  \A q \in Process :
    ~(proc[q].pc \in {"ibin1", "idek1"} /\ proc[q].dir = d /\ proc[q].obj = o)

\* An object belongs to the seal_object that drew its id: until its .dek is
\* there nothing else knows it, from then on an import finds both files there.
SealSound(p) ==
  LET s == proc[p]
  IN  s.pc \in {"bin0", "bin1", "dek0", "dek1"} =>
        /\ s.obj \in drawn /\ Wrapped(s.dir, s.scope)
        /\ \A q \in Process : Sealing(q, s.obj) => q = p
        /\ \A d \in Dir : s.obj \notin acked[d]
        /\ s.pc # "dek1" => Unlisted(s.obj)
        /\ s.pc \in {"dek0", "dek1"} => bin[s.dir][s.obj] = s.scope
        /\ s.pc = "dek1" => /\ dek[s.dir][s.obj] # NoFile
                            /\ Untouched(s.dir, s.obj)
AckedSound(d, o) ==
  /\ o \in drawn
  /\ Wrapped(d, bin[d][o]) /\ dek[d][o] = bin[d][o]
  /\ Untouched(d, o)
ObjectsKept ==
  /\ \A o \in ObjId \ drawn : Unlisted(o)
  /\ \A p \in Process : SealSound(p)
  /\ \A d \in Dir : \A o \in acked[d] : AckedSound(d, o)
=============================================================================
