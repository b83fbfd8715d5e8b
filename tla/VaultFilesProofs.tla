--------------------------- MODULE VaultFilesProofs --------------------------
(***************************************************************************)
(* Theorems about VaultFiles, for any number of commands, directories,     *)
(* scopes and objects, killed at any control point.                        *)
(***************************************************************************)
EXTENDS VaultFiles, TLAPS

Typed == TypeOK /\ HandsTyped

LEMMA Distinct ==
  /\ \A x \in Scope \cup Meta \cup Box : x # None /\ x # NoFile /\ x # Torn
  /\ NoFile # Torn
BY FilesAssumption

LEMMA OffTyped == Off \in ProcState /\ InHand(Off)
BY DEF Off, ProcState, Pc, InHand

\* A command that goes on to a well-typed state leaves all of them typed.
LEMMA BecomeTyped ==
  ASSUME proc \in [Process -> ProcState], HandsTyped,
         NEW p \in Process, NEW s \in ProcState, InHand(s), Become(p, s)
  PROVE  proc' \in [Process -> ProcState] /\ HandsTyped'
BY DEF Become, HandsTyped, InHand, Whole

\* A granted entry is one of the three kinds.
LEMMA GrantedTyped ==
  ASSUME NEW m \in Meta
  PROVE  Granted(m) \subseteq (({"identity"} \X Identity) \cup (Name \X Scope)
                               \cup ({"author"} \X Author))
<1>1. /\ m.ident \in Identity /\ m.known \subseteq Author
      /\ \A n \in Name : m.scopes[n] # None => m.scopes[n] \in Scope
  BY DEF Meta
<1> QED BY <1>1 DEF Granted

-----------------------------------------------------------------------------
(* Changing vault.cbor.                                                    *)

LEMMA CommandTyped ==
  ASSUME Typed, NEW p \in Process, Command(p)
  PROVE  Typed'
<1> USE DEF Typed
<1>0. proc \in [Process -> ProcState] /\ HandsTyped
  BY DEF TypeOK
<1>1. ASSUME NEW s \in ProcState, InHand(s), Become(p, s),
             UNCHANGED <<disk, ghosts>>, drawn' \subseteq Identity \cup ScopeKey \cup ObjId
      PROVE  Typed'
  <2>1. proc' \in [Process -> ProcState] /\ HandsTyped'
    BY <1>0, <1>1, BecomeTyped
  <2> QED BY <2>1, <1>1 DEF TypeOK, disk, ghosts
<1>2. ASSUME NEW d \in Dir, NEW i \in Identity, init(p, d, i)
      PROVE  Typed'
  <2> DEFINE m == [ident |-> i, scopes |-> [n \in Name |-> None], known |-> {}]
             s == [Off EXCEPT !.pc = "meta0", !.dir = d, !.m = m]
  <2>1. m \in Meta
    BY DEF Meta
  <2>2. s \in ProcState /\ InHand(s)
    BY <2>1 DEF Off, ProcState, Pc, InHand
  <2>3. Become(p, s) /\ UNCHANGED <<disk, ghosts>>
    BY <1>2 DEF init
  <2>4. drawn' \subseteq Identity \cup ScopeKey \cup ObjId
    BY <1>2 DEF init, TypeOK
  <2> QED BY <2>2, <2>3, <2>4, <1>1
<1>3. ASSUME NEW d \in Dir, NEW n \in Name, NEW k \in ScopeKey,
             add_scope(p, d, n, k)
      PROVE  Typed'
  <2> DEFINE e == [ident |-> meta[d].ident, key |-> k]
             m == [meta[d] EXCEPT !.scopes[n] = e]
             s == [Off EXCEPT !.pc = "meta0", !.dir = d, !.m = m]
  <2>1. meta[d] \in Meta
    BY <1>3 DEF add_scope
  <2>2. e \in Scope
    BY <2>1 DEF Meta, Scope
  <2>3. m \in Meta
    BY <2>1, <2>2 DEF Meta
  <2>4. s \in ProcState /\ InHand(s)
    BY <2>3 DEF Off, ProcState, Pc, InHand
  <2>5. Become(p, s) /\ UNCHANGED <<disk, ghosts>>
    BY <1>3 DEF add_scope
  <2>6. drawn' \subseteq Identity \cup ScopeKey \cup ObjId
    BY <1>3 DEF add_scope, TypeOK
  <2> QED BY <2>4, <2>5, <2>6, <1>1
<1>4. ASSUME NEW d \in Dir, NEW a \in Author, trust_key(p, d, a)
      PROVE  Typed'
  <2> DEFINE m == [meta[d] EXCEPT !.known = @ \cup {a}]
             s == [Off EXCEPT !.pc = "meta0", !.dir = d, !.m = m]
  <2>1. meta[d] \in Meta
    BY <1>4 DEF trust_key
  <2>2. m \in Meta
    BY <2>1 DEF Meta
  <2>3. s \in ProcState /\ InHand(s)
    BY <2>2 DEF Off, ProcState, Pc, InHand
  <2>4. Become(p, s) /\ UNCHANGED <<disk, drawn, ghosts>>
    BY <1>4 DEF trust_key
  <2> QED BY <2>3, <2>4, <1>1 DEF TypeOK
<1>5. ASSUME NEW d \in Dir, NEW n \in Name, NEW o \in ObjId,
             seal_object(p, d, n, o)
      PROVE  Typed'
  <2> DEFINE s == [Off EXCEPT !.pc = "bin0", !.dir = d, !.obj = o,
                              !.scope = meta[d].scopes[n]]
  <2>1. meta[d].scopes[n] \in Scope
    BY <1>5 DEF seal_object, Meta
  <2>2. s \in ProcState /\ InHand(s)
    BY <2>1 DEF Off, ProcState, Pc, InHand
  <2>3. Become(p, s) /\ UNCHANGED <<disk, ghosts>>
    BY <1>5 DEF seal_object
  <2>4. drawn' \subseteq Identity \cup ScopeKey \cup ObjId
    BY <1>5 DEF seal_object, TypeOK
  <2> QED BY <2>2, <2>3, <2>4, <1>1
<1>6. ASSUME NEW d \in Dir, export(p, d)
      PROVE  Typed'
  <2> DEFINE b == [meta |-> meta[d], objs |-> NoObjects, deks |-> NoObjects,
                   promised |-> acked[d]]
             s == [Off EXCEPT !.pc = "list", !.dir = d, !.box = b]
  <2>1. b \in Box
    BY <1>6 DEF export, Box, NoObjects, ObjFile, TypeOK
  <2>2. s \in ProcState /\ InHand(s)
    BY <2>1 DEF Off, ProcState, Pc, InHand
  <2>3. Become(p, s) /\ UNCHANGED <<disk, drawn, ghosts>>
    BY <1>6 DEF export
  <2> QED BY <2>2, <2>3, <1>1 DEF TypeOK
<1>7. ASSUME NEW d \in Dir, import_file_into(p, d)
      PROVE  Typed'
  <2> DEFINE m == ImportedMeta(d)
             s == [Off EXCEPT !.pc = "meta0", !.dir = d, !.m = m, !.box = amem]
  <2>1. amem \in Box /\ meta[d] \in Meta \cup {NoFile}
    BY <1>7 DEF import_file_into, ImportAccepted
  <2>2. amem.meta \in Meta
    BY <2>1 DEF Box
  <2>3. m \in Meta
    <3>1. CASE meta[d] = NoFile
      BY <3>1, <2>2 DEF ImportedMeta
    <3>2. CASE meta[d] # NoFile
      <4>1. Merged(meta[d], amem.meta) \in Meta
        BY <3>2, <2>1, <2>2 DEF Merged, Meta
      <4> QED BY <4>1, <3>2 DEF ImportedMeta
    <3> QED BY <3>1, <3>2
  <2>4. s \in ProcState /\ InHand(s)
    BY <2>1, <2>3 DEF Off, ProcState, Pc, InHand
  <2>5. Become(p, s) /\ UNCHANGED <<disk, drawn, ghosts>>
    BY <1>7 DEF import_file_into
  <2> HIDE DEF m, s
  <2> QED BY <2>4, <2>5, <1>1 DEF TypeOK
<1> QED BY <1>2, <1>3, <1>4, <1>5, <1>6, <1>7 DEF Command

LEMMA StepTyped ==
  ASSUME Typed, NEW p \in Process, Step(p)
  PROVE  Typed'
<1> USE DEF Typed
<1> DEFINE s == proc[p]
<1>0. /\ proc \in [Process -> ProcState] /\ HandsTyped
      /\ s \in ProcState /\ InHand(s)
  BY DEF TypeOK, HandsTyped
<1>1. ASSUME NEW t \in ProcState, InHand(t), Become(p, t),
             meta' \in [Dir -> Meta \cup {NoFile, Torn}],
             bin' \in [Dir -> [ObjId -> ObjFile]],
             dek' \in [Dir -> [ObjId -> ObjFile]],
             amem' \in Box \cup {NoFile, Torn},
             drawn' = drawn,
             acked' \in [Dir -> SUBSET ObjId],
             granted' \in [Dir -> SUBSET (({"identity"} \X Identity)
                                          \cup (Name \X Scope)
                                          \cup ({"author"} \X Author))],
             restored' \in [Dir -> SUBSET ObjId]
      PROVE  Typed'
  <2>1. proc' \in [Process -> ProcState] /\ HandsTyped'
    BY <1>0, <1>1, BecomeTyped
  <2> QED BY <2>1, <1>1 DEF TypeOK
<1>2. CASE TruncateMeta(p)
  <2> DEFINE t == [s EXCEPT !.pc = "meta1"]
  <2>1. t \in ProcState /\ InHand(t)
    BY <1>0, <1>2 DEF TruncateMeta, ProcState, Pc, InHand
  <2>2. Become(p, t) /\ meta' = [meta EXCEPT ![s.dir] = Torn]
    BY <1>2 DEF TruncateMeta
  <2> HIDE DEF t
  <2> QED BY <1>1, <1>2, <2>1, <2>2 DEF TruncateMeta, TypeOK, ghosts
<1>3. CASE FillMeta(p)
  <2>1. s.dir \in Dir /\ s.m \in Meta /\ s.pc = "meta1"
    BY <1>0, <1>3 DEF FillMeta, InHand
  <2>2. CASE s.box = None
    <3>1. Become(p, Off)
      BY <1>3, <2>2 DEF FillMeta
    <3> QED BY <1>1, <1>3, <2>1, <3>1, OffTyped, GrantedTyped DEF FillMeta, TypeOK
  <2>3. CASE s.box # None
    <3> DEFINE t == [s EXCEPT !.pc = "bins", !.todo = Whole(s.box.objs)]
    <3>1. s.box \in Box
      BY <1>0, <2>3 DEF ProcState
    <3>2. t \in ProcState /\ InHand(t)
      BY <1>0, <2>1, <3>1 DEF ProcState, Pc, InHand, Whole
    <3>3. Become(p, t)
      BY <1>3, <2>3 DEF FillMeta
    <3> HIDE DEF t
    <3> QED BY <1>1, <1>3, <2>1, <3>2, <3>3, GrantedTyped DEF FillMeta, TypeOK
  <2> QED BY <2>2, <2>3
<1>4. CASE WriteBin(p)
  <2> DEFINE t == [s EXCEPT !.pc = IF s.pc = "bin0" THEN "bin1" ELSE "dek0"]
  <2>1. s.dir \in Dir /\ s.obj \in ObjId /\ s.scope \in Scope
    BY <1>0, <1>4 DEF WriteBin, InHand
  <2>2. t \in ProcState /\ InHand(t)
    BY <1>0, <1>4 DEF WriteBin, ProcState, Pc, InHand
  <2>3. bin' \in [Dir -> [ObjId -> ObjFile]]
    BY <1>4, <2>1 DEF WriteBin, TypeOK, ObjFile
  <2>4. Become(p, t)
    BY <1>4 DEF WriteBin
  <2> HIDE DEF t
  <2> QED BY <1>1, <1>4, <2>2, <2>3, <2>4 DEF WriteBin, TypeOK, ghosts
<1>5. CASE WriteDek(p)
  <2>1. s.dir \in Dir /\ s.obj \in ObjId /\ s.scope \in Scope
    BY <1>0, <1>5 DEF WriteDek, InHand
  <2>2. dek' \in [Dir -> [ObjId -> ObjFile]]
    BY <1>5, <2>1 DEF WriteDek, TypeOK, ObjFile
  <2>3. CASE s.pc = "dek0"
    <3> DEFINE t == [s EXCEPT !.pc = "dek1"]
    <3>1. t \in ProcState /\ InHand(t)
      BY <1>0, <2>3 DEF ProcState, Pc, InHand
    <3> QED BY <1>1, <1>5, <2>2, <2>3, <3>1 DEF WriteDek, TypeOK
  <2>4. CASE s.pc # "dek0"
    <3>0. acked' = [acked EXCEPT ![s.dir] = @ \cup {s.obj}]
      BY <1>5, <2>4 DEF WriteDek
    <3>1. acked' \in [Dir -> SUBSET ObjId]
      <4>1. acked \in [Dir -> SUBSET ObjId]
        BY DEF TypeOK
      <4> HIDE DEF s
      <4> QED BY <4>1, <3>0, <2>1
    <3> QED BY <1>1, <1>5, <2>2, <2>4, <3>1, OffTyped DEF WriteDek, TypeOK
  <2> QED BY <2>3, <2>4
<1>6. CASE list_objects(p)
  <2> DEFINE t == [s EXCEPT !.pc = "exbin", !.todo = Whole(bin[s.dir])]
  <2>1. t \in ProcState /\ InHand(t)
    BY <1>0, <1>6 DEF list_objects, ProcState, Pc, InHand, Whole
  <2> QED BY <1>1, <1>6, <2>1 DEF list_objects, TypeOK, disk, ghosts
<1>7. ASSUME NEW o \in ObjId, ExportBin(p, o)
      PROVE  Typed'
  <2> DEFINE b == [s.box EXCEPT !.objs[o] = bin[s.dir][o]]
             t == [s EXCEPT !.pc = "exdek", !.obj = o, !.box.objs[o] = bin[s.dir][o]]
  <2>1. s.dir \in Dir /\ s.box \in Box
    BY <1>0, <1>7 DEF ExportBin, InHand
  <2>2. bin[s.dir][o] \in ObjFile
    BY <2>1 DEF TypeOK
  <2>3. b \in Box
    BY <2>1, <2>2 DEF Box
  <2>4. t = [s EXCEPT !.pc = "exdek", !.obj = o, !.box = b]
    BY <1>0 DEF ProcState
  <2>5. t \in ProcState /\ InHand(t)
    BY <1>0, <2>1, <2>3, <2>4 DEF ProcState, Pc, InHand
  <2>6. Become(p, t)
    BY <1>7 DEF ExportBin
  <2> HIDE DEF t
  <2> QED BY <1>1, <1>7, <2>5, <2>6 DEF ExportBin, TypeOK, disk, ghosts
<1>8. CASE ExportDek(p)
  <2> DEFINE f == dek[s.dir][s.obj]
             b == [s.box EXCEPT !.deks[s.obj] = f]
             t == [s EXCEPT !.pc = "exbin", !.todo = @ \ {s.obj},
                            !.box.deks[s.obj] = f]
  <2>1. s.dir \in Dir /\ s.box \in Box /\ s.obj \in ObjId
    BY <1>0, <1>8 DEF ExportDek, InHand
  <2>2. f \in ObjFile
    BY <2>1 DEF TypeOK
  <2>3. b \in Box
    BY <2>1, <2>2 DEF Box
  <2>4. t = [s EXCEPT !.pc = "exbin", !.todo = @ \ {s.obj}, !.box = b]
    BY <1>0 DEF ProcState
  <2>5. t \in ProcState /\ InHand(t)
    BY <1>0, <2>1, <2>3, <2>4 DEF ProcState, Pc, InHand
  <2>6. Become(p, t) \/ Become(p, Off)
    BY <1>8 DEF ExportDek
  <2> HIDE DEF t
  <2> QED BY <1>1, <1>8, <2>5, <2>6, OffTyped DEF ExportDek, TypeOK, disk, ghosts
<1>9. CASE WriteExport(p)
  <2> DEFINE t == [s EXCEPT !.pc = "out1"]
  <2>1. s.box \in Box
    BY <1>0, <1>9 DEF WriteExport, InHand
  <2>2. t \in ProcState /\ InHand(t)
    BY <1>0, <1>9, <2>1 DEF WriteExport, ProcState, Pc, InHand
  <2>3. (Become(p, t) /\ amem' = Torn) \/ (Become(p, Off) /\ amem' = s.box)
    BY <1>9 DEF WriteExport
  <2> QED BY <1>1, <1>9, <2>1, <2>2, <2>3, OffTyped DEF WriteExport, TypeOK, ghosts
<1>10. ASSUME NEW o \in ObjId, ImportBin(p, o)
       PROVE  Typed'
  <2> DEFINE t == IF bin[s.dir][o] # NoFile THEN [s EXCEPT !.todo = @ \ {o}]
                  ELSE [s EXCEPT !.pc = "ibin1", !.obj = o]
  <2>1. s.dir \in Dir /\ o \in Whole(s.box.objs) /\ s.box \in Box
    BY <1>0, <1>10 DEF ImportBin, InHand
  <2>2. t \in ProcState /\ InHand(t)
    BY <1>0, <1>10, <2>1 DEF ImportBin, ProcState, Pc, InHand
  <2>3. bin' \in [Dir -> [ObjId -> ObjFile]]
    BY <1>10, <2>1 DEF ImportBin, TypeOK, ObjFile
  <2>4. Become(p, t)
    BY <1>10 DEF ImportBin
  <2> HIDE DEF t
  <2> QED BY <1>1, <1>10, <2>2, <2>3, <2>4 DEF ImportBin, TypeOK, ghosts
<1>11. CASE FillBin(p)
  <2> DEFINE t == [s EXCEPT !.pc = "bins", !.todo = @ \ {s.obj}]
  <2>1. s.dir \in Dir /\ s.obj \in ObjId /\ s.box \in Box /\ s.pc = "ibin1"
    BY <1>0, <1>11 DEF FillBin, InHand
  <2>2. s.box.objs[s.obj] \in ObjFile
    BY <2>1 DEF Box
  <2>3. bin' \in [Dir -> [ObjId -> ObjFile]]
    <3>1. bin' = [bin EXCEPT ![s.dir][s.obj] = s.box.objs[s.obj]]
      BY <1>11 DEF FillBin
    <3>2. bin \in [Dir -> [ObjId -> ObjFile]]
      BY DEF TypeOK
    <3> HIDE DEF s
    <3> QED BY <3>1, <3>2, <2>1, <2>2
  <2>4. t \in ProcState /\ InHand(t)
    BY <1>0, <2>1 DEF ProcState, Pc, InHand, Whole
  <2> QED BY <1>1, <1>11, <2>3, <2>4 DEF FillBin, TypeOK, ghosts
<1>12. CASE StartDeks(p)
  <2> DEFINE t == [s EXCEPT !.pc = "deks", !.todo = Whole(s.box.deks)]
  <2>1. s.box \in Box /\ s.pc = "bins"
    BY <1>0, <1>12 DEF StartDeks, InHand
  <2>2. t \in ProcState /\ InHand(t)
    BY <1>0, <2>1 DEF ProcState, Pc, InHand, Whole
  <2> QED BY <1>1, <1>12, <2>2 DEF StartDeks, TypeOK, disk, ghosts
<1>13. ASSUME NEW o \in ObjId, ImportDek(p, o)
       PROVE  Typed'
  <2> DEFINE t == IF dek[s.dir][o] # NoFile THEN [s EXCEPT !.todo = @ \ {o}]
                  ELSE [s EXCEPT !.pc = "idek1", !.obj = o]
  <2>1. s.dir \in Dir /\ o \in Whole(s.box.deks) /\ s.box \in Box
    BY <1>0, <1>13 DEF ImportDek, InHand
  <2>2. t \in ProcState /\ InHand(t)
    BY <1>0, <1>13, <2>1 DEF ImportDek, ProcState, Pc, InHand
  <2>3. dek' \in [Dir -> [ObjId -> ObjFile]]
    BY <1>13, <2>1 DEF ImportDek, TypeOK, ObjFile
  <2>4. Become(p, t)
    BY <1>13 DEF ImportDek
  <2> HIDE DEF t
  <2> QED BY <1>1, <1>13, <2>2, <2>3, <2>4 DEF ImportDek, TypeOK, ghosts
<1>14. CASE FillDek(p)
  <2> DEFINE t == [s EXCEPT !.pc = "deks", !.todo = @ \ {s.obj}]
  <2>1. s.dir \in Dir /\ s.obj \in ObjId /\ s.box \in Box /\ s.pc = "idek1"
    BY <1>0, <1>14 DEF FillDek, InHand
  <2>2. s.box.deks[s.obj] \in ObjFile
    BY <2>1 DEF Box
  <2>3. dek' \in [Dir -> [ObjId -> ObjFile]]
    <3>1. dek' = [dek EXCEPT ![s.dir][s.obj] = s.box.deks[s.obj]]
      BY <1>14 DEF FillDek
    <3>2. dek \in [Dir -> [ObjId -> ObjFile]]
      BY DEF TypeOK
    <3> HIDE DEF s
    <3> QED BY <3>1, <3>2, <2>1, <2>2
  <2>4. t \in ProcState /\ InHand(t)
    BY <1>0, <2>1 DEF ProcState, Pc, InHand, Whole
  <2> QED BY <1>1, <1>14, <2>3, <2>4 DEF FillDek, TypeOK, ghosts
<1>15. CASE ImportDone(p)
  <2>1. s.dir \in Dir /\ s.box \in Box
    BY <1>0, <1>15 DEF ImportDone, InHand
  <2>2. restored' \in [Dir -> SUBSET ObjId]
    BY <1>15, <2>1 DEF ImportDone, TypeOK, Box
  <2> QED BY <1>1, <1>15, <2>2, OffTyped DEF ImportDone, TypeOK, disk
<1> QED BY <1>2, <1>3, <1>4, <1>5, <1>6, <1>7, <1>8, <1>9, <1>10, <1>11,
           <1>12, <1>13, <1>14, <1>15 DEF Step

LEMMA CrashTyped ==
  ASSUME Typed, NEW p \in Process, Crash(p)
  PROVE  Typed'
<1>1. /\ proc \in [Process -> ProcState] /\ HandsTyped
      /\ Become(p, Off) /\ UNCHANGED <<disk, drawn, ghosts>>
  BY DEF Typed, TypeOK, Crash
<1>2. proc' \in [Process -> ProcState] /\ HandsTyped'
  BY <1>1, OffTyped, BecomeTyped
<1> QED
  BY <1>1, <1>2 DEF Typed, TypeOK, disk, ghosts

LEMMA TypedInit == Init => Typed
BY OffTyped DEF Init, Typed, TypeOK, HandsTyped, NoObjects, ObjFile

LEMMA TypedNext == Typed /\ [Next]_vars => Typed'
<1> SUFFICES ASSUME Typed, [Next]_vars
             PROVE  Typed'
  OBVIOUS
<1>1. CASE UNCHANGED vars
  BY <1>1 DEF vars, Typed, TypeOK, HandsTyped, InHand, Whole
<1>2. CASE Next
  BY <1>2, CommandTyped, StepTyped, CrashTyped DEF Next
<1> QED
  BY <1>1, <1>2

\* Every variable keeps its type, and a command has at each control point what
\* the next step of the code takes from its locals.
THEOREM FilesTypeCorrect == Spec => [](TypeOK /\ HandsTyped)
<1>1. Spec => []Typed
  BY TypedInit, TypedNext, PTL DEF Spec
<1> QED
  BY <1>1 DEF Typed

-----------------------------------------------------------------------------
(* Steps that neither change vault.cbor nor are about to.                  *)

Quiet(p) ==
  /\ UNCHANGED <<meta, granted>>
  /\ \A q \in Process \ {p} : proc'[q] = proc[q]
  /\ proc'[p].pc \notin {"meta0", "meta1"}
  /\ proc'[p].box \in Box =>
       proc[p].box \in Box /\ proc'[p].box.meta = proc[p].box.meta
  /\ amem' \in Box =>
       amem' = amem \/ (proc[p].box \in Box /\ amem' = proc[p].box)

LEMMA StepQuiet ==
  ASSUME Typed, NEW p \in Process, Step(p), ~TruncateMeta(p), ~FillMeta(p)
  PROVE  Quiet(p)
<1> DEFINE s == proc[p]
<1>0. s \in ProcState /\ InHand(s) /\ proc \in [Process -> ProcState]
  BY DEF Typed, TypeOK, HandsTyped
<1>1. ASSUME NEW t, Become(p, t), t.pc \notin {"meta0", "meta1"},
             t.box = s.box \/ t.box = None,
             UNCHANGED <<meta, granted>>, amem' = amem
      PROVE  Quiet(p)
  BY <1>0, <1>1, Distinct DEF Become, Quiet
<1>2. CASE WriteBin(p)
  <2>1. /\ Become(p, [s EXCEPT !.pc = IF s.pc = "bin0" THEN "bin1" ELSE "dek0"])
        /\ UNCHANGED <<meta, granted, amem>>
    BY <1>2 DEF WriteBin, ghosts
  <2> QED BY <1>0, <1>1, <2>1 DEF ProcState
<1>3. CASE WriteDek(p)
  <2>1. /\ Become(p, [s EXCEPT !.pc = "dek1"]) \/ Become(p, Off)
        /\ UNCHANGED <<meta, granted, amem>>
    BY <1>3 DEF WriteDek
  <2> QED BY <1>0, <1>1, <2>1 DEF ProcState, Off
<1>4. CASE list_objects(p)
  <2>1. /\ Become(p, [s EXCEPT !.pc = "exbin", !.todo = Whole(bin[s.dir])])
        /\ UNCHANGED <<meta, granted, amem>>
    BY <1>4 DEF list_objects, disk, ghosts
  <2> QED BY <1>0, <1>1, <2>1 DEF ProcState
<1>5. ASSUME NEW o \in ObjId, ExportBin(p, o)
      PROVE  Quiet(p)
  <2>1. s.box \in Box
    BY <1>0, <1>5 DEF ExportBin, InHand
  <2>2. /\ proc' = [proc EXCEPT ![p] =
             [s EXCEPT !.pc = "exdek", !.obj = o, !.box.objs[o] = bin[s.dir][o]]]
        /\ UNCHANGED <<meta, granted, amem>>
    BY <1>5 DEF ExportBin, Become, disk, ghosts
  <2>3. proc'[p].pc = "exdek" /\ proc'[p].box.meta = s.box.meta
    BY <1>0, <2>1, <2>2 DEF ProcState, Box
  <2> QED BY <1>0, <2>1, <2>2, <2>3 DEF Quiet
<1>6. CASE ExportDek(p)
  <2>1. s.box \in Box
    BY <1>0, <1>6 DEF ExportDek, InHand
  <2>2. UNCHANGED <<meta, granted, amem>>
    BY <1>6 DEF ExportDek, disk, ghosts
  <2>3. CASE Become(p, Off)
    BY <1>1, <2>2, <2>3 DEF Off
  <2>4. CASE Become(p, [s EXCEPT !.pc = "exbin", !.todo = @ \ {s.obj},
                                 !.box.deks[s.obj] = dek[s.dir][s.obj]])
    <3>1. proc'[p].pc = "exbin" /\ proc'[p].box.meta = s.box.meta
      BY <1>0, <2>1, <2>4 DEF Become, ProcState, Box
    <3> QED BY <1>0, <2>1, <2>2, <2>4, <3>1 DEF Quiet, Become
  <2> QED BY <1>6, <2>3, <2>4 DEF ExportDek
<1>7. CASE WriteExport(p)
  <2>1. s.box \in Box
    BY <1>0, <1>7 DEF WriteExport, InHand
  <2>2. /\ amem' = Torn \/ amem' = s.box
        /\ UNCHANGED <<meta, granted>>
        /\ Become(p, [s EXCEPT !.pc = "out1"]) \/ Become(p, Off)
    BY <1>7 DEF WriteExport, ghosts
  <2>3. /\ proc'[p].pc \in {"out1", "off"} /\ proc'[p].box \in {s.box, None}
        /\ \A q \in Process \ {p} : proc'[q] = proc[q]
    BY <1>0, <2>2 DEF Become, Off, ProcState
  <2> QED BY <2>1, <2>2, <2>3, Distinct DEF Quiet
<1>8. ASSUME NEW o \in ObjId, ImportBin(p, o)
      PROVE  Quiet(p)
  <2>1. /\ \/ Become(p, [s EXCEPT !.todo = @ \ {o}])
           \/ Become(p, [s EXCEPT !.pc = "ibin1", !.obj = o])
        /\ s.pc = "bins"
        /\ UNCHANGED <<meta, granted, amem>>
    BY <1>8 DEF ImportBin, ghosts
  <2> QED BY <1>0, <1>1, <2>1 DEF ProcState
<1>9. CASE FillBin(p)
  <2>1. /\ Become(p, [s EXCEPT !.pc = "bins", !.todo = @ \ {s.obj}])
        /\ UNCHANGED <<meta, granted, amem>>
    BY <1>9 DEF FillBin, ghosts
  <2> QED BY <1>0, <1>1, <2>1 DEF ProcState
<1>10. CASE StartDeks(p)
  <2>1. /\ Become(p, [s EXCEPT !.pc = "deks", !.todo = Whole(s.box.deks)])
        /\ UNCHANGED <<meta, granted, amem>>
    BY <1>10 DEF StartDeks, disk, ghosts
  <2> QED BY <1>0, <1>1, <2>1 DEF ProcState
<1>11. ASSUME NEW o \in ObjId, ImportDek(p, o)
       PROVE  Quiet(p)
  <2>1. /\ \/ Become(p, [s EXCEPT !.todo = @ \ {o}])
           \/ Become(p, [s EXCEPT !.pc = "idek1", !.obj = o])
        /\ s.pc = "deks"
        /\ UNCHANGED <<meta, granted, amem>>
    BY <1>11 DEF ImportDek, ghosts
  <2> QED BY <1>0, <1>1, <2>1 DEF ProcState
<1>12. CASE FillDek(p)
  <2>1. /\ Become(p, [s EXCEPT !.pc = "deks", !.todo = @ \ {s.obj}])
        /\ UNCHANGED <<meta, granted, amem>>
    BY <1>12 DEF FillDek, ghosts
  <2> QED BY <1>0, <1>1, <2>1 DEF ProcState
<1>13. CASE ImportDone(p)
  <2>1. Become(p, Off) /\ UNCHANGED <<meta, granted, amem>>
    BY <1>13 DEF ImportDone, disk
  <2> QED BY <1>1, <2>1 DEF Off
<1> QED
  BY <1>2, <1>3, <1>4, <1>5, <1>6, <1>7, <1>8, <1>9, <1>10, <1>11, <1>12,
     <1>13 DEF Step

-----------------------------------------------------------------------------
(* vault.cbor with one process at most that changes it.                    *)

OneAdmin == \A p, q \in Admin : p = q

LEMMA GrantedMono ==
  ASSUME NEW m \in Meta, NEW m2 \in Meta,
         m2.ident = m.ident, m.known \subseteq m2.known,
         \A n \in Name : m.scopes[n] # None => m2.scopes[n] = m.scopes[n]
  PROVE  Granted(m) \subseteq Granted(m2)
BY DEF Granted

\* A command that starts a change has in hand what vault.cbor held, and more.
LEMMA StartKeeps ==
  ASSUME Typed, MetaKept, NEW d \in Dir, NEW m \in Meta,
         \/ meta[d] = NoFile
         \/ meta[d] \in Meta /\ Granted(meta[d]) \subseteq Granted(m)
  PROVE  granted[d] \subseteq Granted(m)
BY DEF MetaKept, ScopesNeverOverwritten

\* What the commands start with.
LEMMA CommandStarts ==
  ASSUME Typed, NEW p \in Process, Command(p)
  PROVE  /\ UNCHANGED <<disk, ghosts>>
         /\ proc[p].pc = "off"
         /\ \A q \in Process \ {p} : proc'[q] = proc[q]
         /\ proc'[p].pc \in {"meta0", "bin0", "list"}
         /\ proc'[p].pc = "meta0" =>
              LET d == proc'[p].dir
                  m == proc'[p].m
              IN  /\ p \in Admin /\ d \in Dir /\ m \in Meta
                  /\ \/ meta[d] = NoFile
                     \/ meta[d] \in Meta /\ Granted(meta[d]) \subseteq Granted(m)
<1> DEFINE s == proc'[p]
<1>0. proc \in [Process -> ProcState]
  BY DEF Typed, TypeOK
<1>1. ASSUME NEW d \in Dir, NEW i \in Identity, init(p, d, i)
      PROVE  /\ s.pc = "meta0" /\ s.dir = d /\ p \in Admin
             /\ meta[d] = NoFile /\ s.m \in Meta
  BY <1>0, <1>1 DEF init, Become, Off, Meta
<1>2. ASSUME NEW d \in Dir, NEW n \in Name, NEW k \in ScopeKey,
             add_scope(p, d, n, k)
      PROVE  /\ s.pc = "meta0" /\ s.dir = d /\ p \in Admin
             /\ meta[d] \in Meta /\ s.m \in Meta
             /\ Granted(meta[d]) \subseteq Granted(s.m)
  <2> DEFINE e == [ident |-> meta[d].ident, key |-> k]
             m == [meta[d] EXCEPT !.scopes[n] = e]
  <2>1. meta[d] \in Meta /\ meta[d].scopes[n] = None /\ p \in Admin
    BY <1>2 DEF add_scope
  <2>2. e \in Scope
    BY <2>1 DEF Meta, Scope
  <2>3. m \in Meta
    BY <2>1, <2>2 DEF Meta
  <2>4. s.pc = "meta0" /\ s.dir = d /\ s.m = m
    BY <1>0, <1>2 DEF add_scope, Become, Off
  <2>5. /\ m.ident = meta[d].ident /\ m.known = meta[d].known
        /\ \A x \in Name : meta[d].scopes[x] # None
             => m.scopes[x] = meta[d].scopes[x]
    BY <2>1 DEF Meta
  <2>6. Granted(meta[d]) \subseteq Granted(m)
    <3> HIDE DEF m
    <3> QED BY <2>1, <2>3, <2>5, GrantedMono
  <2> HIDE DEF m
  <2> QED BY <2>1, <2>3, <2>4, <2>6
<1>3. ASSUME NEW d \in Dir, NEW a \in Author, trust_key(p, d, a)
      PROVE  /\ s.pc = "meta0" /\ s.dir = d /\ p \in Admin
             /\ meta[d] \in Meta /\ s.m \in Meta
             /\ Granted(meta[d]) \subseteq Granted(s.m)
  <2> DEFINE m == [meta[d] EXCEPT !.known = @ \cup {a}]
  <2>1. meta[d] \in Meta /\ p \in Admin
    BY <1>3 DEF trust_key
  <2>2. /\ m \in Meta /\ m.ident = meta[d].ident /\ m.scopes = meta[d].scopes
        /\ meta[d].known \subseteq m.known
    BY <2>1 DEF Meta
  <2>3. s.pc = "meta0" /\ s.dir = d /\ s.m = m
    BY <1>0, <1>3 DEF trust_key, Become, Off
  <2> HIDE DEF m
  <2> QED BY <2>1, <2>2, <2>3, GrantedMono
<1>4. ASSUME NEW d \in Dir, import_file_into(p, d)
      PROVE  /\ s.pc = "meta0" /\ s.dir = d /\ p \in Admin /\ s.m \in Meta
             /\ \/ meta[d] = NoFile
                \/ meta[d] \in Meta /\ Granted(meta[d]) \subseteq Granted(s.m)
  <2>1. /\ p \in Admin /\ amem \in Box /\ meta[d] \in Meta \cup {NoFile}
        /\ proc' = [proc EXCEPT ![p] = [Off EXCEPT !.pc = "meta0", !.dir = d,
                      !.m = ImportedMeta(d), !.box = amem]]
    BY <1>4 DEF import_file_into, ImportAccepted, Become
  <2>2. s.pc = "meta0" /\ s.dir = d /\ s.m = ImportedMeta(d)
    BY <1>0, <2>1 DEF Off
  <2>3. amem.meta \in Meta
    BY <2>1 DEF Box
  <2>4. CASE meta[d] = NoFile
    BY <2>1, <2>2, <2>3, <2>4 DEF ImportedMeta
  <2>5. CASE meta[d] # NoFile
    <3>1. s.m = Merged(meta[d], amem.meta) /\ meta[d] \in Meta
      BY <2>1, <2>2, <2>5 DEF ImportedMeta
    <3>2. /\ s.m \in Meta /\ s.m.ident = meta[d].ident
          /\ s.m.known = meta[d].known
          /\ \A n \in Name : meta[d].scopes[n] # None
               => s.m.scopes[n] = meta[d].scopes[n]
      BY <2>3, <3>1 DEF Merged, Meta
    <3> QED BY <2>1, <2>2, <3>1, <3>2, GrantedMono
  <2> QED BY <2>4, <2>5
<1>5. ASSUME NEW d \in Dir, NEW n \in Name, NEW o \in ObjId,
             seal_object(p, d, n, o)
      PROVE  s.pc = "bin0"
  BY <1>0, <1>5 DEF seal_object, Become, Off
<1>6. ASSUME NEW d \in Dir, export(p, d)
      PROVE  s.pc = "list"
  BY <1>0, <1>6 DEF export, Become, Off
<1>7. /\ UNCHANGED <<disk, ghosts>>
      /\ \A q \in Process \ {p} : proc'[q] = proc[q]
      /\ proc[p].pc = "off"
  BY <1>0 DEF Command, init, add_scope, trust_key, seal_object, export,
              import_file_into, Become, Idle
<1> QED
  BY <1>1, <1>2, <1>3, <1>4, <1>5, <1>6, <1>7 DEF Command

\* One process that changes vault.cbor is never beside another.
LEMMA OneAdminIsApart ==
  ASSUME OneAdmin
  PROVE  MetaKept => WritersApart
BY DEF OneAdmin, MetaKept, WritersApart

LEMMA MetaKeptNext ==
  Typed /\ MetaKept /\ WritersApart /\ [Next]_vars => MetaKept'
<1> SUFFICES ASSUME Typed, MetaKept, WritersApart, [Next]_vars
             PROVE  MetaKept'
  OBVIOUS
<1> DEFINE Changing(q) == proc[q].pc \in {"meta0", "meta1"}
<1>0. /\ proc \in [Process -> ProcState]
      /\ meta \in [Dir -> Meta \cup {NoFile, Torn}]
      /\ \A q \in Process : InHand(proc[q])
      /\ DOMAIN granted = Dir
  BY DEF Typed, TypeOK, HandsTyped
<1>s. ASSUME UNCHANGED <<meta, granted>>,
             \A q \in Process : proc'[q].pc \in {"meta0", "meta1"} =>
               \/ proc'[q] = proc[q]
               \/ /\ q \in Admin
                  /\ granted[proc'[q].dir] \subseteq Granted(proc'[q].m)
      PROVE  MetaKept'
  BY <1>s DEF MetaKept, ScopesNeverOverwritten, Granted
<1>1. CASE UNCHANGED vars
  BY <1>1, <1>s DEF vars
<1>2. ASSUME NEW p \in Process, Command(p)
      PROVE  MetaKept'
  <2>1. ASSUME proc'[p].pc = "meta0"
        PROVE  p \in Admin /\ granted[proc'[p].dir] \subseteq Granted(proc'[p].m)
    BY <1>2, <2>1, CommandStarts, StartKeeps
  <2> QED BY <1>2, <1>s, <2>1, CommandStarts DEF disk, ghosts
<1>3. ASSUME NEW p \in Process, TruncateMeta(p)
      PROVE  MetaKept'
  <2>1. /\ proc[p].dir \in Dir /\ Changing(p)
        /\ meta' = [meta EXCEPT ![proc[p].dir] = Torn]
        /\ granted' = granted
        /\ proc' = [proc EXCEPT ![p] = [proc[p] EXCEPT !.pc = "meta1"]]
    BY <1>0, <1>3 DEF TruncateMeta, Become, InHand, ghosts
  <2>2. /\ proc'[p].dir = proc[p].dir /\ proc'[p].m = proc[p].m
        /\ \A q \in Process \ {p} : proc'[q] = proc[q]
    BY <1>0, <2>1 DEF ProcState
  <2>3. \A d \in Dir : meta'[d] = meta[d] \/ meta'[d] = Torn
    BY <1>0, <2>1
  <2> QED BY <2>1, <2>2, <2>3, Distinct
          DEF MetaKept, ScopesNeverOverwritten, Granted
<1>4. ASSUME NEW p \in Process, FillMeta(p)
      PROVE  MetaKept'
  <2> DEFINE d == proc[p].dir
             m == proc[p].m
  <2>1. /\ d \in Dir /\ m \in Meta /\ Changing(p)
        /\ meta' = [meta EXCEPT ![d] = m]
        /\ granted' = [granted EXCEPT ![d] = @ \cup Granted(m)]
        /\ \A q \in Process \ {p} : proc'[q] = proc[q]
        /\ proc'[p].pc \in {"bins", "off"}
    BY <1>0, <1>4 DEF FillMeta, Become, InHand, Off, ProcState
  <2>2. p \in Admin /\ granted[d] \subseteq Granted(m)
    BY <2>1 DEF MetaKept
  <2>3. /\ proc'[p].pc \notin {"meta0", "meta1"}
        /\ \A q \in Process : proc'[q].pc \in {"meta0", "meta1"}
             => q \in Admin /\ proc'[q] = proc[q] /\ proc[q].dir # d
    BY <2>1, <2>2 DEF WritersApart, MetaKept
  <2>4. meta'[d] = m /\ granted'[d] = Granted(m)
    BY <1>0, <2>1, <2>2
  <2>5. \A e \in Dir \ {d} : meta'[e] = meta[e] /\ granted'[e] = granted[e]
    BY <1>0, <2>1
  <2>6. \A q \in Process : proc'[q].pc \in {"meta0", "meta1"} =>
          proc'[q].dir \in Dir \ {d}
    BY <1>0, <2>3 DEF InHand
  <2>7. \A q \in Process : proc'[q].pc \in {"meta0", "meta1"} =>
          /\ q \in Admin
          /\ granted'[proc'[q].dir] \subseteq Granted(proc'[q].m)
    BY <2>3, <2>5, <2>6 DEF MetaKept
  <2> HIDE DEF d, m
  <2> QED BY <2>1, <2>4, <2>5, <2>7, Distinct
          DEF MetaKept, ScopesNeverOverwritten, Granted
<1>5. ASSUME NEW p \in Process, Step(p) \/ Crash(p), ~TruncateMeta(p), ~FillMeta(p)
      PROVE  MetaKept'
  <2>1. CASE Step(p)
    <3>1. Quiet(p)
      BY <1>5, <2>1, StepQuiet
    <3> QED BY <1>s, <3>1 DEF Quiet
  <2>2. CASE Crash(p)
    <3>1. /\ UNCHANGED <<meta, granted>> /\ proc'[p].pc = "off"
          /\ \A q \in Process \ {p} : proc'[q] = proc[q]
      BY <1>0, <2>2 DEF Crash, Become, Off, disk, ghosts
    <3> QED BY <1>s, <3>1
  <2> QED BY <1>5, <2>1, <2>2
<1> QED
  BY <1>1, <1>2, <1>3, <1>4, <1>5 DEF Next

LEMMA MetaKeptInit == Init => MetaKept
BY Distinct DEF Init, MetaKept, ScopesNeverOverwritten, Off

\* vault.cbor never loses an identity, a scope entry or an accepted author as
\* long as no two commands change the same vault.cbor at a time, however many
\* change it in turn, seal, export and read beside, and wherever any of them
\* is killed: the check that add_scope and import_file_into make is enough,
\* only a lock around it is missing.
THEOREM NothingOverwrittenInTurn ==
  Spec /\ []WritersApart => []ScopesNeverOverwritten
<1>1. MetaKept => ScopesNeverOverwritten
  BY DEF MetaKept
<1> QED
  BY <1>1, MetaKeptInit, TypedInit, TypedNext, MetaKeptNext, PTL DEF Spec

\* In particular when one process alone changes vault.cbor.
THEOREM NothingOverwritten ==
  ASSUME OneAdmin
  PROVE  Spec => []ScopesNeverOverwritten
<1>1. MetaKept => ScopesNeverOverwritten
  BY DEF MetaKept
<1> QED
  BY <1>1, MetaKeptInit, OneAdminIsApart, TypedInit, TypedNext, MetaKeptNext,
     PTL DEF Spec

-----------------------------------------------------------------------------
(* Scope entries and identities.                                           *)

LEMMA CommandOwns ==
  ASSUME Typed, MetaOwn, NEW p \in Process, Command(p)
  PROVE  /\ proc'[p].pc = "meta0" => OneIdentity(proc'[p].m)
         /\ proc'[p].box \in Box => OneIdentity(proc'[p].box.meta)
<1> DEFINE s == proc'[p]
<1>0. proc \in [Process -> ProcState]
  BY DEF Typed, TypeOK
<1>1. ASSUME NEW d \in Dir, NEW i \in Identity, init(p, d, i)
      PROVE  OneIdentity(s.m) /\ s.box = None
  BY <1>0, <1>1 DEF init, Become, Off, OneIdentity
<1>2. ASSUME NEW d \in Dir, NEW n \in Name, NEW k \in ScopeKey,
             add_scope(p, d, n, k)
      PROVE  OneIdentity(s.m) /\ s.box = None
  <2> DEFINE e == [ident |-> meta[d].ident, key |-> k]
             m == [meta[d] EXCEPT !.scopes[n] = e]
  <2>1. meta[d] \in Meta /\ OneIdentity(meta[d])
    BY <1>2 DEF add_scope, MetaOwn
  <2>2. s.m = m /\ s.box = None
    BY <1>0, <1>2 DEF add_scope, Become, Off
  <2>3. OneIdentity(m)
    BY <2>1 DEF Meta, OneIdentity
  <2> QED BY <2>2, <2>3
<1>3. ASSUME NEW d \in Dir, NEW a \in Author, trust_key(p, d, a)
      PROVE  OneIdentity(s.m) /\ s.box = None
  <2>1. meta[d] \in Meta /\ OneIdentity(meta[d])
    BY <1>3 DEF trust_key, MetaOwn
  <2>2. s.m = [meta[d] EXCEPT !.known = @ \cup {a}] /\ s.box = None
    BY <1>0, <1>3 DEF trust_key, Become, Off
  <2> QED BY <2>1, <2>2 DEF Meta, OneIdentity
<1>4. ASSUME NEW d \in Dir, NEW n \in Name, NEW o \in ObjId,
             seal_object(p, d, n, o)
      PROVE  s.pc = "bin0" /\ s.box = None
  BY <1>0, <1>4 DEF seal_object, Become, Off
<1>5. ASSUME NEW d \in Dir, export(p, d)
      PROVE  s.pc = "list" /\ OneIdentity(s.box.meta)
  BY <1>0, <1>5 DEF export, Become, Off, MetaOwn
<1>6. ASSUME NEW d \in Dir, import_file_into(p, d)
      PROVE  OneIdentity(s.m) /\ OneIdentity(s.box.meta)
  <2>1. /\ amem \in Box /\ meta[d] \in Meta \cup {NoFile}
        /\ meta[d] # NoFile => meta[d].ident = amem.meta.ident
        /\ proc' = [proc EXCEPT ![p] = [Off EXCEPT !.pc = "meta0", !.dir = d,
                      !.m = ImportedMeta(d), !.box = amem]]
    BY <1>6 DEF import_file_into, ImportAccepted, Become
  <2>2. s.m = ImportedMeta(d) /\ s.box = amem
    BY <1>0, <2>1 DEF Off
  <2>3. OneIdentity(amem.meta)
    BY <2>1 DEF MetaOwn
  <2>4. CASE meta[d] = NoFile
    BY <2>2, <2>3, <2>4 DEF ImportedMeta
  <2>5. CASE meta[d] # NoFile
    <3>1. s.m = Merged(meta[d], amem.meta) /\ meta[d] \in Meta
      BY <2>1, <2>2, <2>5 DEF ImportedMeta
    <3>2. OneIdentity(meta[d])
      BY <3>1 DEF MetaOwn
    <3>3. /\ s.m.ident = meta[d].ident
          /\ \A n \in Name : \/ s.m.scopes[n] = meta[d].scopes[n]
                             \/ s.m.scopes[n] = amem.meta.scopes[n]
      BY <3>1 DEF Merged, Meta
    <3>4. OneIdentity(s.m)
      BY <2>1, <2>3, <2>5, <3>2, <3>3 DEF OneIdentity
    <3> QED BY <2>2, <2>3, <3>4
  <2> QED BY <2>4, <2>5
<1> QED
  BY <1>1, <1>2, <1>3, <1>4, <1>5, <1>6, Distinct DEF Command

LEMMA MetaOwnNext == Typed /\ MetaOwn /\ [Next]_vars => MetaOwn'
<1> SUFFICES ASSUME Typed, MetaOwn, [Next]_vars
             PROVE  MetaOwn'
  OBVIOUS
<1>0. /\ proc \in [Process -> ProcState]
      /\ meta \in [Dir -> Meta \cup {NoFile, Torn}]
      /\ \A q \in Process : InHand(proc[q])
      /\ DOMAIN granted = Dir
  BY DEF Typed, TypeOK, HandsTyped
<1>s. ASSUME UNCHANGED <<meta, granted>>,
             amem' \in Box => OneIdentity(amem'.meta),
             NEW p \in Process,
             \A q \in Process \ {p} : proc'[q] = proc[q],
             proc'[p].pc \in {"meta0", "meta1"} => OneIdentity(proc'[p].m),
             proc'[p].box \in Box => OneIdentity(proc'[p].box.meta)
      PROVE  MetaOwn'
  BY <1>s DEF MetaOwn, Granted, OneIdentity
<1>1. CASE UNCHANGED vars
  BY <1>1 DEF vars, MetaOwn, Granted, OneIdentity
<1>2. ASSUME NEW p \in Process, Command(p)
      PROVE  MetaOwn'
  <2>1. /\ UNCHANGED <<meta, granted, amem>>
        /\ \A q \in Process \ {p} : proc'[q] = proc[q]
        /\ proc'[p].pc # "meta1"
    BY <1>2, CommandStarts DEF disk, ghosts
  <2> QED BY <1>s, <1>2, <2>1, CommandOwns DEF MetaOwn
<1>3. ASSUME NEW p \in Process, TruncateMeta(p)
      PROVE  MetaOwn'
  <2>1. /\ proc[p].dir \in Dir
        /\ meta' = [meta EXCEPT ![proc[p].dir] = Torn]
        /\ UNCHANGED <<granted, amem>> /\ proc[p].pc = "meta0"
        /\ proc' = [proc EXCEPT ![p] = [proc[p] EXCEPT !.pc = "meta1"]]
    BY <1>0, <1>3 DEF TruncateMeta, Become, InHand, ghosts
  <2>2. /\ proc'[p].box = proc[p].box /\ proc'[p].m = proc[p].m
        /\ \A q \in Process \ {p} : proc'[q] = proc[q]
    BY <1>0, <2>1 DEF ProcState
  <2>3. \A d \in Dir : meta'[d] = meta[d] \/ meta'[d] = Torn
    BY <1>0, <2>1
  <2>4. \A d \in Dir : meta'[d] \in Meta =>
          OneIdentity(meta'[d]) /\ Granted(meta'[d]) \subseteq granted'[d]
    BY <2>1, <2>3, Distinct DEF MetaOwn
  <2>5. \A q \in Process : proc'[q].box = proc[q].box /\ proc'[q].m = proc[q].m
    BY <2>2
  <2>6. \A q \in Process : proc'[q].pc \in {"meta0", "meta1"}
                             => proc[q].pc \in {"meta0", "meta1"}
    BY <2>1, <2>2
  <2> QED BY <2>1, <2>4, <2>5, <2>6 DEF MetaOwn, OneIdentity, Granted
<1>4. ASSUME NEW p \in Process, FillMeta(p)
      PROVE  MetaOwn'
  <2> DEFINE d == proc[p].dir
             m == proc[p].m
  <2>1. /\ d \in Dir /\ m \in Meta /\ proc[p].pc = "meta1"
        /\ meta' = [meta EXCEPT ![d] = m]
        /\ granted' = [granted EXCEPT ![d] = @ \cup Granted(m)]
        /\ amem' = amem
        /\ \A q \in Process \ {p} : proc'[q] = proc[q]
        /\ proc'[p].pc \in {"bins", "off"}
        /\ proc'[p].box \in {proc[p].box, None}
    BY <1>0, <1>4 DEF FillMeta, Become, InHand, Off, ProcState
  <2>2. OneIdentity(m)
    BY <2>1 DEF MetaOwn
  <2>3. meta'[d] = m /\ Granted(m) \subseteq granted'[d]
    BY <1>0, <2>1
  <2>4. \A e \in Dir \ {d} : meta'[e] = meta[e] /\ granted'[e] = granted[e]
    BY <1>0, <2>1
  <2>5. \A e \in Dir : meta'[e] \in Meta =>
          OneIdentity(meta'[e]) /\ Granted(meta'[e]) \subseteq granted'[e]
    <3> HIDE DEF d, m
    <3> QED BY <2>2, <2>3, <2>4 DEF MetaOwn
  <2>6. \A q \in Process : proc'[q].box \in Box =>
          proc'[q].box = proc[q].box
    BY <2>1, Distinct
  <2>7. \A q \in Process : proc'[q].pc \in {"meta0", "meta1"}
                             => proc'[q] = proc[q]
    BY <2>1
  <2> QED BY <2>1, <2>5, <2>6, <2>7 DEF MetaOwn, OneIdentity, Granted
<1>5. ASSUME NEW p \in Process, Step(p) \/ Crash(p), ~TruncateMeta(p), ~FillMeta(p)
      PROVE  MetaOwn'
  <2>1. CASE Step(p)
    <3>1. Quiet(p)
      BY <1>5, <2>1, StepQuiet
    <3> QED BY <1>s, <3>1 DEF Quiet, MetaOwn
  <2>2. CASE Crash(p)
    <3>1. /\ UNCHANGED <<meta, granted, amem>> /\ proc'[p].pc = "off"
          /\ proc'[p].box = None
          /\ \A q \in Process \ {p} : proc'[q] = proc[q]
      BY <1>0, <2>2 DEF Crash, Become, Off, disk, ghosts
    <3> QED BY <1>s, <3>1, Distinct DEF MetaOwn
  <2> QED BY <1>5, <2>1, <2>2
<1> QED
  BY <1>1, <1>2, <1>3, <1>4, <1>5 DEF Next

-----------------------------------------------------------------------------
(* What a step of p does to one object.                                    *)

Move(p) == Command(p) \/ Step(p) \/ Crash(p)

\* Only the seal_object that drew o, or an import that has o, writes its .bin.
BinEffect(p, d, o) ==
  LET s == proc[p]
  IN  bin'[d][o] = bin[d][o] \/
      /\ s.dir = d
      /\ \/ s.pc \in {"bin0", "bin1", "ibin1"} /\ s.obj = o
         \/ s.pc = "bins" /\ bin[d][o] = NoFile /\ o \in Whole(s.box.objs)
DekEffect(p, d, o) ==
  LET s == proc[p]
  IN  dek'[d][o] = dek[d][o] \/
      /\ s.dir = d
      /\ \/ s.pc \in {"dek0", "dek1", "idek1"} /\ s.obj = o
         \/ s.pc = "deks" /\ dek[d][o] = NoFile /\ o \in Whole(s.box.deks)

\* An import opens a file that was not there.
HandEffect(p) ==
  LET s == proc[p]
      t == proc'[p]
  IN  /\ t.pc = "ibin1" => /\ s.pc = "bins" /\ t.dir = s.dir
                           /\ bin[s.dir][t.obj] = NoFile
                           /\ t.obj \in Whole(s.box.objs)
      /\ t.pc = "idek1" => /\ s.pc = "deks" /\ t.dir = s.dir
                           /\ dek[s.dir][t.obj] = NoFile
                           /\ t.obj \in Whole(s.box.deks)

\* What a command holds of an .amem file grows only in an export, by an object
\* whose .dek is there.
BoxEffect(p, o) ==
  LET s == proc[p]
      t == proc'[p]
  IN  t.box \in Box =>
        \/ amem \in Box /\ t.box = amem
        \/ t.box.objs[o] = NoFile /\ t.box.deks[o] = NoFile
        \/ /\ s.box \in Box
           /\ \/ t.box.objs[o] = s.box.objs[o] /\ s.pc # "exdek"
              \/ t.box.objs[o] = s.box.objs[o] /\ s.pc = "exdek" /\ s.obj # o
              \/ t.pc = "exdek" /\ t.obj = o
              \/ s.pc = "exdek" /\ s.obj = o /\ dek[s.dir][o] # NoFile
           /\ \/ t.box.deks[o] = s.box.deks[o]
              \/ s.pc = "exdek" /\ s.obj = o /\ dek[s.dir][o] # NoFile
AmemEffect(p) ==
  amem' \in Box =>
    amem' = amem \/ (proc[p].pc = "out1" /\ proc[p].box \in Box /\ amem' = proc[p].box)

LEMMA StepEffects ==
  ASSUME Typed, NEW p \in Process, Step(p)
  PROVE  /\ \A d \in Dir, o \in ObjId : BinEffect(p, d, o) /\ DekEffect(p, d, o)
         /\ HandEffect(p) /\ AmemEffect(p)
         /\ \A o \in ObjId : BoxEffect(p, o)
<1> DEFINE s == proc[p]
<1>0. /\ s \in ProcState /\ InHand(s) /\ proc \in [Process -> ProcState]
      /\ bin \in [Dir -> [ObjId -> ObjFile]] /\ dek \in [Dir -> [ObjId -> ObjFile]]
  BY DEF Typed, TypeOK, HandsTyped
<1>1. ASSUME NEW t, Become(p, t), t.pc \notin {"ibin1", "idek1"},
             t.box = None \/ (t.box = s.box /\ s.pc # "exdek"),
             \A d \in Dir, o \in ObjId : BinEffect(p, d, o) /\ DekEffect(p, d, o),
             AmemEffect(p)
      PROVE  /\ \A d \in Dir, o \in ObjId : BinEffect(p, d, o) /\ DekEffect(p, d, o)
             /\ HandEffect(p) /\ AmemEffect(p)
             /\ \A o \in ObjId : BoxEffect(p, o)
  <2>1. proc'[p] = t
    BY <1>0, <1>1 DEF Become
  <2> QED BY <1>1, <2>1, Distinct DEF HandEffect, BoxEffect
<1>q. ASSUME UNCHANGED disk
      PROVE  /\ \A d \in Dir, o \in ObjId : BinEffect(p, d, o) /\ DekEffect(p, d, o)
             /\ AmemEffect(p)
  BY <1>q DEF disk, BinEffect, DekEffect, AmemEffect
<1>2. CASE TruncateMeta(p)
  <2>1. /\ Become(p, [s EXCEPT !.pc = "meta1"]) /\ s.pc = "meta0"
        /\ UNCHANGED <<bin, dek, amem>>
    BY <1>2 DEF TruncateMeta
  <2> QED BY <1>0, <1>1, <2>1 DEF ProcState, BinEffect, DekEffect, AmemEffect
<1>3. CASE FillMeta(p)
  <2>1. /\ \/ Become(p, Off)
           \/ Become(p, [s EXCEPT !.pc = "bins", !.todo = Whole(s.box.objs)])
        /\ s.pc = "meta1" /\ UNCHANGED <<bin, dek, amem>>
    BY <1>3 DEF FillMeta
  <2> QED BY <1>0, <1>1, <2>1 DEF ProcState, Off, BinEffect, DekEffect, AmemEffect
<1>4. CASE WriteBin(p)
  <2>1. /\ Become(p, [s EXCEPT !.pc = IF s.pc = "bin0" THEN "bin1" ELSE "dek0"])
        /\ s.pc \in {"bin0", "bin1"} /\ UNCHANGED <<dek, amem>>
        /\ bin' = [bin EXCEPT ![s.dir][s.obj] =
                     IF s.pc = "bin0" THEN Torn ELSE s.scope]
    BY <1>4 DEF WriteBin
  <2>2. \A d \in Dir, o \in ObjId : BinEffect(p, d, o)
    BY <1>0, <2>1 DEF BinEffect
  <2> QED BY <1>0, <1>1, <2>1, <2>2 DEF ProcState, DekEffect, AmemEffect
<1>5. CASE WriteDek(p)
  <2>1. /\ Become(p, [s EXCEPT !.pc = "dek1"]) \/ Become(p, Off)
        /\ s.pc \in {"dek0", "dek1"} /\ UNCHANGED <<bin, amem>>
        /\ dek' = [dek EXCEPT ![s.dir][s.obj] =
                     IF s.pc = "dek0" THEN Torn ELSE s.scope]
    BY <1>5 DEF WriteDek
  <2>2. \A d \in Dir, o \in ObjId : DekEffect(p, d, o)
    BY <1>0, <2>1 DEF DekEffect
  <2> QED BY <1>0, <1>1, <2>1, <2>2 DEF ProcState, Off, BinEffect, AmemEffect
<1>6. CASE list_objects(p)
  <2>1. /\ Become(p, [s EXCEPT !.pc = "exbin", !.todo = Whole(bin[s.dir])])
        /\ s.pc = "list" /\ UNCHANGED disk
    BY <1>6 DEF list_objects
  <2> QED BY <1>0, <1>1, <1>q, <2>1 DEF ProcState
<1>7. ASSUME NEW x \in ObjId, ExportBin(p, x)
      PROVE  /\ HandEffect(p) /\ UNCHANGED disk
             /\ \A o \in ObjId : BoxEffect(p, o)
  <2>1. s.box \in Box /\ s.pc = "exbin" /\ UNCHANGED disk
    BY <1>0, <1>7 DEF ExportBin, InHand
  <2>2. proc'[p] = [s EXCEPT !.pc = "exdek", !.obj = x, !.box.objs[x] = bin[s.dir][x]]
    BY <1>0, <1>7 DEF ExportBin, Become
  <2>3. /\ proc'[p].pc = "exdek" /\ proc'[p].obj = x
        /\ proc'[p].box.deks = s.box.deks
        /\ \A o \in ObjId \ {x} : proc'[p].box.objs[o] = s.box.objs[o]
    BY <1>0, <2>1, <2>2 DEF ProcState, Box
  <2> QED BY <2>1, <2>3 DEF HandEffect, BoxEffect
<1>8. CASE ExportDek(p)
  <2>1. s.box \in Box /\ s.pc = "exdek" /\ UNCHANGED disk
    BY <1>0, <1>8 DEF ExportDek, InHand
  <2>2. CASE Become(p, Off)
    BY <1>0, <1>1, <1>q, <2>1, <2>2 DEF Off
  <2>3. CASE ~MissingDek(p) /\ Become(p, [s EXCEPT !.pc = "exbin", !.todo = @ \ {s.obj},
                                 !.box.deks[s.obj] = dek[s.dir][s.obj]])
    <3>1. dek[s.dir][s.obj] # NoFile
      BY <2>1, <2>3 DEF MissingDek
    <3>2. proc'[p] = [s EXCEPT !.pc = "exbin", !.todo = @ \ {s.obj},
                               !.box.deks[s.obj] = dek[s.dir][s.obj]]
      BY <1>0, <2>3 DEF Become
    <3>3. /\ proc'[p].pc = "exbin" /\ proc'[p].box.objs = s.box.objs
          /\ \A o \in ObjId \ {s.obj} : proc'[p].box.deks[o] = s.box.deks[o]
      BY <1>0, <2>1, <3>2 DEF ProcState, Box
    <3>4. HandEffect(p)
      BY <3>3 DEF HandEffect
    <3>5. \A o \in ObjId : BoxEffect(p, o)
      BY <2>1, <3>1, <3>3 DEF BoxEffect
    <3> QED BY <1>q, <2>1, <3>4, <3>5
  <2> QED BY <1>8, <2>2, <2>3 DEF ExportDek
<1>9. CASE WriteExport(p)
  <2>1. /\ \/ s.pc = "exbin" /\ amem' = Torn /\ Become(p, [s EXCEPT !.pc = "out1"])
           \/ s.pc = "out1" /\ amem' = s.box /\ Become(p, Off)
        /\ UNCHANGED <<bin, dek>> /\ s.box \in Box
    BY <1>0, <1>9 DEF WriteExport, InHand
  <2>2. AmemEffect(p)
    BY <2>1, Distinct DEF AmemEffect
  <2> QED BY <1>0, <1>1, <2>1, <2>2 DEF ProcState, Off, BinEffect, DekEffect
<1>10. ASSUME NEW x \in ObjId, ImportBin(p, x)
       PROVE  /\ \A d \in Dir, o \in ObjId : BinEffect(p, d, o) /\ DekEffect(p, d, o)
              /\ HandEffect(p) /\ AmemEffect(p)
              /\ \A o \in ObjId : BoxEffect(p, o)
  <2>1. /\ s.pc = "bins" /\ x \in Whole(s.box.objs) /\ s.dir \in Dir
        /\ UNCHANGED <<dek, amem>> /\ s.box \in Box
    BY <1>0, <1>10 DEF ImportBin, InHand
  <2>2. CASE bin[s.dir][x] # NoFile
    <3>1. Become(p, [s EXCEPT !.todo = @ \ {x}]) /\ bin' = bin
      BY <1>10, <2>2 DEF ImportBin
    <3> QED BY <1>0, <1>1, <2>1, <3>1 DEF ProcState, BinEffect, DekEffect, AmemEffect
  <2>3. CASE bin[s.dir][x] = NoFile
    <3>1. /\ Become(p, [s EXCEPT !.pc = "ibin1", !.obj = x])
          /\ bin' = [bin EXCEPT ![s.dir][x] = Torn]
      BY <1>10, <2>3 DEF ImportBin
    <3>2. \A d \in Dir, o \in ObjId : BinEffect(p, d, o)
      BY <1>0, <2>1, <2>3, <3>1 DEF BinEffect
    <3>3. /\ proc'[p].pc = "ibin1" /\ proc'[p].obj = x /\ proc'[p].dir = s.dir
          /\ proc'[p].box = s.box
      BY <1>0, <3>1 DEF Become, ProcState
    <3> QED BY <2>1, <2>3, <3>2, <3>3
            DEF HandEffect, BoxEffect, DekEffect, AmemEffect
  <2> QED BY <2>2, <2>3
<1>11. CASE FillBin(p)
  <2>1. /\ Become(p, [s EXCEPT !.pc = "bins", !.todo = @ \ {s.obj}])
        /\ s.pc = "ibin1" /\ UNCHANGED <<dek, amem>>
        /\ bin' = [bin EXCEPT ![s.dir][s.obj] = s.box.objs[s.obj]]
    BY <1>11 DEF FillBin
  <2>2. \A d \in Dir, o \in ObjId : BinEffect(p, d, o)
    BY <1>0, <2>1 DEF BinEffect
  <2> QED BY <1>0, <1>1, <2>1, <2>2 DEF ProcState, DekEffect, AmemEffect
<1>12. CASE StartDeks(p)
  <2>1. /\ Become(p, [s EXCEPT !.pc = "deks", !.todo = Whole(s.box.deks)])
        /\ s.pc = "bins" /\ UNCHANGED disk
    BY <1>12 DEF StartDeks
  <2> QED BY <1>0, <1>1, <1>q, <2>1 DEF ProcState
<1>13. ASSUME NEW x \in ObjId, ImportDek(p, x)
       PROVE  /\ \A d \in Dir, o \in ObjId : BinEffect(p, d, o) /\ DekEffect(p, d, o)
              /\ HandEffect(p) /\ AmemEffect(p)
              /\ \A o \in ObjId : BoxEffect(p, o)
  <2>1. /\ s.pc = "deks" /\ x \in Whole(s.box.deks) /\ s.dir \in Dir
        /\ UNCHANGED <<bin, amem>> /\ s.box \in Box
    BY <1>0, <1>13 DEF ImportDek, InHand
  <2>2. CASE dek[s.dir][x] # NoFile
    <3>1. Become(p, [s EXCEPT !.todo = @ \ {x}]) /\ dek' = dek
      BY <1>13, <2>2 DEF ImportDek
    <3> QED BY <1>0, <1>1, <2>1, <3>1 DEF ProcState, BinEffect, DekEffect, AmemEffect
  <2>3. CASE dek[s.dir][x] = NoFile
    <3>1. /\ Become(p, [s EXCEPT !.pc = "idek1", !.obj = x])
          /\ dek' = [dek EXCEPT ![s.dir][x] = Torn]
      BY <1>13, <2>3 DEF ImportDek
    <3>2. \A d \in Dir, o \in ObjId : DekEffect(p, d, o)
      BY <1>0, <2>1, <2>3, <3>1 DEF DekEffect
    <3>3. /\ proc'[p].pc = "idek1" /\ proc'[p].obj = x /\ proc'[p].dir = s.dir
          /\ proc'[p].box = s.box
      BY <1>0, <3>1 DEF Become, ProcState
    <3> QED BY <2>1, <2>3, <3>2, <3>3
            DEF HandEffect, BoxEffect, BinEffect, AmemEffect
  <2> QED BY <2>2, <2>3
<1>14. CASE FillDek(p)
  <2>1. /\ Become(p, [s EXCEPT !.pc = "deks", !.todo = @ \ {s.obj}])
        /\ s.pc = "idek1" /\ UNCHANGED <<bin, amem>>
        /\ dek' = [dek EXCEPT ![s.dir][s.obj] = s.box.deks[s.obj]]
    BY <1>14 DEF FillDek
  <2>2. \A d \in Dir, o \in ObjId : DekEffect(p, d, o)
    BY <1>0, <2>1 DEF DekEffect
  <2> QED BY <1>0, <1>1, <2>1, <2>2 DEF ProcState, BinEffect, AmemEffect
<1>15. CASE ImportDone(p)
  <2>1. Become(p, Off) /\ UNCHANGED disk
    BY <1>15 DEF ImportDone
  <2> QED BY <1>1, <1>q, <2>1 DEF Off
<1> QED
  BY <1>q, <1>2, <1>3, <1>4, <1>5, <1>6, <1>7, <1>8, <1>9, <1>10, <1>11,
     <1>12, <1>13, <1>14, <1>15 DEF Step

LEMMA MoveEffects ==
  ASSUME Typed, NEW p \in Process, Move(p)
  PROVE  /\ \A d \in Dir, o \in ObjId : BinEffect(p, d, o) /\ DekEffect(p, d, o)
         /\ HandEffect(p) /\ AmemEffect(p)
         /\ \A o \in ObjId : BoxEffect(p, o)
         /\ \A q \in Process \ {p} : proc'[q] = proc[q]
<1>0. proc \in [Process -> ProcState]
  BY DEF Typed, TypeOK
<1>1. CASE Command(p)
  <2>1. /\ UNCHANGED disk /\ proc'[p].pc \in {"meta0", "bin0", "list"}
        /\ \A q \in Process \ {p} : proc'[q] = proc[q]
    BY <1>1, CommandStarts
  <2>2. proc'[p].box \in Box =>
          \/ amem \in Box /\ proc'[p].box = amem
          \/ \A o \in ObjId : /\ proc'[p].box.objs[o] = NoFile
                              /\ proc'[p].box.deks[o] = NoFile
    <3>1. ASSUME NEW d \in Dir, import_file_into(p, d)
          PROVE  amem \in Box /\ proc'[p].box = amem
      BY <1>0, <3>1 DEF import_file_into, ImportAccepted, Become, Off
    <3>2. ASSUME NEW d \in Dir, export(p, d)
          PROVE  /\ proc'[p].box.objs = NoObjects
                 /\ proc'[p].box.deks = NoObjects
      BY <1>0, <3>2 DEF export, Become, Off
    <3>3. ASSUME NEW d \in Dir,
                 \/ \E i \in Identity : init(p, d, i)
                 \/ \E n \in Name, k \in ScopeKey : add_scope(p, d, n, k)
                 \/ \E a \in Author : trust_key(p, d, a)
                 \/ \E n \in Name, o \in ObjId : seal_object(p, d, n, o)
          PROVE  proc'[p].box = None
      BY <1>0, <3>3 DEF init, add_scope, trust_key, seal_object, Become, Off
    <3> QED BY <1>1, <3>1, <3>2, <3>3, Distinct DEF Command, NoObjects
  <2> QED BY <2>1, <2>2
          DEF disk, BinEffect, DekEffect, HandEffect, AmemEffect, BoxEffect
<1>2. CASE Step(p)
  <2>1. \A q \in Process \ {p} : proc'[q] = proc[q]
    <3>1. CASE TruncateMeta(p) \/ FillMeta(p)
      BY <1>0, <3>1 DEF TruncateMeta, FillMeta, Become
    <3> QED BY <1>2, <3>1, StepQuiet DEF Quiet
  <2> QED BY <1>2, <2>1, StepEffects
<1>3. CASE Crash(p)
  <2>1. /\ UNCHANGED disk /\ proc'[p] = Off
        /\ \A q \in Process \ {p} : proc'[q] = proc[q]
    BY <1>0, <1>3 DEF Crash, Become
  <2> QED BY <2>1, Distinct
          DEF disk, BinEffect, DekEffect, HandEffect, AmemEffect, BoxEffect, Off
<1> QED
  BY <1>1, <1>2, <1>3 DEF Move

\* A command stays with the directory it was given.
LEMMA StepInDir ==
  ASSUME Typed, NEW p \in Process, Step(p)
  PROVE  /\ ~Idle(p)
         /\ Idle(p)' \/ proc'[p].dir = proc[p].dir
<1> DEFINE s == proc[p]
<1>0. s \in ProcState /\ proc \in [Process -> ProcState]
  BY DEF Typed, TypeOK
<1>1. ~Idle(p)
  BY DEF Idle, Step, TruncateMeta, FillMeta, WriteBin, WriteDek, list_objects,
         ExportBin, ExportDek, WriteExport, ImportBin, FillBin, StartDeks,
         ImportDek, FillDek, ImportDone
<1>q. ASSUME NEW t, Become(p, t), t.dir = s.dir \/ t.pc = "off"
      PROVE  Idle(p)' \/ proc'[p].dir = proc[p].dir
  BY <1>0, <1>q DEF Become, Idle
<1>2. CASE TruncateMeta(p)
  <2>1. Become(p, [s EXCEPT !.pc = "meta1"])
    BY <1>2 DEF TruncateMeta
  <2> QED BY <1>0, <1>1, <1>q, <2>1 DEF ProcState, Off
<1>3. CASE FillMeta(p)
  <2>1. \/ Become(p, Off)
        \/ Become(p, [s EXCEPT !.pc = "bins", !.todo = Whole(s.box.objs)])
    BY <1>3 DEF FillMeta
  <2> QED BY <1>0, <1>1, <1>q, <2>1 DEF ProcState, Off
<1>4. CASE WriteBin(p)
  <2>1. Become(p, [s EXCEPT !.pc = IF s.pc = "bin0" THEN "bin1" ELSE "dek0"])
    BY <1>4 DEF WriteBin
  <2> QED BY <1>0, <1>1, <1>q, <2>1 DEF ProcState, Off
<1>5. CASE WriteDek(p)
  <2>1. Become(p, Off) \/ Become(p, [s EXCEPT !.pc = "dek1"])
    BY <1>5 DEF WriteDek
  <2> QED BY <1>0, <1>1, <1>q, <2>1 DEF ProcState, Off
<1>6. CASE list_objects(p)
  <2>1. Become(p, [s EXCEPT !.pc = "exbin", !.todo = Whole(bin[s.dir])])
    BY <1>6 DEF list_objects
  <2> QED BY <1>0, <1>1, <1>q, <2>1 DEF ProcState, Off
<1>7. ASSUME NEW o \in ObjId, ExportBin(p, o)
      PROVE  Idle(p)' \/ proc'[p].dir = proc[p].dir
  <2>1. Become(p, [s EXCEPT !.pc = "exdek", !.obj = o,
                          !.box.objs[o] = bin[s.dir][o]])
    BY <1>7 DEF ExportBin
  <2> QED BY <1>0, <1>1, <1>q, <2>1 DEF ProcState, Off
<1>8. CASE ExportDek(p)
  <2>1. \/ Become(p, Off)
        \/ Become(p, [s EXCEPT !.pc = "exbin", !.todo = @ \ {s.obj},
                            !.box.deks[s.obj] = dek[s.dir][s.obj]])
    BY <1>8 DEF ExportDek
  <2> QED BY <1>0, <1>1, <1>q, <2>1 DEF ProcState, Off
<1>9. CASE WriteExport(p)
  <2>1. Become(p, Off) \/ Become(p, [s EXCEPT !.pc = "out1"])
    BY <1>9 DEF WriteExport
  <2> QED BY <1>0, <1>1, <1>q, <2>1 DEF ProcState, Off
<1>10. ASSUME NEW o \in ObjId, ImportBin(p, o)
      PROVE  Idle(p)' \/ proc'[p].dir = proc[p].dir
  <2>1. \/ Become(p, [s EXCEPT !.todo = @ \ {o}])
        \/ Become(p, [s EXCEPT !.pc = "ibin1", !.obj = o])
    BY <1>10 DEF ImportBin
  <2> QED BY <1>0, <1>1, <1>q, <2>1 DEF ProcState, Off
<1>11. CASE FillBin(p)
  <2>1. Become(p, [s EXCEPT !.pc = "bins", !.todo = @ \ {s.obj}])
    BY <1>11 DEF FillBin
  <2> QED BY <1>0, <1>1, <1>q, <2>1 DEF ProcState, Off
<1>12. CASE StartDeks(p)
  <2>1. Become(p, [s EXCEPT !.pc = "deks", !.todo = Whole(s.box.deks)])
    BY <1>12 DEF StartDeks
  <2> QED BY <1>0, <1>1, <1>q, <2>1 DEF ProcState, Off
<1>13. ASSUME NEW o \in ObjId, ImportDek(p, o)
      PROVE  Idle(p)' \/ proc'[p].dir = proc[p].dir
  <2>1. \/ Become(p, [s EXCEPT !.todo = @ \ {o}])
        \/ Become(p, [s EXCEPT !.pc = "idek1", !.obj = o])
    BY <1>13 DEF ImportDek
  <2> QED BY <1>0, <1>1, <1>q, <2>1 DEF ProcState, Off
<1>14. CASE FillDek(p)
  <2>1. Become(p, [s EXCEPT !.pc = "deks", !.todo = @ \ {s.obj}])
    BY <1>14 DEF FillDek
  <2> QED BY <1>0, <1>1, <1>q, <2>1 DEF ProcState, Off
<1>15. CASE ImportDone(p)
  <2>1. Become(p, Off)
    BY <1>15 DEF ImportDone
  <2> QED BY <1>0, <1>1, <1>q, <2>1 DEF ProcState, Off
<1> QED
  BY <1>1, <1>2, <1>3, <1>4, <1>5, <1>6, <1>7, <1>8, <1>9, <1>10, <1>11,
     <1>12, <1>13, <1>14, <1>15 DEF Step

\* As long as no .dek of o is written, nothing learns of o, and only its own
\* seal_object writes its .bin.
LEMMA UnlistedKept ==
  ASSUME Typed, NEW p \in Process, Move(p), NEW o \in ObjId, Unlisted(o),
         proc[p].pc \in {"dek0", "dek1"} => proc[p].obj # o
  PROVE  /\ Unlisted(o)'
         /\ \A d \in Dir : bin'[d][o] = bin[d][o] \/ Sealing(p, o)
<1> DEFINE s == proc[p]
<1>0. /\ InHand(s)
      /\ \A d \in Dir : BinEffect(p, d, o) /\ DekEffect(p, d, o)
      /\ AmemEffect(p) /\ BoxEffect(p, o)
      /\ \A q \in Process \ {p} : proc'[q] = proc[q]
  BY MoveEffects DEF Typed, HandsTyped
<1>1. s.box \in Box =>
        s.box.deks[o] = NoFile
        /\ (s.box.objs[o] # NoFile => s.pc = "exdek" /\ s.obj = o)
  BY DEF Unlisted
<1>2. ~(s.pc \in {"bins", "ibin1", "deks", "idek1"} /\
        \/ s.pc = "bins" /\ o \in Whole(s.box.objs)
        \/ s.pc = "ibin1" /\ s.obj = o
        \/ s.pc = "deks" /\ o \in Whole(s.box.deks)
        \/ s.pc = "idek1" /\ s.obj = o)
  BY <1>0, <1>1 DEF InHand, Whole
<1>3. \A d \in Dir : dek'[d][o] = NoFile
  BY <1>0, <1>2 DEF DekEffect, Unlisted
<1>4. \A d \in Dir : bin'[d][o] = bin[d][o] \/ Sealing(p, o)
  BY <1>0, <1>2 DEF BinEffect, Sealing
<1>5. amem' \in Box => amem'.objs[o] = NoFile /\ amem'.deks[o] = NoFile
  BY <1>0, <1>1 DEF AmemEffect, Unlisted
<1>6. proc'[p].box \in Box =>
        /\ proc'[p].box.deks[o] = NoFile
        /\ proc'[p].box.objs[o] # NoFile =>
             proc'[p].pc = "exdek" /\ proc'[p].obj = o
  <2> SUFFICES ASSUME proc'[p].box \in Box
               PROVE  /\ proc'[p].box.deks[o] = NoFile
                      /\ proc'[p].box.objs[o] # NoFile =>
                           proc'[p].pc = "exdek" /\ proc'[p].obj = o
    OBVIOUS
  <2>1. s.pc = "exdek" => s.dir \in Dir
    BY <1>0 DEF InHand
  <2>2. ~(s.pc = "exdek" /\ s.obj = o /\ dek[s.dir][o] # NoFile)
    BY <2>1 DEF Unlisted
  <2> QED BY <1>0, <1>1, <2>2 DEF BoxEffect, Unlisted
<1> QED
  BY <1>0, <1>3, <1>4, <1>5, <1>6 DEF Unlisted

\* Once both files of o are in d and no import has one open, only the
\* seal_object of o writes them.
LEMMA FilesKept ==
  ASSUME Typed, NEW p \in Process, Move(p), NEW d \in Dir, NEW o \in ObjId,
         ~Sealing(p, o), Untouched(d, o),
         bin[d][o] # NoFile, dek[d][o] # NoFile
  PROVE  Untouched(d, o)' /\ bin'[d][o] = bin[d][o] /\ dek'[d][o] = dek[d][o]
<1>0. /\ BinEffect(p, d, o) /\ DekEffect(p, d, o) /\ HandEffect(p)
      /\ \A q \in Process \ {p} : proc'[q] = proc[q]
  BY MoveEffects
<1>1. bin'[d][o] = bin[d][o] /\ dek'[d][o] = dek[d][o]
  BY <1>0 DEF BinEffect, DekEffect, Sealing, Untouched
<1>2. Untouched(d, o)'
  BY <1>0 DEF Untouched, HandEffect
<1> QED
  BY <1>1, <1>2

LEMMA GhostsGrow ==
  ASSUME Typed, NEW p \in Process, Move(p)
  PROVE  /\ drawn \subseteq drawn'
         /\ \A d \in Dir : granted[d] \subseteq granted'[d]
         /\ (WriteDek(p) /\ proc[p].pc = "dek1") \/ acked' = acked
<1>0. /\ \A q \in Process : InHand(proc[q])
      /\ DOMAIN granted = Dir /\ DOMAIN acked = Dir
  BY DEF Typed, TypeOK, HandsTyped
<1>1. CASE Command(p)
  BY <1>1 DEF Command, init, add_scope, trust_key, seal_object, export,
              import_file_into, ghosts
<1>2. CASE Step(p)
  <2>1. CASE FillMeta(p)
    BY <1>0, <2>1 DEF FillMeta
  <2>2. CASE ~FillMeta(p)
    BY <1>0, <1>2, <2>2
    DEF Step, TruncateMeta, WriteBin, WriteDek, list_objects, ExportBin,
        ExportDek, WriteExport, ImportBin, FillBin, StartDeks, ImportDek,
        FillDek, ImportDone, disk, ghosts
  <2> QED BY <2>1, <2>2
<1>3. CASE Crash(p)
  BY <1>3 DEF Crash, ghosts
<1> QED
  BY <1>1, <1>2, <1>3 DEF Move

\* The ways into a control point of seal_object.
SealPc == {"bin0", "bin1", "dek0", "dek1"}

LEMMA SealMoves ==
  ASSUME Typed, NEW p \in Process, Move(p), proc'[p].pc \in SealPc
  PROVE  \/ \E d \in Dir, n \in Name, o \in ObjId : seal_object(p, d, n, o)
         \/ WriteBin(p)
         \/ WriteDek(p) /\ proc[p].pc = "dek0"
<1> DEFINE s == proc[p]
<1>0. /\ s \in ProcState /\ InHand(s) /\ proc \in [Process -> ProcState]
  BY DEF Typed, TypeOK, HandsTyped
<1>1. \A t : Become(p, t) => t.pc \in SealPc
  BY <1>0 DEF Become
<1>off. ~Become(p, Off)
  BY <1>1 DEF Off, SealPc
<1>to. \A c \in {"meta1", "bins", "exbin", "exdek", "out1", "deks"} :
         \A t : t.pc = c => ~Become(p, t)
  BY <1>1 DEF SealPc
<1>2. CASE Command(p)
  <2>1. ASSUME NEW m, NEW d
        PROVE  ~Become(p, [Off EXCEPT !.pc = "meta0", !.dir = d, !.m = m])
    <3>1. [Off EXCEPT !.pc = "meta0", !.dir = d, !.m = m].pc = "meta0"
      BY DEF Off
    <3> QED BY <1>1, <3>1 DEF SealPc
  <2>2. ASSUME NEW m, NEW d, NEW b
        PROVE  ~Become(p, [Off EXCEPT !.pc = "meta0", !.dir = d, !.m = m,
                                      !.box = b])
    <3>1. [Off EXCEPT !.pc = "meta0", !.dir = d, !.m = m,
           !.box = b].pc = "meta0"
      BY DEF Off
    <3> QED BY <1>1, <3>1 DEF SealPc
  <2>3. ASSUME NEW d, NEW b
        PROVE  ~Become(p, [Off EXCEPT !.pc = "list", !.dir = d, !.box = b])
    <3>1. [Off EXCEPT !.pc = "list", !.dir = d, !.box = b].pc = "list"
      BY DEF Off
    <3> QED BY <1>1, <3>1 DEF SealPc
  <2>4. ASSUME NEW d \in Dir, NEW i \in Identity, init(p, d, i)  PROVE FALSE
    BY <2>1, <2>4 DEF init
  <2>5. ASSUME NEW d \in Dir, NEW n \in Name, NEW k \in ScopeKey,
               add_scope(p, d, n, k)
        PROVE  FALSE
    BY <2>1, <2>5 DEF add_scope
  <2>6. ASSUME NEW d \in Dir, NEW a \in Author, trust_key(p, d, a)  PROVE FALSE
    BY <2>1, <2>6 DEF trust_key
  <2>7. ASSUME NEW d \in Dir, export(p, d)  PROVE FALSE
    BY <2>3, <2>7 DEF export
  <2>8. ASSUME NEW d \in Dir, import_file_into(p, d)  PROVE FALSE
    BY <2>2, <2>8 DEF import_file_into
  <2> QED BY <1>2, <2>4, <2>5, <2>6, <2>7, <2>8 DEF Command
<1>3. CASE Step(p)
  <2>1. ASSUME TruncateMeta(p)  PROVE FALSE
    <3>1. Become(p, [s EXCEPT !.pc = "meta1"])
      BY <2>1 DEF TruncateMeta
    <3>2. [s EXCEPT !.pc = "meta1"].pc = "meta1"
      BY <1>0 DEF ProcState
    <3> QED BY <1>to, <3>1, <3>2
  <2>2. ASSUME FillMeta(p)  PROVE FALSE
    <3>1. \/ Become(p, Off)
          \/ Become(p, [s EXCEPT !.pc = "bins", !.todo = Whole(s.box.objs)])
      BY <2>2 DEF FillMeta
    <3>2. [s EXCEPT !.pc = "bins", !.todo = Whole(s.box.objs)].pc = "bins"
      BY <1>0 DEF ProcState
    <3> QED BY <1>off, <1>to, <3>1, <3>2
  <2>3. ASSUME WriteDek(p)  PROVE s.pc = "dek0"
    BY <1>off, <2>3 DEF WriteDek
  <2>4. ASSUME list_objects(p)  PROVE FALSE
    <3>1. Become(p, [s EXCEPT !.pc = "exbin", !.todo = Whole(bin[s.dir])])
      BY <2>4 DEF list_objects
    <3>2. [s EXCEPT !.pc = "exbin", !.todo = Whole(bin[s.dir])].pc = "exbin"
      BY <1>0 DEF ProcState
    <3> QED BY <1>to, <3>1, <3>2
  <2>5. ASSUME NEW o \in ObjId, ExportBin(p, o)  PROVE FALSE
    <3>1. proc'[p] = [s EXCEPT !.pc = "exdek", !.obj = o,
                               !.box.objs[o] = bin[s.dir][o]]
      BY <1>0, <2>5 DEF ExportBin, Become
    <3>2. proc'[p].pc = "exdek"
      BY <1>0, <3>1 DEF ProcState
    <3> QED BY <3>2 DEF SealPc
  <2>6. ASSUME ExportDek(p)  PROVE FALSE
    <3>1. \/ Become(p, Off)
          \/ proc'[p] = [s EXCEPT !.pc = "exbin", !.todo = @ \ {s.obj},
                                  !.box.deks[s.obj] = dek[s.dir][s.obj]]
      BY <1>0, <2>6 DEF ExportDek, Become
    <3>2. Become(p, Off) \/ proc'[p].pc = "exbin"
      BY <1>0, <3>1 DEF ProcState
    <3> QED BY <1>off, <3>2 DEF SealPc
  <2>7. ASSUME WriteExport(p)  PROVE FALSE
    <3>1. Become(p, Off) \/ Become(p, [s EXCEPT !.pc = "out1"])
      BY <2>7 DEF WriteExport
    <3>2. [s EXCEPT !.pc = "out1"].pc = "out1"
      BY <1>0 DEF ProcState
    <3> QED BY <1>off, <1>to, <3>1, <3>2
  <2>8. ASSUME NEW o \in ObjId, ImportBin(p, o)  PROVE FALSE
    <3>1. /\ s.pc = "bins"
          /\ \/ Become(p, [s EXCEPT !.todo = @ \ {o}])
             \/ Become(p, [s EXCEPT !.pc = "ibin1", !.obj = o])
      BY <2>8 DEF ImportBin
    <3>2. /\ [s EXCEPT !.todo = @ \ {o}].pc = "bins"
          /\ [s EXCEPT !.pc = "ibin1", !.obj = o].pc = "ibin1"
      BY <1>0, <3>1 DEF ProcState
    <3> QED BY <1>1, <3>1, <3>2 DEF SealPc
  <2>9. ASSUME FillBin(p)  PROVE FALSE
    <3>1. Become(p, [s EXCEPT !.pc = "bins", !.todo = @ \ {s.obj}])
      BY <2>9 DEF FillBin
    <3>2. [s EXCEPT !.pc = "bins", !.todo = @ \ {s.obj}].pc = "bins"
      BY <1>0 DEF ProcState
    <3> QED BY <1>to, <3>1, <3>2
  <2>10. ASSUME StartDeks(p)  PROVE FALSE
    <3>1. Become(p, [s EXCEPT !.pc = "deks", !.todo = Whole(s.box.deks)])
      BY <2>10 DEF StartDeks
    <3>2. [s EXCEPT !.pc = "deks", !.todo = Whole(s.box.deks)].pc = "deks"
      BY <1>0 DEF ProcState
    <3> QED BY <1>to, <3>1, <3>2
  <2>11. ASSUME NEW o \in ObjId, ImportDek(p, o)  PROVE FALSE
    <3>1. /\ s.pc = "deks"
          /\ \/ Become(p, [s EXCEPT !.todo = @ \ {o}])
             \/ Become(p, [s EXCEPT !.pc = "idek1", !.obj = o])
      BY <2>11 DEF ImportDek
    <3>2. /\ [s EXCEPT !.todo = @ \ {o}].pc = "deks"
          /\ [s EXCEPT !.pc = "idek1", !.obj = o].pc = "idek1"
      BY <1>0, <3>1 DEF ProcState
    <3> QED BY <1>1, <3>1, <3>2 DEF SealPc
  <2>12. ASSUME FillDek(p)  PROVE FALSE
    <3>1. Become(p, [s EXCEPT !.pc = "deks", !.todo = @ \ {s.obj}])
      BY <2>12 DEF FillDek
    <3>2. [s EXCEPT !.pc = "deks", !.todo = @ \ {s.obj}].pc = "deks"
      BY <1>0 DEF ProcState
    <3> QED BY <1>to, <3>1, <3>2
  <2>13. ASSUME ImportDone(p)  PROVE FALSE
    BY <1>off, <2>13 DEF ImportDone
  <2> QED BY <1>3, <2>1, <2>2, <2>3, <2>4, <2>5, <2>6, <2>7, <2>8, <2>9,
             <2>10, <2>11, <2>12, <2>13 DEF Step
<1>4. CASE Crash(p)
  BY <1>off, <1>4 DEF Crash
<1> QED
  BY <1>2, <1>3, <1>4 DEF Move

-----------------------------------------------------------------------------
(* Every object belongs to the seal_object that drew its id.               *)

LEMMA UnlistedIsUntouched ==
  ASSUME HandsTyped, NEW o \in ObjId, Unlisted(o), NEW d \in Dir
  PROVE  Untouched(d, o)
<1> SUFFICES ASSUME NEW q \in Process, proc[q].pc \in {"ibin1", "idek1"},
                    proc[q].obj = o
             PROVE  FALSE
  BY DEF Untouched
<1>1. /\ proc[q].box \in Box
      /\ o \in Whole(proc[q].box.objs) \/ o \in Whole(proc[q].box.deks)
  BY DEF HandsTyped, InHand
<1> QED BY <1>1 DEF Unlisted, Whole

\* A seal in progress does not change its object; a new one draws a new id.
LEMMA SealerIsOld ==
  ASSUME Typed, NEW p \in Process, Move(p), NEW o \in drawn, Sealing(p, o)'
  PROVE  Sealing(p, o)
<1>0. proc[p] \in ProcState /\ proc \in [Process -> ProcState]
  BY DEF Typed, TypeOK
<1>1. proc'[p].pc \in SealPc /\ proc'[p].obj = o
  BY DEF Sealing, SealPc
<1>2. ASSUME NEW d \in Dir, NEW n \in Name, NEW x \in ObjId,
             seal_object(p, d, n, x)
      PROVE  FALSE
  <2>1. proc'[p].obj = x /\ x \notin drawn
    BY <1>0, <1>2 DEF seal_object, Become, Off
  <2> QED BY <1>1, <2>1
<1>3. CASE WriteBin(p)
  <2>1. /\ proc[p].pc \in {"bin0", "bin1"}
        /\ proc'[p] = [proc[p] EXCEPT !.pc = IF proc[p].pc = "bin0"
                                             THEN "bin1" ELSE "dek0"]
    BY <1>0, <1>3 DEF WriteBin, Become
  <2>2. proc'[p].obj = proc[p].obj
    BY <1>0, <2>1 DEF ProcState
  <2> QED BY <1>1, <2>1, <2>2 DEF Sealing
<1>4. CASE WriteDek(p) /\ proc[p].pc = "dek0"
  <2>1. proc'[p] = [proc[p] EXCEPT !.pc = "dek1"]
    BY <1>0, <1>4 DEF WriteDek, Become
  <2>2. proc'[p].obj = proc[p].obj
    BY <1>0, <2>1 DEF ProcState
  <2> QED BY <1>1, <1>4, <2>2 DEF Sealing
<1> QED
  BY <1>1, <1>2, <1>3, <1>4, SealMoves

\* A seal in progress is not disturbed by the step of another command.
LEMMA OthersSeal ==
  ASSUME Typed, ObjectsKept, NEW p \in Process, Move(p),
         NEW q \in Process, q # p
  PROVE  SealSound(q)'
<1> DEFINE s == proc[q]
<1>0. /\ proc'[q] = s /\ InHand(s) /\ SealSound(q)
      /\ DOMAIN acked = Dir
  BY MoveEffects DEF ObjectsKept, Typed, TypeOK, HandsTyped
<1> HIDE DEF s
<1> SUFFICES ASSUME s.pc \in SealPc
             PROVE  SealSound(q)'
  BY <1>0 DEF SealSound, SealPc
<1>1. /\ s.obj \in ObjId /\ s.scope \in Scope /\ s.dir \in Dir
  BY <1>0 DEF InHand, SealPc
<1>2. /\ s.obj \in drawn /\ Wrapped(s.dir, s.scope)
      /\ \A r \in Process : Sealing(r, s.obj) => r = q
      /\ \A d \in Dir : s.obj \notin acked[d]
      /\ s.pc # "dek1" => Unlisted(s.obj)
      /\ s.pc \in {"dek0", "dek1"} => bin[s.dir][s.obj] = s.scope
      /\ s.pc = "dek1" => /\ dek[s.dir][s.obj] # NoFile
                          /\ Untouched(s.dir, s.obj)
  BY <1>0 DEF SealSound, SealPc, s
<1>3. ~Sealing(p, s.obj)
  BY <1>2
<1>4. /\ s.obj \in drawn'
      /\ \E n \in Name : <<n, s.scope>> \in granted'[s.dir]
      /\ <<"identity", s.scope.ident>> \in granted'[s.dir]
  BY <1>1, <1>2, GhostsGrow DEF Wrapped
<1>5. ASSUME NEW r \in Process, proc'[r].pc \in SealPc, proc'[r].obj = s.obj
      PROVE  r = q
  <2> DEFINE o == s.obj
  <2>1. o \in drawn
    BY <1>2
  <2>2. CASE r = p
    <3> HIDE DEF o
    <3>1. proc'[p].pc \in SealPc /\ proc'[p].obj = o
      BY <1>5, <2>2 DEF o
    <3> QED BY <1>3, <2>1, <3>1, SealerIsOld DEF Sealing, SealPc, o
  <2>3. CASE r # p
    <3>1. proc'[r] = proc[r]
      BY <2>3, MoveEffects
    <3> QED BY <1>2, <1>5, <3>1 DEF Sealing, SealPc
  <2> QED BY <2>2, <2>3
<1>6. \A d \in Dir : s.obj \notin acked'[d]
  <2>1. CASE WriteDek(p) /\ proc[p].pc = "dek1"
    <3>1. acked' = [acked EXCEPT ![proc[p].dir] = @ \cup {proc[p].obj}]
      BY <2>1 DEF WriteDek
    <3>2. proc[p].obj # s.obj
      BY <1>3, <2>1 DEF Sealing
    <3> QED BY <1>0, <1>2, <3>1, <3>2
  <2>2. CASE acked' = acked
    BY <1>2, <2>2
  <2> QED BY <2>1, <2>2, GhostsGrow
<1>7. CASE s.pc = "dek1"
  <2>1. bin[s.dir][s.obj] # NoFile /\ dek[s.dir][s.obj] # NoFile
    BY <1>1, <1>2, <1>7, Distinct
  <2>2. /\ \A r \in Process : ~(proc'[r].pc \in {"ibin1", "idek1"}
                               /\ proc'[r].dir = s.dir /\ proc'[r].obj = s.obj)
        /\ bin'[s.dir][s.obj] = bin[s.dir][s.obj]
        /\ dek'[s.dir][s.obj] = dek[s.dir][s.obj]
    BY <1>1, <1>2, <1>3, <1>7, <2>1, FilesKept DEF Untouched
  <2> QED BY <1>0, <1>1, <1>2, <1>4, <1>5, <1>6, <1>7, <2>2
          DEF SealSound, Wrapped, Sealing, SealPc, Untouched
<1>8. CASE s.pc # "dek1"
  <2> DEFINE o == s.obj
  <2>1. Unlisted(o) /\ o \in ObjId
    BY <1>1, <1>2, <1>8
  <2>2. proc[p].pc \in {"dek0", "dek1"} => proc[p].obj # o
    BY <1>3 DEF Sealing
  <2> HIDE DEF o
  <2>3. \A d \in Dir : bin'[d][o] = bin[d][o]
    BY <1>3, <2>1, <2>2, UnlistedKept DEF o
  <2>4. \A x : x = o => Unlisted(x)'
    BY <2>1, <2>2, UnlistedKept
  <2>5. proc'[q].obj = o
    BY <1>0 DEF o
  <2>6. Unlisted(proc[q].obj)'
    BY <2>4, <2>5
  <2> QED BY <1>0, <1>1, <1>2, <1>4, <1>5, <1>6, <1>8, <2>3, <2>6
          DEF SealSound, Wrapped, Sealing, SealPc, o
<1> QED
  BY <1>7, <1>8

\* The command itself: seal_object draws a fresh id, and writes its two files.
LEMMA OwnSeal ==
  ASSUME Typed, MetaOwn, ObjectsKept, NEW p \in Process, Move(p)
  PROVE  SealSound(p)'
<1> SUFFICES ASSUME proc'[p].pc \in SealPc
             PROVE  SealSound(p)'
  BY DEF SealSound, SealPc
<1>0. /\ proc[p] \in ProcState /\ proc \in [Process -> ProcState]
      /\ InHand(proc[p]) /\ SealSound(p)
      /\ bin \in [Dir -> [ObjId -> ObjFile]]
      /\ dek \in [Dir -> [ObjId -> ObjFile]]
      /\ \A q \in Process \ {p} : proc'[q] = proc[q]
  BY MoveEffects DEF ObjectsKept, Typed, TypeOK, HandsTyped
<1>1. ASSUME NEW d \in Dir, NEW n \in Name, NEW o \in ObjId,
             seal_object(p, d, n, o)
      PROVE  SealSound(p)'
  <2> DEFINE e == meta[d].scopes[n]
  <2>1. /\ proc[p].pc = "off" /\ meta[d] \in Meta /\ e # None
        /\ o \notin drawn /\ drawn' = drawn \cup {o}
        /\ UNCHANGED <<disk, ghosts>>
        /\ proc'[p] = [Off EXCEPT !.pc = "bin0", !.dir = d, !.obj = o,
                                  !.scope = meta[d].scopes[n]]
    BY <1>0, <1>1 DEF seal_object, Idle, Become
  <2>2. /\ proc'[p].pc = "bin0" /\ proc'[p].dir = d /\ proc'[p].obj = o
        /\ proc'[p].scope = e
    BY <2>1 DEF Off
  <2>3. e \in Scope /\ <<n, e>> \in granted[d]
        /\ <<"identity", e.ident>> \in granted[d]
    <3>1. OneIdentity(meta[d]) /\ Granted(meta[d]) \subseteq granted[d]
      BY <2>1 DEF MetaOwn
    <3>2. e \in Scope /\ e.ident = meta[d].ident
      BY <2>1, <3>1 DEF Meta, OneIdentity
    <3>3. <<n, e>> \in Granted(meta[d])
          /\ <<"identity", e.ident>> \in Granted(meta[d])
      BY <2>1, <3>2 DEF Granted
    <3> QED BY <3>1, <3>2, <3>3
  <2>4. Unlisted(o)'
    BY <2>1, UnlistedKept DEF ObjectsKept
  <2>5. \A q \in Process : Sealing(q, o)' => q = p
    <3> SUFFICES ASSUME NEW q \in Process, q # p, Sealing(q, o)'
                 PROVE  FALSE
      OBVIOUS
    <3>1. proc[q].pc \in SealPc /\ proc[q].obj = o
      BY <1>0 DEF Sealing, SealPc
    <3> QED BY <2>1, <3>1 DEF ObjectsKept, SealSound, SealPc
  <2>6. \A c \in Dir : o \notin acked'[c]
    BY <2>1 DEF ghosts, ObjectsKept, AckedSound
  <2>7. granted' = granted /\ o \in drawn'
    BY <2>1 DEF ghosts
  <2> HIDE DEF e
  <2> QED BY <2>2, <2>3, <2>4, <2>5, <2>6, <2>7
          DEF SealSound, Wrapped, Sealing
<1>2. ASSUME proc[p].pc \in SealPc, UNCHANGED <<drawn, acked, granted>>,
             proc'[p].obj = proc[p].obj, proc'[p].scope = proc[p].scope,
             proc'[p].dir = proc[p].dir,
             proc'[p].pc # "dek1" => Unlisted(proc[p].obj)',
             proc'[p].pc \in {"dek0", "dek1"} =>
               bin'[proc[p].dir][proc[p].obj] = proc[p].scope,
             proc'[p].pc = "dek1" =>
               /\ dek'[proc[p].dir][proc[p].obj] # NoFile
               /\ \A x \in Dir, y \in ObjId :
                    x = proc[p].dir /\ y = proc[p].obj => Untouched(x, y)'
      PROVE  SealSound(p)'
  <2>1. /\ proc[p].obj \in drawn /\ Wrapped(proc[p].dir, proc[p].scope)
        /\ \A q \in Process : Sealing(q, proc[p].obj) => q = p
        /\ \A c \in Dir : proc[p].obj \notin acked[c]
        /\ proc[p].obj \in ObjId /\ proc[p].dir \in Dir
    BY <1>0, <1>2 DEF SealSound, SealPc, InHand
  <2>2. \A q \in Process : proc'[q].pc \in SealPc /\ proc'[q].obj = proc[p].obj
                             => q = p
    BY <1>0, <2>1 DEF Sealing, SealPc
  <2> QED BY <1>2, <2>1, <2>2 DEF SealSound, Wrapped, Sealing, SealPc, Untouched
<1>3. CASE WriteBin(p)
  <2> DEFINE s == proc[p]
  <2>1. /\ s.pc \in {"bin0", "bin1"} /\ UNCHANGED <<meta, dek, amem, drawn, ghosts>>
        /\ proc'[p] = [s EXCEPT !.pc = IF s.pc = "bin0" THEN "bin1" ELSE "dek0"]
        /\ bin' = [bin EXCEPT ![s.dir][s.obj] =
                     IF s.pc = "bin0" THEN Torn ELSE s.scope]
    BY <1>0, <1>3 DEF WriteBin, Become
  <2>2. /\ proc'[p].pc = IF s.pc = "bin0" THEN "bin1" ELSE "dek0"
        /\ proc'[p].obj = s.obj /\ proc'[p].scope = s.scope
        /\ proc'[p].dir = s.dir
    BY <1>0, <2>1 DEF ProcState
  <2>3. s.obj \in ObjId /\ s.dir \in Dir /\ Unlisted(s.obj)
    BY <1>0, <2>1 DEF InHand, SealSound
  <2>4. \A x \in ObjId : x = s.obj => Unlisted(x)'
    BY <2>1, <2>3, UnlistedKept
  <2>5. Unlisted(s.obj)'
    BY <2>2, <2>3, <2>4
  <2>6. s.pc = "bin1" => bin'[s.dir][s.obj] = s.scope
    BY <1>0, <2>1, <2>3
  <2> QED BY <1>2, <2>1, <2>2, <2>5, <2>6 DEF SealPc, ghosts
<1>4. CASE WriteDek(p) /\ proc[p].pc = "dek0"
  <2> DEFINE s == proc[p]
  <2>1. /\ s.pc = "dek0" /\ UNCHANGED <<meta, bin, amem, drawn, granted, acked>>
        /\ proc'[p] = [s EXCEPT !.pc = "dek1"]
        /\ dek' = [dek EXCEPT ![s.dir][s.obj] = Torn]
    BY <1>0, <1>4 DEF WriteDek, Become
  <2>2. /\ proc'[p].pc = "dek1"
        /\ proc'[p].obj = s.obj /\ proc'[p].scope = s.scope
        /\ proc'[p].dir = s.dir
    BY <1>0, <2>1 DEF ProcState
  <2>3. /\ s.obj \in ObjId /\ s.dir \in Dir /\ Unlisted(s.obj)
        /\ bin[s.dir][s.obj] = s.scope
    BY <1>0, <2>1 DEF InHand, SealSound
  <2>4. dek'[s.dir][s.obj] # NoFile
    BY <1>0, <2>1, <2>3, Distinct
  <2>5. ASSUME NEW x \in Dir, NEW y \in ObjId, y = s.obj
        PROVE  Untouched(x, y)'
    <3>1. Untouched(x, y)
      BY <2>3, <2>5, UnlistedIsUntouched DEF Typed
    <3> QED BY <1>0, <2>2, <3>1 DEF Untouched
  <2> QED BY <1>2, <2>1, <2>2, <2>3, <2>4, <2>5 DEF SealPc
<1> QED
  BY <1>1, <1>3, <1>4, SealMoves

\* An acknowledged object keeps both its files.
LEMMA AckedKept ==
  ASSUME Typed, ObjectsKept, NEW p \in Process, Move(p),
         NEW d \in Dir, NEW o \in acked'[d], o \in ObjId
  PROVE  AckedSound(d, o)'
<1>0. /\ proc[p] \in ProcState /\ proc \in [Process -> ProcState]
      /\ InHand(proc[p]) /\ SealSound(p)
      /\ bin \in [Dir -> [ObjId -> ObjFile]]
      /\ dek \in [Dir -> [ObjId -> ObjFile]]
      /\ DOMAIN acked = Dir
      /\ drawn \subseteq drawn' /\ granted[d] \subseteq granted'[d]
      /\ \A q \in Process \ {p} : proc'[q] = proc[q]
  BY MoveEffects, GhostsGrow DEF ObjectsKept, Typed, TypeOK, HandsTyped
<1>1. CASE o \in acked[d]
  <2>1. AckedSound(d, o)
    BY <1>1 DEF ObjectsKept
  <2>2. bin[d][o] # NoFile /\ dek[d][o] # NoFile
    BY <2>1, Distinct DEF AckedSound, Wrapped
  <2>3. ~Sealing(p, o)
    BY <1>0, <1>1 DEF SealSound, Sealing
  <2>4. Untouched(d, o)' /\ bin'[d][o] = bin[d][o] /\ dek'[d][o] = dek[d][o]
    BY <2>1, <2>2, <2>3, FilesKept DEF AckedSound
  <2> QED BY <1>0, <2>1, <2>4 DEF AckedSound, Wrapped
<1>2. CASE o \notin acked[d]
  <2> DEFINE s == proc[p]
  <2>1. WriteDek(p) /\ s.pc = "dek1"
    BY <1>2, GhostsGrow
  <2>2. /\ acked' = [acked EXCEPT ![s.dir] = @ \cup {s.obj}]
        /\ bin' = bin /\ dek' = [dek EXCEPT ![s.dir][s.obj] = s.scope]
        /\ Become(p, Off)
    BY <2>1 DEF WriteDek
  <2>3. /\ s.dir \in Dir /\ s.obj \in drawn /\ Wrapped(s.dir, s.scope)
        /\ bin[s.dir][s.obj] = s.scope /\ Untouched(s.dir, s.obj)
    BY <1>0, <2>1 DEF SealSound, InHand
  <2>4. d = s.dir /\ o = s.obj
    BY <1>0, <1>2, <2>2, <2>3
  <2>5. bin'[d][o] = s.scope /\ dek'[d][o] = s.scope
    BY <1>0, <2>2, <2>3, <2>4
  <2>6. proc'[p].pc = "off"
    BY <1>0, <2>2 DEF Become, Off
  <2>7. Untouched(d, o)'
    BY <1>0, <2>3, <2>4, <2>6 DEF Untouched
  <2> QED BY <1>0, <2>3, <2>4, <2>5, <2>7 DEF AckedSound, Wrapped
<1> QED
  BY <1>1, <1>2

LEMMA ObjectsKeptNext ==
  Typed /\ MetaOwn /\ ObjectsKept /\ [Next]_vars => ObjectsKept'
<1> SUFFICES ASSUME Typed, MetaOwn, ObjectsKept, [Next]_vars
             PROVE  ObjectsKept'
  OBVIOUS
<1>1. CASE UNCHANGED vars
  <2>1. UNCHANGED <<meta, bin, dek, amem, proc, drawn, acked, granted>>
    BY <1>1 DEF vars
  <2>2. \A o \in ObjId \ drawn' : Unlisted(o)'
    BY <2>1 DEF ObjectsKept, Unlisted
  <2>3. ASSUME NEW q \in Process
        PROVE  SealSound(q)'
    <3>1. SealSound(q)
      BY DEF ObjectsKept
    <3> QED BY <2>1, <3>1
            DEF SealSound, Wrapped, Sealing, Unlisted, Untouched
  <2>4. ASSUME NEW d \in Dir, NEW o \in acked'[d]
        PROVE  AckedSound(d, o)'
    <3>1. AckedSound(d, o)
      BY <2>1 DEF ObjectsKept
    <3> QED BY <2>1, <3>1 DEF AckedSound, Wrapped, Untouched
  <2> QED BY <2>2, <2>3, <2>4 DEF ObjectsKept
<1>2. ASSUME NEW p \in Process, Move(p)
      PROVE  ObjectsKept'
  <2>1. ASSUME NEW o \in ObjId \ drawn'
        PROVE  Unlisted(o)'
    <3>1. o \notin drawn
      BY <1>2, GhostsGrow
    <3>2. proc[p].pc \in {"dek0", "dek1"} => proc[p].obj # o
      BY <3>1 DEF ObjectsKept, SealSound
    <3> QED BY <1>2, <3>1, <3>2, UnlistedKept DEF ObjectsKept
  <2>2. ASSUME NEW q \in Process
        PROVE  SealSound(q)'
    BY <1>2, OthersSeal, OwnSeal
  <2>3. ASSUME NEW d \in Dir, NEW o \in acked'[d]
        PROVE  AckedSound(d, o)'
    <3>1. Typed'
      BY TypedNext
    <3>2. o \in ObjId
      BY <3>1 DEF Typed, TypeOK
    <3> QED BY <1>2, <3>2, AckedKept
  <2> QED BY <2>1, <2>2, <2>3 DEF ObjectsKept
<1> QED
  BY <1>1, <1>2 DEF Next, Move

LEMMA ObjectsInit == Init => MetaOwn /\ ObjectsKept
<1> SUFFICES ASSUME Init PROVE MetaOwn /\ ObjectsKept
  OBVIOUS
<1>1. MetaOwn
  BY Distinct DEF Init, MetaOwn, Off
<1>2. ObjectsKept
  BY Distinct DEF Init, ObjectsKept, Unlisted, SealSound, Off, NoObjects
<1> QED BY <1>1, <1>2

\* With what vault.cbor was granted still in it, a whole object is readable.
LEMMA WrappedIsReadable ==
  ASSUME MetaKept, NEW d \in Dir, meta[d] \in Meta, NEW o,
         Wrapped(d, bin[d][o]), dek[d][o] = bin[d][o]
  PROVE  Readable(d, o)
<1> DEFINE e == bin[d][o]
<1>1. granted[d] \subseteq Granted(meta[d])
  BY DEF MetaKept, ScopesNeverOverwritten
<1>2. <<"identity", e.ident>> \in Granted(meta[d])
  BY <1>1 DEF Wrapped
<1>3. PICK n \in Name : <<n, e>> \in Granted(meta[d])
  BY <1>1 DEF Wrapped
<1>4. e.ident = meta[d].ident
  BY <1>2, FilesAssumption DEF Granted
<1>5. meta[d].scopes[n] = e
  BY <1>3, FilesAssumption DEF Granted
<1>6. e \in Scope
  BY DEF Wrapped
<1> HIDE DEF e
<1> QED BY <1>4, <1>5, <1>6 DEF Readable, e

LEMMA KeptIsReadable ==
  MetaKept /\ ObjectsKept => AckedIsReadable
<1> SUFFICES ASSUME MetaKept, ObjectsKept,
                    NEW d \in Dir, meta[d] \in Meta, NEW o \in acked[d]
             PROVE  Readable(d, o)
  BY DEF AckedIsReadable
<1>1. Wrapped(d, bin[d][o]) /\ dek[d][o] = bin[d][o]
  BY DEF ObjectsKept, AckedSound
<1> QED BY <1>1, WrappedIsReadable

\* A memory whose seal_object has returned stays readable as long as no two
\* commands change the same vault.cbor at a time: vault.cbor keeps the scope
\* it is wrapped for, and no command, import or crash touches its two files.
THEOREM AckedStaysReadableInTurn ==
  Spec /\ []WritersApart => []AckedIsReadable
<1> QED
  BY MetaKeptInit, KeptIsReadable, TypedInit, TypedNext, MetaKeptNext,
     MetaOwnNext, ObjectsInit, ObjectsKeptNext, PTL DEF Spec

\* In particular when one process alone changes vault.cbor.
THEOREM AckedStaysReadable ==
  ASSUME OneAdmin
  PROVE  Spec => []AckedIsReadable
<1> QED
  BY MetaKeptInit, OneAdminIsApart, KeptIsReadable, TypedInit, TypedNext,
     MetaKeptNext, MetaOwnNext, ObjectsInit, ObjectsKeptNext, PTL DEF Spec
=============================================================================
