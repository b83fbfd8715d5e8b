--------------------------- MODULE ContainerProofs --------------------------
(***************************************************************************)
(* The .amem file: what export writes is complete, and what import_file_   *)
(* into restores from it is readable, for any number of vaults, scopes and *)
(* objects and any number of commands, when commands on one vault take     *)
(* turns and none is killed in the middle of a file of an import.          *)
(***************************************************************************)
EXTENDS VaultFilesProofs

\* Commands on one vault directory run one after the other.
OneCommandPerVault ==
  \A p, q \in Process :
    ~Idle(p) /\ ~Idle(q) /\ proc[p].dir = proc[q].dir => p = q

\* No command dies while a file it imports is truncated.
ImportsFillTheirFiles == "ibin1" \notin CrashAt /\ "idek1" \notin CrashAt

-----------------------------------------------------------------------------
(* The inductive invariant.                                                *)

\* Nobody but the directory of its seal_object knows of an object that is
\* being sealed, and nobody at all of an id that is not drawn.
NoBoxHas(o) ==
  /\ amem \in Box => amem.objs[o] = NoFile /\ amem.deks[o] = NoFile
  /\ \A q \in Process : proc[q].box \in Box =>
       proc[q].box.objs[o] = NoFile /\ proc[q].box.deks[o] = NoFile
NoFileIn(d, o) == bin[d][o] = NoFile /\ dek[d][o] = NoFile
SealedAlone(p) ==
  proc[p].pc \in SealPc =>
    /\ NoBoxHas(proc[p].obj)
    /\ \A d \in Dir \ {proc[p].dir} : NoFileIn(d, proc[p].obj)
IdsOwned ==
  /\ \A o \in ObjId \ drawn : NoBoxHas(o) /\ \A d \in Dir : NoFileIn(d, o)
  /\ \A p \in Process : SealedAlone(p)

Acked(o) == \E h \in Dir : o \in acked[h]
InMeta(m, scope) ==
  /\ scope \in Scope /\ scope.ident = m.ident
  /\ \E n \in Name : m.scopes[n] = scope

\* A finished .amem file: every object it lists is whole and in one of its
\* scopes, and what was acknowledged is there with its DEK.
BoxWhole(b) ==
  /\ \A o \in ObjId : b.deks[o] # NoFile => b.objs[o] # NoFile
  /\ \A o \in Whole(b.objs) : InMeta(b.meta, b.objs[o])
  /\ \A o \in b.promised : b.objs[o] # NoFile /\ b.deks[o] = b.objs[o]
BoxSound(b) == BoxWhole(b) /\ \A o \in b.promised : Acked(o)

\* What an export has gathered so far is what the directory holds.
ExportSound(p) ==
  LET s == proc[p]
      d == s.dir
  IN  /\ s.box.meta = meta[d] /\ meta[d] \in Meta
      /\ s.box.promised \subseteq acked[d]
      /\ s.pc = "list" => s.box.objs = NoObjects /\ s.box.deks = NoObjects
      /\ s.pc # "list" =>
           \A o \in ObjId \ s.todo :
             /\ s.box.objs[o] = bin[d][o] /\ s.box.deks[o] = dek[d][o]
             /\ bin[d][o] # NoFile => dek[d][o] # NoFile
      /\ s.pc = "exdek" => s.obj \in s.todo /\ s.box.objs[s.obj] = bin[d][s.obj]
      /\ s.pc = "out1" => s.todo = {}

\* An import has the scopes of its objects first, then the objects, then
\* their DEKs.
ImportSound(p) ==
  LET s == proc[p]
      d == s.dir
  IN  /\ BoxSound(s.box)
      /\ s.pc \in {"meta0", "meta1"} =>
           \A o \in Whole(s.box.objs) : InMeta(s.m, s.box.objs[o])
      /\ s.pc \in {"bins", "ibin1", "deks", "idek1"} =>
           \A o \in Whole(s.box.objs) : Wrapped(d, s.box.objs[o])
      /\ s.pc \in {"bins", "ibin1"} =>
           \A o \in Whole(s.box.objs) \ s.todo : Wrapped(d, bin[d][o])
      /\ s.pc \in {"deks", "idek1"} =>
           /\ \A o \in Whole(s.box.objs) : Wrapped(d, bin[d][o])
           /\ \A o \in Whole(s.box.deks) \ s.todo : dek[d][o] # NoFile
      /\ s.pc = "ibin1" => /\ bin[d][s.obj] = Torn /\ dek[d][s.obj] = NoFile
                           /\ s.obj \in s.todo
      /\ s.pc = "idek1" => dek[d][s.obj] = Torn

ExportPc == {"list", "exbin", "exdek", "out1"}
ImportPc == {"meta0", "meta1", "bins", "ibin1", "deks", "idek1"}
HandSound(p) ==
  /\ proc[p].pc \in ExportPc => ExportSound(p)
  /\ proc[p].pc \in ImportPc /\ proc[p].box \in Box => ImportSound(p)

\* A file with a .dek is whole and in a scope of the vault; a .bin that is not
\* is being imported, or was left by a seal_object that died and no .amem file
\* has it.
Opening(c, d, o) ==
  \E q \in Process : proc[q].pc = c /\ proc[q].dir = d /\ proc[q].obj = o
FileSound(d, o) ==
  /\ dek[d][o] # NoFile => Wrapped(d, bin[d][o])
  /\ bin[d][o] # NoFile =>
       Wrapped(d, bin[d][o]) \/ Unlisted(o) \/ Opening("ibin1", d, o)

\* Every copy of an acknowledged object is the object.
CopiesSound(h, o) ==
  LET Copy(x) == x = NoFile \/ x = bin[h][o]
  IN  /\ \A d \in Dir : /\ Copy(bin[d][o]) \/ Opening("ibin1", d, o)
                        /\ Copy(dek[d][o]) \/ Opening("idek1", d, o)
      /\ amem \in Box => Copy(amem.objs[o]) /\ Copy(amem.deks[o])
      /\ \A q \in Process : proc[q].box \in Box =>
           Copy(proc[q].box.objs[o]) /\ Copy(proc[q].box.deks[o])

RestoredSound(d, o) ==
  Wrapped(d, bin[d][o]) /\ dek[d][o] = bin[d][o] /\ Acked(o)

ContainersSound ==
  /\ IdsOwned
  /\ \A p \in Process : HandSound(p)
  /\ amem \in Box => BoxSound(amem)
  /\ \A d \in Dir, o \in ObjId : FileSound(d, o)
  /\ \A h \in Dir : \A o \in acked[h] : CopiesSound(h, o)
  /\ \A d \in Dir : \A o \in restored[d] : RestoredSound(d, o)

\* What the steps below start from.
Held ==
  /\ Typed /\ MetaKept /\ MetaOwn /\ ObjectsKept /\ ContainersSound
  /\ OneCommandPerVault

LEMMA HeldAt ==
  ASSUME Held, NEW p \in Process
  PROVE  /\ proc \in [Process -> ProcState] /\ proc[p] \in ProcState
         /\ InHand(proc[p]) /\ HandSound(p) /\ SealSound(p) /\ SealedAlone(p)
         /\ proc[p].pc # "off" => proc[p].dir \in Dir
         /\ DOMAIN acked = Dir /\ DOMAIN granted = Dir
         /\ bin \in [Dir -> [ObjId -> ObjFile]]
         /\ dek \in [Dir -> [ObjId -> ObjFile]]
BY DEF Held, Typed, TypeOK, HandsTyped, InHand, ContainersSound, ObjectsKept,
       IdsOwned

-----------------------------------------------------------------------------
(* What a step of p reads and writes.                                      *)

\* It writes in its own directory only, and what is granted or acknowledged
\* stays.
LEMMA Elsewhere ==
  ASSUME Typed, NEW p \in Process, Move(p), NEW d \in Dir,
         ~Idle(p) => proc[p].dir # d
  PROVE  /\ meta'[d] = meta[d] /\ bin'[d] = bin[d] /\ dek'[d] = dek[d]
         /\ acked'[d] = acked[d] /\ granted'[d] = granted[d]
<1>0. /\ InHand(proc[p])
      /\ DOMAIN meta = Dir /\ DOMAIN bin = Dir /\ DOMAIN dek = Dir
      /\ DOMAIN acked = Dir /\ DOMAIN granted = Dir
  BY DEF Typed, TypeOK, HandsTyped
<1>1. CASE Command(p) \/ Crash(p)
  <2>1. UNCHANGED <<disk, ghosts>>
    <3>1. CASE Command(p)
      BY <3>1, CommandStarts
    <3> QED BY <1>1, <3>1 DEF Crash
  <2> QED BY <2>1 DEF disk, ghosts
<1>2. CASE Step(p)
  <2>1. ~Idle(p)
    BY <1>2, StepInDir
  <2>2. proc[p].dir \in Dir /\ proc[p].dir # d
    BY <1>0, <2>1 DEF InHand, Idle
  <2>3. CASE TruncateMeta(p) \/ FillMeta(p)
    BY <1>0, <2>2, <2>3 DEF TruncateMeta, FillMeta, ghosts
  <2>4. CASE WriteBin(p) \/ WriteDek(p)
    BY <1>0, <2>2, <2>4 DEF WriteBin, WriteDek, ghosts
  <2>5. CASE list_objects(p) \/ (\E o \in ObjId : ExportBin(p, o))
             \/ ExportDek(p) \/ WriteExport(p) \/ StartDeks(p)
             \/ ImportDone(p)
    BY <2>5 DEF list_objects, ExportBin, ExportDek, WriteExport, StartDeks,
                ImportDone, disk, ghosts
  <2>6. CASE (\E o \in ObjId : ImportBin(p, o)) \/ FillBin(p)
    BY <1>0, <2>2, <2>6 DEF ImportBin, FillBin, ghosts
  <2>7. CASE (\E o \in ObjId : ImportDek(p, o)) \/ FillDek(p)
    BY <1>0, <2>2, <2>7 DEF ImportDek, FillDek, ghosts
  <2> QED
    BY <1>2, <2>3, <2>4, <2>5, <2>6, <2>7 DEF Step
<1> QED
  BY <1>1, <1>2 DEF Move

LEMMA GhostsStay ==
  ASSUME Held, NEW p \in Process, Move(p)
  PROVE  /\ \A o : Acked(o) => Acked(o)'
         /\ \A d \in Dir : acked[d] \subseteq acked'[d]
         /\ \A d \in Dir : \A x : Wrapped(d, x) => Wrapped(d, x)'
<1>1. \A d \in Dir : acked[d] \subseteq acked'[d]
  <2>1. CASE WriteDek(p) /\ proc[p].pc = "dek1"
    BY <2>1, HeldAt DEF WriteDek
  <2>2. Typed
    BY DEF Held
  <2> QED BY <2>1, <2>2, GhostsGrow
<1>2. \A o : Acked(o) => Acked(o)'
  BY <1>1 DEF Acked
<1>3. \A d \in Dir : granted[d] \subseteq granted'[d]
  BY GhostsGrow DEF Held
<1> QED
  BY <1>1, <1>2, <1>3 DEF Wrapped

\* A directory in which another command is at work.
LEMMA OthersDir ==
  ASSUME Held, NEW p \in Process, Move(p), NEW q \in Process, q # p, ~Idle(q)
  PROVE  LET d == proc[q].dir
         IN  /\ d \in Dir /\ proc'[q] = proc[q]
             /\ meta'[d] = meta[d] /\ bin'[d] = bin[d] /\ dek'[d] = dek[d]
             /\ acked'[d] = acked[d] /\ granted'[d] = granted[d]
<1>1. proc[q].dir \in Dir
  BY HeldAt DEF Idle
<1>2. ~Idle(p) => proc[p].dir # proc[q].dir
  BY DEF Held, OneCommandPerVault
<1>3. proc'[q] = proc[q]
  BY MoveEffects DEF Held
<1> QED
  BY <1>1, <1>2, <1>3, Elsewhere DEF Held

LEMMA OthersHand ==
  ASSUME Held, NEW p \in Process, Move(p), NEW q \in Process, q # p
  PROVE  HandSound(q)'
<1> DEFINE s == proc[q]
           d == s.dir
<1>0. proc'[q] = proc[q] /\ HandSound(q) /\ InHand(proc[q])
  BY MoveEffects, HeldAt DEF Held
<1>1. CASE Idle(q)
  BY <1>0, <1>1 DEF HandSound, Idle, ExportPc, ImportPc
<1>2. CASE ~Idle(q)
  <2>1. /\ d \in Dir
        /\ meta'[d] = meta[d] /\ bin'[d] = bin[d] /\ dek'[d] = dek[d]
        /\ acked'[d] = acked[d] /\ granted'[d] = granted[d]
    BY <1>2, OthersDir
  <2>2. ASSUME s.pc \in ExportPc
        PROVE  ExportSound(q)'
    <3>1. ExportSound(q)
      BY <1>0, <2>2 DEF HandSound
    <3> QED BY <1>0, <2>1, <3>1 DEF ExportSound
  <2>3. ASSUME s.pc \in ImportPc, s.box \in Box
        PROVE  ImportSound(q)'
    <3>1. ImportSound(q)
      BY <1>0, <2>3 DEF HandSound
    <3>2. \A o : Acked(o) => Acked(o)'
      BY GhostsStay
    <3>3. \A x : Wrapped(d, x) => Wrapped(d, x)'
      BY <1>0, <2>1 DEF Wrapped
    <3> QED BY <1>0, <2>1, <3>1, <3>2, <3>3
            DEF ImportSound, BoxSound, Wrapped
  <2> QED BY <1>0, <2>2, <2>3 DEF HandSound
<1> QED
  BY <1>1, <1>2

-----------------------------------------------------------------------------
(* Where the new content of a file or of a box comes from.                 *)

BinFrom(p, d, o) ==
  LET s == proc[p]
      t == proc'[p]
  IN  \/ bin'[d][o] = bin[d][o]
      \/ s.pc \in {"bin0", "bin1"} /\ s.dir = d /\ s.obj = o
      \/ /\ s.pc = "bins" /\ s.dir = d /\ o \in s.todo /\ bin[d][o] = NoFile
         /\ bin'[d][o] = Torn
         /\ t.pc = "ibin1" /\ t.dir = d /\ t.obj = o
      \/ /\ s.pc = "ibin1" /\ s.dir = d /\ s.obj = o
         /\ bin'[d][o] = s.box.objs[o]
DekFrom(p, d, o) ==
  LET s == proc[p]
      t == proc'[p]
  IN  \/ dek'[d][o] = dek[d][o]
      \/ s.pc \in {"dek0", "dek1"} /\ s.dir = d /\ s.obj = o
      \/ /\ s.pc = "deks" /\ s.dir = d /\ o \in s.todo /\ dek[d][o] = NoFile
         /\ dek'[d][o] = Torn
         /\ t.pc = "idek1" /\ t.dir = d /\ t.obj = o
      \/ /\ s.pc = "idek1" /\ s.dir = d /\ s.obj = o
         /\ dek'[d][o] = s.box.deks[o]

LEMMA FilesFrom ==
  ASSUME Typed, NEW p \in Process, Move(p), NEW d \in Dir, NEW o \in ObjId
  PROVE  /\ BinFrom(p, d, o) /\ DekFrom(p, d, o)
         /\ bin'[d][o] = bin[d][o] \/ dek'[d][o] = dek[d][o]
<1> DEFINE s == proc[p]
<1>0. /\ proc \in [Process -> ProcState] /\ s \in ProcState /\ InHand(s)
      /\ bin \in [Dir -> [ObjId -> ObjFile]]
      /\ dek \in [Dir -> [ObjId -> ObjFile]]
  BY DEF Typed, TypeOK, HandsTyped
<1>q. ASSUME bin' = bin, dek' = dek
      PROVE  /\ BinFrom(p, d, o) /\ DekFrom(p, d, o)
             /\ bin'[d][o] = bin[d][o] \/ dek'[d][o] = dek[d][o]
  BY <1>q DEF BinFrom, DekFrom
<1>1. CASE Command(p) \/ Crash(p)
  <2>1. UNCHANGED disk
    BY <1>1, CommandStarts DEF Crash
  <2> QED BY <1>q, <2>1 DEF disk
<1>2. CASE TruncateMeta(p) \/ FillMeta(p)
  BY <1>q, <1>2 DEF TruncateMeta, FillMeta
<1>3. CASE list_objects(p) \/ (\E x \in ObjId : ExportBin(p, x))
           \/ ExportDek(p) \/ WriteExport(p) \/ StartDeks(p) \/ ImportDone(p)
  BY <1>q, <1>3 DEF list_objects, ExportBin, ExportDek, WriteExport, StartDeks,
                    ImportDone, disk
<1>4. CASE WriteBin(p)
  <2>1. /\ s.pc \in {"bin0", "bin1"} /\ s.dir \in Dir /\ s.obj \in ObjId
        /\ dek' = dek
        /\ bin' = [bin EXCEPT ![s.dir][s.obj] =
                     IF s.pc = "bin0" THEN Torn ELSE s.scope]
    BY <1>0, <1>4 DEF WriteBin, InHand
  <2>2. bin'[d][o] = bin[d][o] \/ (s.dir = d /\ s.obj = o)
    BY <1>0, <2>1
  <2> QED BY <2>1, <2>2 DEF BinFrom, DekFrom
<1>5. CASE WriteDek(p)
  <2>1. /\ s.pc \in {"dek0", "dek1"} /\ s.dir \in Dir /\ s.obj \in ObjId
        /\ bin' = bin
        /\ dek' = [dek EXCEPT ![s.dir][s.obj] =
                     IF s.pc = "dek0" THEN Torn ELSE s.scope]
    BY <1>0, <1>5 DEF WriteDek, InHand
  <2>2. dek'[d][o] = dek[d][o] \/ (s.dir = d /\ s.obj = o)
    BY <1>0, <2>1
  <2> QED BY <2>1, <2>2 DEF BinFrom, DekFrom
<1>6. ASSUME NEW x \in ObjId, ImportBin(p, x)
      PROVE  /\ BinFrom(p, d, o) /\ DekFrom(p, d, o)
             /\ bin'[d][o] = bin[d][o] \/ dek'[d][o] = dek[d][o]
  <2>1. s.pc = "bins" /\ s.dir \in Dir /\ x \in s.todo /\ dek' = dek
    BY <1>0, <1>6 DEF ImportBin, InHand
  <2>2. CASE bin[s.dir][x] # NoFile
    BY <1>q, <1>6, <2>1, <2>2 DEF ImportBin
  <2>3. CASE bin[s.dir][x] = NoFile
    <3>1. /\ bin' = [bin EXCEPT ![s.dir][x] = Torn]
          /\ proc'[p] = [s EXCEPT !.pc = "ibin1", !.obj = x]
      BY <1>0, <1>6, <2>3 DEF ImportBin, Become
    <3>2. proc'[p].pc = "ibin1" /\ proc'[p].dir = s.dir /\ proc'[p].obj = x
      BY <1>0, <3>1 DEF ProcState
    <3>3. bin'[d][o] = bin[d][o] \/ (s.dir = d /\ x = o /\ bin'[d][o] = Torn)
      BY <1>0, <2>1, <3>1
    <3> QED BY <2>1, <2>3, <3>2, <3>3 DEF BinFrom, DekFrom
  <2> QED BY <2>2, <2>3
<1>7. CASE FillBin(p)
  <2>1. /\ s.pc = "ibin1" /\ s.dir \in Dir /\ s.obj \in ObjId /\ dek' = dek
        /\ bin' = [bin EXCEPT ![s.dir][s.obj] = s.box.objs[s.obj]]
    BY <1>0, <1>7 DEF FillBin, InHand
  <2>2. \/ bin'[d][o] = bin[d][o]
        \/ s.dir = d /\ s.obj = o /\ bin'[d][o] = s.box.objs[o]
    BY <1>0, <2>1
  <2> QED BY <2>1, <2>2 DEF BinFrom, DekFrom
<1>8. ASSUME NEW x \in ObjId, ImportDek(p, x)
      PROVE  /\ BinFrom(p, d, o) /\ DekFrom(p, d, o)
             /\ bin'[d][o] = bin[d][o] \/ dek'[d][o] = dek[d][o]
  <2>1. s.pc = "deks" /\ s.dir \in Dir /\ x \in s.todo /\ bin' = bin
    BY <1>0, <1>8 DEF ImportDek, InHand
  <2>2. CASE dek[s.dir][x] # NoFile
    BY <1>q, <1>8, <2>1, <2>2 DEF ImportDek
  <2>3. CASE dek[s.dir][x] = NoFile
    <3>1. /\ dek' = [dek EXCEPT ![s.dir][x] = Torn]
          /\ proc'[p] = [s EXCEPT !.pc = "idek1", !.obj = x]
      BY <1>0, <1>8, <2>3 DEF ImportDek, Become
    <3>2. proc'[p].pc = "idek1" /\ proc'[p].dir = s.dir /\ proc'[p].obj = x
      BY <1>0, <3>1 DEF ProcState
    <3>3. dek'[d][o] = dek[d][o] \/ (s.dir = d /\ x = o /\ dek'[d][o] = Torn)
      BY <1>0, <2>1, <3>1
    <3> QED BY <2>1, <2>3, <3>2, <3>3 DEF BinFrom, DekFrom
  <2> QED BY <2>2, <2>3
<1>9. CASE FillDek(p)
  <2>1. /\ s.pc = "idek1" /\ s.dir \in Dir /\ s.obj \in ObjId /\ bin' = bin
        /\ dek' = [dek EXCEPT ![s.dir][s.obj] = s.box.deks[s.obj]]
    BY <1>0, <1>9 DEF FillDek, InHand
  <2>2. \/ dek'[d][o] = dek[d][o]
        \/ s.dir = d /\ s.obj = o /\ dek'[d][o] = s.box.deks[o]
    BY <1>0, <2>1
  <2> QED BY <2>1, <2>2 DEF BinFrom, DekFrom
<1> QED
  BY <1>1, <1>2, <1>3, <1>4, <1>5, <1>6, <1>7, <1>8, <1>9 DEF Move, Step

\* An entry of a box is an entry of a box there was, or of the directory.
BoxFrom(p, o) ==
  LET s == proc[p]
      t == proc'[p]
  IN  t.box \in Box =>
        /\ \/ t.box.objs[o] = NoFile
           \/ amem \in Box /\ t.box.objs[o] = amem.objs[o]
           \/ s.box \in Box /\ t.box.objs[o] = s.box.objs[o]
           \/ /\ s.pc = "exbin" /\ s.dir \in Dir
              /\ t.box.objs[o] = bin[s.dir][o]
        /\ \/ t.box.deks[o] = NoFile
           \/ amem \in Box /\ t.box.deks[o] = amem.deks[o]
           \/ s.box \in Box /\ t.box.deks[o] = s.box.deks[o]
           \/ /\ s.pc = "exdek" /\ s.dir \in Dir
              /\ t.box.deks[o] = dek[s.dir][o]

LEMMA BoxesFrom ==
  ASSUME Typed, NEW p \in Process, Move(p), NEW o \in ObjId
  PROVE  BoxFrom(p, o)
<1> DEFINE s == proc[p]
<1>0. /\ proc \in [Process -> ProcState] /\ s \in ProcState /\ InHand(s)
  BY DEF Typed, TypeOK, HandsTyped
<1>q. ASSUME NEW t, Become(p, t), t.box = s.box \/ t.box = None
      PROVE  BoxFrom(p, o)
  BY <1>0, <1>q, Distinct DEF Become, BoxFrom
<1>c. CASE Command(p)
  <2>1. ASSUME NEW d \in Dir, import_file_into(p, d)
        PROVE  BoxFrom(p, o)
    <3>1. amem \in Box /\ proc'[p].box = amem
      BY <1>0, <2>1 DEF import_file_into, ImportAccepted, Become, Off
    <3> QED BY <3>1 DEF BoxFrom
  <2>2. ASSUME NEW d \in Dir, export(p, d)
        PROVE  BoxFrom(p, o)
    <3>1. proc'[p].box.objs = NoObjects /\ proc'[p].box.deks = NoObjects
      BY <1>0, <2>2 DEF export, Become, Off
    <3> QED BY <3>1 DEF BoxFrom, NoObjects
  <2>3. ASSUME NEW d \in Dir,
               \/ \E i \in Identity : init(p, d, i)
               \/ \E n \in Name, k \in ScopeKey : add_scope(p, d, n, k)
               \/ \E a \in Author : trust_key(p, d, a)
               \/ \E n \in Name, x \in ObjId : seal_object(p, d, n, x)
        PROVE  BoxFrom(p, o)
    <3>1. proc'[p].box = None
      BY <1>0, <2>3 DEF init, add_scope, trust_key, seal_object, Become, Off
    <3> QED BY <3>1, Distinct DEF BoxFrom
  <2> QED BY <1>c, <2>1, <2>2, <2>3 DEF Command
<1>1. CASE Crash(p) \/ ImportDone(p)
  <2>1. Become(p, Off)
    BY <1>1 DEF Crash, ImportDone
  <2> QED BY <1>q, <2>1 DEF Off
<1>2. CASE TruncateMeta(p)
  <2>1. Become(p, [s EXCEPT !.pc = "meta1"])
    BY <1>2 DEF TruncateMeta
  <2> QED BY <1>0, <1>q, <2>1 DEF ProcState
<1>3. CASE FillMeta(p)
  <2>1. \/ Become(p, Off)
        \/ Become(p, [s EXCEPT !.pc = "bins", !.todo = Whole(s.box.objs)])
    BY <1>3 DEF FillMeta
  <2> QED BY <1>0, <1>q, <2>1 DEF ProcState, Off
<1>4. CASE WriteBin(p)
  <2>1. Become(p, [s EXCEPT !.pc = IF s.pc = "bin0" THEN "bin1" ELSE "dek0"])
    BY <1>4 DEF WriteBin
  <2> QED BY <1>0, <1>q, <2>1 DEF ProcState
<1>5. CASE WriteDek(p)
  <2>1. Become(p, Off) \/ Become(p, [s EXCEPT !.pc = "dek1"])
    BY <1>5 DEF WriteDek
  <2> QED BY <1>0, <1>q, <2>1 DEF ProcState, Off
<1>6. CASE list_objects(p)
  <2>1. Become(p, [s EXCEPT !.pc = "exbin", !.todo = Whole(bin[s.dir])])
    BY <1>6 DEF list_objects
  <2> QED BY <1>0, <1>q, <2>1 DEF ProcState
<1>7. ASSUME NEW x \in ObjId, ExportBin(p, x)
      PROVE  BoxFrom(p, o)
  <2> DEFINE b == [s.box EXCEPT !.objs[x] = bin[s.dir][x]]
  <2>1. s.box \in Box /\ s.dir \in Dir /\ s.pc = "exbin"
    BY <1>0, <1>7 DEF ExportBin, InHand
  <2>2. proc'[p] = [s EXCEPT !.pc = "exdek", !.obj = x,
                             !.box.objs[x] = bin[s.dir][x]]
    BY <1>0, <1>7 DEF ExportBin, Become
  <2>3. proc'[p].box = b
    BY <1>0, <2>2 DEF ProcState
  <2>4. /\ b.deks = s.box.deks
        /\ b.objs[o] = s.box.objs[o] \/ b.objs[o] = bin[s.dir][o]
    BY <2>1 DEF Box
  <2> HIDE DEF b
  <2> QED BY <2>1, <2>3, <2>4 DEF BoxFrom
<1>8. CASE ExportDek(p)
  <2> DEFINE f == dek[s.dir][s.obj]
             b == [s.box EXCEPT !.deks[s.obj] = f]
  <2>1. s.box \in Box /\ s.dir \in Dir /\ s.pc = "exdek" /\ s.obj \in ObjId
    BY <1>0, <1>8 DEF ExportDek, InHand
  <2>2. \/ Become(p, Off)
        \/ proc'[p] = [s EXCEPT !.pc = "exbin", !.todo = @ \ {s.obj},
                                !.box.deks[s.obj] = f]
    BY <1>0, <1>8 DEF ExportDek, Become
  <2>3. Become(p, Off) \/ proc'[p].box = b
    BY <1>0, <2>2 DEF ProcState
  <2>4. /\ b.objs = s.box.objs
        /\ b.deks[o] = s.box.deks[o] \/ b.deks[o] = dek[s.dir][o]
    BY <2>1 DEF Box
  <2>5. CASE Become(p, Off)
    BY <1>q, <2>5 DEF Off
  <2>6. CASE proc'[p].box = b
    <3> HIDE DEF b
    <3> QED BY <2>1, <2>4, <2>6 DEF BoxFrom
  <2> QED BY <2>3, <2>5, <2>6
<1>9. CASE WriteExport(p)
  <2>1. Become(p, Off) \/ Become(p, [s EXCEPT !.pc = "out1"])
    BY <1>9 DEF WriteExport
  <2> QED BY <1>0, <1>q, <2>1 DEF ProcState, Off
<1>10. ASSUME NEW x \in ObjId, ImportBin(p, x)
       PROVE  BoxFrom(p, o)
  <2>1. \/ Become(p, [s EXCEPT !.todo = @ \ {x}])
        \/ Become(p, [s EXCEPT !.pc = "ibin1", !.obj = x])
    BY <1>10 DEF ImportBin
  <2> QED BY <1>0, <1>q, <2>1 DEF ProcState
<1>11. CASE FillBin(p)
  <2>1. Become(p, [s EXCEPT !.pc = "bins", !.todo = @ \ {s.obj}])
    BY <1>11 DEF FillBin
  <2> QED BY <1>0, <1>q, <2>1 DEF ProcState
<1>12. CASE StartDeks(p)
  <2>1. Become(p, [s EXCEPT !.pc = "deks", !.todo = Whole(s.box.deks)])
    BY <1>12 DEF StartDeks
  <2> QED BY <1>0, <1>q, <2>1 DEF ProcState
<1>13. ASSUME NEW x \in ObjId, ImportDek(p, x)
       PROVE  BoxFrom(p, o)
  <2>1. \/ Become(p, [s EXCEPT !.todo = @ \ {x}])
        \/ Become(p, [s EXCEPT !.pc = "idek1", !.obj = x])
    BY <1>13 DEF ImportDek
  <2> QED BY <1>0, <1>q, <2>1 DEF ProcState
<1>14. CASE FillDek(p)
  <2>1. Become(p, [s EXCEPT !.pc = "deks", !.todo = @ \ {s.obj}])
    BY <1>14 DEF FillDek
  <2> QED BY <1>0, <1>q, <2>1 DEF ProcState
<1> QED
  BY <1>c, <1>1, <1>2, <1>3, <1>4, <1>5, <1>6, <1>7, <1>8, <1>9, <1>10, <1>11,
     <1>12, <1>13, <1>14 DEF Move, Step

-----------------------------------------------------------------------------
(* Objects that are being sealed are known to their vault only.            *)

LEMMA NoBoxKept ==
  ASSUME Held, NEW p \in Process, Move(p), NEW o \in ObjId, NoBoxHas(o),
         proc[p].pc \in {"exbin", "exdek"} => NoFileIn(proc[p].dir, o)
  PROVE  NoBoxHas(o)'
<1>1. /\ AmemEffect(p) /\ BoxFrom(p, o)
      /\ \A q \in Process \ {p} : proc'[q] = proc[q]
  BY MoveEffects, BoxesFrom DEF Held
<1>2. amem' \in Box => amem'.objs[o] = NoFile /\ amem'.deks[o] = NoFile
  BY <1>1 DEF AmemEffect, NoBoxHas
<1>3. proc'[p].box \in Box =>
        proc'[p].box.objs[o] = NoFile /\ proc'[p].box.deks[o] = NoFile
  BY <1>1 DEF BoxFrom, NoBoxHas, NoFileIn
<1> QED
  BY <1>1, <1>2, <1>3 DEF NoBoxHas

LEMMA NoFileKept ==
  ASSUME Held, NEW p \in Process, Move(p), NEW o \in ObjId, NoBoxHas(o),
         NEW d \in Dir, NoFileIn(d, o),
         Sealing(p, o) => proc[p].dir # d
  PROVE  NoFileIn(d, o)'
<1>1. BinFrom(p, d, o) /\ DekFrom(p, d, o) /\ InHand(proc[p])
  BY FilesFrom, HeldAt DEF Held
<1>2. proc[p].box \in Box => o \notin Whole(proc[p].box.objs) \cup Whole(proc[p].box.deks)
  BY DEF NoBoxHas, Whole
<1> QED
  BY <1>1, <1>2 DEF BinFrom, DekFrom, InHand, NoFileIn, Sealing

LEMMA IdsOwnedNext ==
  ASSUME Held, NEW p \in Process, Move(p)
  PROVE  IdsOwned'
<1>0. /\ drawn \subseteq drawn' /\ IdsOwned /\ Typed /\ Typed'
      /\ \A q \in Process \ {p} : proc'[q] = proc[q]
  <2>1. [Next]_vars
    BY DEF Next, Move
  <2> QED BY <2>1, GhostsGrow, MoveEffects, TypedNext DEF Held, ContainersSound
<1>1. ASSUME NEW o \in ObjId, o \notin drawn
      PROVE  NoBoxHas(o)' /\ \A d \in Dir : Sealing(p, o) \/ NoFileIn(d, o)'
  <2>1. NoBoxHas(o) /\ \A d \in Dir : NoFileIn(d, o)
    BY <1>0, <1>1 DEF IdsOwned
  <2>2. proc[p].pc \in {"exbin", "exdek"} => proc[p].dir \in Dir
    BY HeldAt
  <2> QED BY <2>1, <2>2, NoBoxKept, NoFileKept
<1>2. ASSUME NEW o \in ObjId, o \notin drawn
      PROVE  ~Sealing(p, o)
  BY <1>2, HeldAt DEF SealSound, Sealing
<1>3. ASSUME NEW o \in ObjId, NEW q \in Process, q # p, Sealing(q, o)
      PROVE  /\ NoBoxHas(o)'
             /\ \A d \in Dir \ {proc[q].dir} : NoFileIn(d, o)'
  <2>1. /\ NoBoxHas(o) /\ ~Idle(q)
        /\ \A d \in Dir \ {proc[q].dir} : NoFileIn(d, o)
    BY <1>0, <1>3 DEF IdsOwned, SealedAlone, Sealing, SealPc, Idle
  <2>2. ~Sealing(p, o)
    BY <1>3, HeldAt DEF Held, ObjectsKept, SealSound, Sealing
  <2>3. proc[p].pc \in {"exbin", "exdek"} => NoFileIn(proc[p].dir, o)
    BY <1>3, <2>1, HeldAt DEF Held, OneCommandPerVault, Idle
  <2> QED BY <2>1, <2>2, <2>3, NoBoxKept, NoFileKept
<1>4. ASSUME NEW o \in ObjId, Sealing(p, o)'
      PROVE  /\ NoBoxHas(o)'
             /\ \A d \in Dir \ {proc'[p].dir} : NoFileIn(d, o)'
  <2>1. CASE o \notin drawn
    BY <1>1, <1>2, <2>1
  <2>2. CASE o \in drawn
    <3>1. Sealing(p, o)
      BY <1>0, <1>4, <2>2, SealerIsOld
    <3>2. NoBoxHas(o) /\ \A d \in Dir \ {proc[p].dir} : NoFileIn(d, o)
      BY <1>0, <3>1 DEF IdsOwned, SealedAlone, Sealing, SealPc
    <3>3. proc'[p].dir = proc[p].dir
      <4>1. Step(p)
        BY <1>4, <3>1, CommandStarts
        DEF Move, Crash, Become, Off, Sealing, Held, Typed, TypeOK
      <4> QED BY <1>0, <1>4, <4>1, StepInDir DEF Idle, Sealing
    <3>4. proc[p].pc \notin {"exbin", "exdek"}
      BY <3>1 DEF Sealing
    <3> QED BY <3>2, <3>3, <3>4, NoBoxKept, NoFileKept
  <2> QED BY <2>1, <2>2
<1>5. ASSUME NEW q \in Process, proc'[q].pc \in SealPc
      PROVE  SealedAlone(q)'
  <2> DEFINE o == proc'[q].obj
  <2>1. o \in ObjId
    BY <1>0, <1>5 DEF Typed, HandsTyped, InHand, SealPc
  <2>2. ASSUME NEW x \in ObjId, x = o
        PROVE  NoBoxHas(x)' /\ \A d \in Dir \ {proc'[q].dir} : NoFileIn(d, x)'
    BY <1>0, <1>3, <1>4, <1>5, <2>2 DEF Sealing, SealPc
  <2> QED BY <2>1, <2>2 DEF SealedAlone, NoBoxHas, NoFileIn
<1> QED
  BY <1>0, <1>1, <1>2, <1>5 DEF IdsOwned, SealedAlone

-----------------------------------------------------------------------------
(* What a command has gathered or has yet to write.                        *)

\* A command with an imported file open fills it next.
LEMMA ImportFills ==
  ASSUME ImportsFillTheirFiles, Held, NEW p \in Process, Move(p)
  PROVE  /\ proc[p].pc = "ibin1" => FillBin(p)
         /\ proc[p].pc = "idek1" => FillDek(p)
<1> SUFFICES ASSUME proc[p].pc \in {"ibin1", "idek1"}
             PROVE  /\ proc[p].pc = "ibin1" => FillBin(p)
                    /\ proc[p].pc = "idek1" => FillDek(p)
  OBVIOUS
<1>1. ~Command(p) /\ ~Crash(p)
  BY CommandStarts DEF Held, Crash, ImportsFillTheirFiles
<1> QED
  BY <1>1 DEF Move, Step, TruncateMeta, FillMeta, WriteBin, WriteDek,
              list_objects, ExportBin, ExportDek, WriteExport, ImportBin,
              FillBin, StartDeks, ImportDek, FillDek, ImportDone

\* The scopes an import is about to write hold every object of its file.
LEMMA StorableIsIn ==
  ASSUME NEW b \in Box, NEW m \in Meta, OneIdentity(m),
         BoxWhole(b), m.ident = b.meta.ident, Valid(b, m)
  PROVE  \A o \in Whole(b.objs) : InMeta(m, b.objs[o])
<1> SUFFICES ASSUME NEW o \in Whole(b.objs)
             PROVE  InMeta(m, b.objs[o])
  OBVIOUS
<1> DEFINE x == b.objs[o]
<1>1. x \in Scope /\ x.ident = m.ident
  BY DEF BoxWhole, InMeta
<1>2. PICK n \in Name : m.scopes[n] # None /\ m.scopes[n].key = x.key
  BY DEF Valid, Storable
<1>3. m.scopes[n] \in Scope /\ m.scopes[n].ident = m.ident
  BY <1>2 DEF Meta, OneIdentity
<1>4. m.scopes[n] = x
  BY <1>1, <1>2, <1>3 DEF Scope
<1> QED
  BY <1>1, <1>4 DEF InMeta

\* An import that starts.
LEMMA ImportStarts ==
  ASSUME Held, NEW p \in Process, NEW d \in Dir, import_file_into(p, d)
  PROVE  HandSound(p)'
<1> DEFINE t == proc'[p]
           m == ImportedMeta(d)
<1>1. /\ amem \in Box /\ Valid(amem, m) /\ UNCHANGED acked
      /\ meta[d] \in Meta \cup {NoFile}
      /\ meta[d] # NoFile => meta[d].ident = amem.meta.ident
  BY DEF import_file_into, ImportAccepted, ghosts
<1>2. t.pc = "meta0" /\ t.m = m /\ t.box = amem
  BY DEF import_file_into, Become, Off, Held, Typed, TypeOK
<1>3. BoxSound(amem) /\ amem.meta \in Meta
  BY <1>1 DEF Held, ContainersSound, Box
<1>4. m.ident = amem.meta.ident
  BY <1>1, <1>3 DEF ImportedMeta, Merged, Meta
<1>5. m \in Meta
  BY <1>1, <1>3 DEF ImportedMeta, Merged, Meta
<1>6. OneIdentity(m)
  <2>1. Command(p)
    BY DEF Command
  <2> QED BY <1>2, <2>1, CommandOwns DEF Held
<1>7. \A o \in Whole(amem.objs) : InMeta(m, amem.objs[o])
  BY <1>1, <1>3, <1>4, <1>5, <1>6, StorableIsIn DEF BoxSound
<1>8. BoxWhole(amem) /\ \A o \in amem.promised : Acked(o)'
  BY <1>1, <1>3 DEF BoxSound, Acked
<1> HIDE DEF m
<1>9. ImportSound(p)'
  BY <1>2, <1>7, <1>8 DEF ImportSound, BoxSound, InMeta, Wrapped
<1> QED
  BY <1>2, <1>9 DEF HandSound, ExportPc

\* Every export step.
LEMMA OwnExport ==
  ASSUME Held, NEW p \in Process,
         \/ \E d \in Dir : export(p, d)
         \/ list_objects(p)
         \/ \E o \in ObjId : ExportBin(p, o)
         \/ ExportDek(p)
         \/ WriteExport(p)
  PROVE  HandSound(p)'
<1> DEFINE s == proc[p]
           t == proc'[p]
           d == s.dir
<1>0. /\ proc \in [Process -> ProcState] /\ s \in ProcState /\ InHand(s)
      /\ HandSound(p)
  BY HeldAt
<1>q. ASSUME Become(p, Off)
      PROVE  HandSound(p)'
  BY <1>0, <1>q DEF Become, Off, HandSound, ExportPc, ImportPc
<1>x. ASSUME t.pc \in ExportPc, ExportSound(p)'
      PROVE  HandSound(p)'
  BY <1>x DEF HandSound, ExportPc, ImportPc
<1>1. ASSUME NEW c \in Dir, export(p, c)
      PROVE  HandSound(p)'
  <2>1. /\ t.pc = "list" /\ t.dir = c /\ t.box.meta = meta[c]
        /\ t.box.objs = NoObjects /\ t.box.deks = NoObjects
        /\ t.box.promised = acked[c] /\ meta[c] \in Meta
    BY <1>0, <1>1 DEF export, Become, Off
  <2>2. UNCHANGED <<meta, acked>>
    BY <1>1 DEF export, disk, ghosts
  <2> QED BY <1>x, <2>1, <2>2 DEF ExportSound, ExportPc
<1>2. CASE list_objects(p)
  <2>1. /\ s.pc = "list" /\ d \in Dir /\ UNCHANGED <<disk, ghosts>>
        /\ t = [s EXCEPT !.pc = "exbin", !.todo = Whole(bin[d])]
    BY <1>0, <1>2 DEF list_objects, Become, InHand
  <2>2. /\ t.pc = "exbin" /\ t.dir = d /\ t.box = s.box
        /\ t.todo = Whole(bin[d])
    BY <1>0, <2>1 DEF ProcState
  <2>3. ExportSound(p)
    BY <1>0, <2>1 DEF HandSound, ExportPc
  <2>4. ASSUME NEW o \in ObjId \ Whole(bin[d])
        PROVE  bin[d][o] = NoFile /\ dek[d][o] = NoFile
    BY <2>1, <2>4, Distinct DEF Whole, Held, ContainersSound, FileSound, Wrapped
  <2> QED BY <1>x, <2>1, <2>2, <2>3, <2>4
          DEF ExportSound, ExportPc, NoObjects, disk, ghosts
<1>3. ASSUME NEW o \in ObjId, ExportBin(p, o)
      PROVE  HandSound(p)'
  <2> DEFINE b == [s.box EXCEPT !.objs[o] = bin[d][o]]
  <2>1. /\ s.pc = "exbin" /\ o \in s.todo /\ UNCHANGED <<disk, ghosts>>
        /\ s.box \in Box
        /\ t = [s EXCEPT !.pc = "exdek", !.obj = o, !.box.objs[o] = bin[d][o]]
    BY <1>0, <1>3 DEF ExportBin, Become, InHand
  <2>2. /\ t.pc = "exdek" /\ t.dir = d /\ t.obj = o /\ t.todo = s.todo
        /\ t.box = b
    BY <1>0, <2>1 DEF ProcState
  <2>3. /\ b.meta = s.box.meta /\ b.promised = s.box.promised
        /\ b.deks = s.box.deks /\ b.objs[o] = bin[d][o]
        /\ \A x \in ObjId \ {o} : b.objs[x] = s.box.objs[x]
    BY <2>1 DEF Box
  <2>4. ExportSound(p)
    BY <1>0, <2>1 DEF HandSound, ExportPc
  <2>5. /\ bin' = bin /\ dek' = dek /\ meta' = meta /\ acked' = acked
    BY <2>1 DEF disk, ghosts
  <2> HIDE DEF b
  <2>6. ExportSound(p)'
    <3>1. /\ t.box.meta = meta[d] /\ meta[d] \in Meta
          /\ t.box.promised \subseteq acked[d]
      BY <2>2, <2>3, <2>4 DEF ExportSound
    <3>2. ASSUME NEW x \in ObjId \ t.todo
          PROVE  /\ t.box.objs[x] = bin[d][x] /\ t.box.deks[x] = dek[d][x]
                 /\ bin[d][x] # NoFile => dek[d][x] # NoFile
      BY <2>1, <2>2, <2>3, <2>4, <3>2 DEF ExportSound
    <3>3. t.obj \in t.todo /\ t.box.objs[t.obj] = bin[d][t.obj]
      BY <2>1, <2>2, <2>3
    <3>4. t.pc = "exdek" /\ t.dir = d
      BY <2>2
    <3> HIDE DEF d
    <3> QED BY <2>5, <3>1, <3>2, <3>3, <3>4 DEF ExportSound
  <2> QED BY <1>x, <2>2, <2>6 DEF ExportPc
<1>4. CASE ExportDek(p)
  <2> DEFINE o == s.obj
             b == [s.box EXCEPT !.deks[o] = dek[d][o]]
  <2>1. CASE MissingDek(p)
    BY <1>4, <1>q, <2>1 DEF ExportDek
  <2>2. CASE ~MissingDek(p)
    <3>1. /\ s.pc = "exdek" /\ UNCHANGED <<disk, ghosts>>
          /\ s.box \in Box /\ o \in ObjId /\ dek[d][o] # NoFile
          /\ t = [s EXCEPT !.pc = "exbin", !.todo = @ \ {s.obj},
                           !.box.deks[s.obj] = dek[d][s.obj]]
      BY <1>0, <1>4, <2>2 DEF ExportDek, MissingDek, Become, InHand
    <3>2. /\ t.pc = "exbin" /\ t.dir = d /\ t.todo = s.todo \ {o}
          /\ t.box = b
      BY <1>0, <3>1 DEF ProcState
    <3>3. /\ b.meta = s.box.meta /\ b.promised = s.box.promised
          /\ b.objs = s.box.objs /\ b.deks[o] = dek[d][o]
          /\ \A x \in ObjId \ {o} : b.deks[x] = s.box.deks[x]
      BY <3>1 DEF Box
    <3>4. ExportSound(p)
      BY <1>0, <3>1 DEF HandSound, ExportPc
    <3> HIDE DEF b, o
    <3>5. ASSUME NEW x \in ObjId \ (s.todo \ {o})
          PROVE  /\ b.objs[x] = bin[d][x] /\ b.deks[x] = dek[d][x]
                 /\ bin[d][x] # NoFile => dek[d][x] # NoFile
      <4>1. CASE x = o
        BY <3>1, <3>3, <3>4, <4>1 DEF ExportSound, o
      <4>2. CASE x # o
        BY <3>1, <3>3, <3>4, <4>2 DEF ExportSound
      <4> QED BY <4>1, <4>2
    <3>6. /\ UNCHANGED <<meta, bin, dek, acked>>
          /\ b.meta = meta[d] /\ meta[d] \in Meta /\ b.promised \subseteq acked[d]
      BY <3>1, <3>3, <3>4 DEF ExportSound, disk, ghosts
    <3> HIDE DEF d
    <3>7. ExportSound(p)'
      BY <3>2, <3>5, <3>6 DEF ExportSound
    <3> QED BY <1>x, <3>2, <3>7 DEF ExportPc
  <2> QED BY <2>1, <2>2
<1>5. CASE WriteExport(p)
  <2>1. CASE s.pc = "out1"
    BY <1>5, <1>q, <2>1 DEF WriteExport
  <2>2. CASE s.pc # "out1"
    <3>1. /\ s.pc = "exbin" /\ s.todo = {} /\ UNCHANGED <<meta, bin, dek, ghosts>>
          /\ t = [s EXCEPT !.pc = "out1"]
      BY <1>0, <1>5, <2>2 DEF WriteExport, Become
    <3>2. t.pc = "out1" /\ t.dir = d /\ t.todo = {} /\ t.box = s.box
      BY <1>0, <3>1 DEF ProcState
    <3>3. ExportSound(p)
      BY <1>0, <3>1 DEF HandSound, ExportPc
    <3> QED BY <1>x, <3>1, <3>2, <3>3 DEF ExportSound, ExportPc, ghosts
  <2> QED BY <2>1, <2>2
<1> QED
  BY <1>1, <1>2, <1>3, <1>4, <1>5

\* No file that the rest of the vault leaves half written meets an import: a
\* .bin that exists is whole.
LEMMA ListedIsWhole ==
  ASSUME Held, NEW p \in Process, proc[p].box \in Box,
         proc[p].pc \in {"bins", "deks", "idek1"},
         NEW o \in Whole(proc[p].box.objs),
         bin[proc[p].dir][o] # NoFile
  PROVE  Wrapped(proc[p].dir, bin[proc[p].dir][o])
<1>1. proc[p].dir \in Dir /\ o \in ObjId /\ ~Idle(p)
  BY HeldAt DEF Whole, Idle
<1>2. ~Unlisted(o)
  BY DEF Unlisted, Whole
<1>3. ~Opening("ibin1", proc[p].dir, o)
  BY <1>1 DEF Opening, Held, OneCommandPerVault, Idle
<1> QED
  BY <1>1, <1>2, <1>3 DEF Held, ContainersSound, FileSound

\* Every import step.
LEMMA OwnImport ==
  ASSUME Held, NEW p \in Process,
         \/ TruncateMeta(p) \/ FillMeta(p)
         \/ \E o \in ObjId : ImportBin(p, o)
         \/ FillBin(p) \/ StartDeks(p)
         \/ \E o \in ObjId : ImportDek(p, o)
         \/ FillDek(p)
  PROVE  HandSound(p)'
<1> DEFINE s == proc[p]
           t == proc'[p]
           d == s.dir
<1>0. /\ proc \in [Process -> ProcState] /\ s \in ProcState /\ InHand(s)
      /\ HandSound(p) /\ d \in Dir
      /\ bin \in [Dir -> [ObjId -> ObjFile]]
      /\ dek \in [Dir -> [ObjId -> ObjFile]]
      /\ DOMAIN granted = Dir
  BY HeldAt DEF TruncateMeta, FillMeta, ImportBin, FillBin, StartDeks,
                ImportDek, FillDek
<1>g. Move(p)
  BY DEF Move, Step
<1>x. ASSUME t.pc \in ImportPc, t.box \in Box => ImportSound(p)'
      PROVE  HandSound(p)'
  BY <1>x DEF HandSound, ExportPc, ImportPc
<1>w. ASSUME s.pc \in ImportPc, s.box \in Box, t.box = s.box
      PROVE  ImportSound(p) /\ BoxSound(s.box)'
  <2>1. ImportSound(p)
    BY <1>0, <1>w DEF HandSound
  <2>2. \A o : Acked(o) => Acked(o)'
    BY <1>g, GhostsStay
  <2> QED BY <1>w, <2>1, <2>2 DEF ImportSound, BoxSound
<1>v. granted[d] \subseteq granted'[d]
  BY <1>0, <1>g, GhostsGrow DEF Held
<1>1. CASE TruncateMeta(p)
  <2>1. s.pc = "meta0" /\ t = [s EXCEPT !.pc = "meta1"]
    BY <1>0, <1>1 DEF TruncateMeta, Become
  <2>2. t.pc = "meta1" /\ t.box = s.box /\ t.m = s.m
    BY <1>0, <2>1 DEF ProcState
  <2> QED BY <1>x, <1>w, <2>1, <2>2 DEF ImportPc, ImportSound
<1>2. CASE FillMeta(p)
  <2>1. CASE s.box = None
    <3>1. t = Off
      BY <1>0, <1>2, <2>1 DEF FillMeta, Become
    <3> QED BY <3>1 DEF Off, HandSound, ExportPc, ImportPc
  <2>2. CASE s.box # None
    <3>1. /\ s.pc = "meta1" /\ s.box \in Box /\ s.m \in Meta
          /\ granted' = [granted EXCEPT ![d] = @ \cup Granted(s.m)]
          /\ t = [s EXCEPT !.pc = "bins", !.todo = Whole(s.box.objs)]
      BY <1>0, <1>2, <2>2 DEF FillMeta, Become, ProcState, InHand
    <3>2. /\ t.pc = "bins" /\ t.box = s.box /\ t.todo = Whole(s.box.objs)
          /\ t.dir = d
      BY <1>0, <3>1 DEF ProcState
    <3>3. ImportSound(p) /\ BoxSound(s.box)'
      BY <1>w, <3>1, <3>2 DEF ImportPc
    <3>4. ASSUME NEW o \in Whole(s.box.objs)
          PROVE  /\ s.box.objs[o] \in Scope
                 /\ \E n \in Name : <<n, s.box.objs[o]>> \in granted'[d]
                 /\ <<"identity", s.box.objs[o].ident>> \in granted'[d]
      <4> DEFINE x == s.box.objs[o]
      <4>1. InMeta(s.m, x)
        BY <3>1, <3>3 DEF ImportSound
      <4>2. PICK n \in Name : s.m.scopes[n] = x
        BY <4>1 DEF InMeta
      <4>3. x \in Scope /\ x # None /\ x.ident = s.m.ident
        BY <4>1, Distinct DEF InMeta
      <4>4. /\ <<n, x>> \in Granted(s.m)
            /\ <<"identity", x.ident>> \in Granted(s.m)
        BY <4>2, <4>3 DEF Granted
      <4>5. Granted(s.m) \subseteq granted'[d]
        BY <1>0, <3>1
      <4>6. <<n, x>> \in granted'[d] /\ <<"identity", x.ident>> \in granted'[d]
        BY <4>4, <4>5
      <4> QED BY <4>3, <4>6
    <3> QED BY <1>x, <3>2, <3>3, <3>4 DEF ImportPc, ImportSound, Wrapped
  <2> QED BY <2>1, <2>2
<1>3. ASSUME NEW o \in ObjId, ImportBin(p, o)
      PROVE  HandSound(p)'
  <2>1. /\ s.pc = "bins" /\ o \in s.todo /\ o \in Whole(s.box.objs)
        /\ s.box \in Box /\ UNCHANGED <<dek, granted>>
    BY <1>0, <1>3 DEF ImportBin, InHand, ghosts
  <2>2. CASE bin[d][o] # NoFile
    <3>1. bin' = bin /\ t = [s EXCEPT !.todo = @ \ {o}]
      BY <1>0, <1>3, <2>2 DEF ImportBin, Become
    <3>2. t.pc = "bins" /\ t.box = s.box /\ t.todo = s.todo \ {o} /\ t.dir = d
      BY <1>0, <2>1, <3>1 DEF ProcState
    <3>3. ImportSound(p) /\ BoxSound(s.box)'
      BY <1>w, <2>1, <3>2 DEF ImportPc
    <3>4. Wrapped(d, bin[d][o])
      BY <2>1, <2>2, ListedIsWhole
    <3> QED BY <1>x, <2>1, <3>1, <3>2, <3>3, <3>4
            DEF ImportPc, ImportSound, Wrapped
  <2>3. CASE bin[d][o] = NoFile
    <3>1. /\ bin' = [bin EXCEPT ![d][o] = Torn]
          /\ t = [s EXCEPT !.pc = "ibin1", !.obj = o]
      BY <1>0, <1>3, <2>3 DEF ImportBin, Become
    <3>2. /\ t.pc = "ibin1" /\ t.box = s.box /\ t.todo = s.todo /\ t.dir = d
          /\ t.obj = o
      BY <1>0, <2>1, <3>1 DEF ProcState
    <3>3. ImportSound(p) /\ BoxSound(s.box)'
      BY <1>w, <2>1, <3>2 DEF ImportPc
    <3>4. o \in ObjId /\ bin'[d][o] = Torn
      BY <1>0, <2>1, <3>1 DEF Whole
    <3>5. \A x \in ObjId \ {o} : bin'[d][x] = bin[d][x]
      BY <1>0, <2>1, <3>1
    <3>6. dek[d][o] = NoFile
      BY <1>0, <2>3, <3>4, Distinct
      DEF Held, ContainersSound, FileSound, Wrapped
    <3>7. (\A x \in Whole(s.box.objs) : Wrapped(d, s.box.objs[x]))'
      BY <2>1, <3>2, <3>3 DEF ImportSound, Wrapped
    <3>8. ASSUME NEW x \in Whole(s.box.objs) \ s.todo
          PROVE  Wrapped(d, bin[d][x])'
      <4>1. Wrapped(d, bin[d][x]) /\ bin'[d][x] = bin[d][x]
        BY <2>1, <3>3, <3>5, <3>8 DEF Whole, ImportSound
      <4> QED BY <2>1, <3>2, <4>1 DEF Wrapped
    <3>9. (bin[d][s.obj] = Torn /\ dek[d][s.obj] = NoFile /\ s.obj \in s.todo)'
      BY <2>1, <3>2, <3>4, <3>6
    <3>10. ImportSound(p)'
      BY <3>2, <3>3, <3>7, <3>8, <3>9 DEF ImportSound
    <3> QED BY <1>x, <3>2, <3>10 DEF ImportPc
  <2> QED BY <2>2, <2>3
<1>4. CASE FillBin(p)
  <2> DEFINE o == s.obj
  <2>1. /\ s.pc = "ibin1" /\ o \in ObjId /\ o \in Whole(s.box.objs)
        /\ s.box \in Box /\ UNCHANGED <<dek, granted>>
        /\ bin' = [bin EXCEPT ![d][o] = s.box.objs[o]]
        /\ t = [s EXCEPT !.pc = "bins", !.todo = @ \ {o}]
    BY <1>0, <1>4 DEF FillBin, InHand, ghosts, Become
  <2>2. t.pc = "bins" /\ t.box = s.box /\ t.todo = s.todo \ {o} /\ t.dir = d
    BY <1>0, <2>1 DEF ProcState
  <2>3. ImportSound(p) /\ BoxSound(s.box)'
    BY <1>w, <2>1, <2>2 DEF ImportPc
  <2>4. /\ bin'[d][o] = s.box.objs[o]
        /\ \A x \in ObjId \ {o} : bin'[d][x] = bin[d][x]
    BY <1>0, <2>1
  <2> HIDE DEF o
  <2>5. ASSUME NEW x \in Whole(s.box.objs) \ (s.todo \ {o})
        PROVE  Wrapped(d, bin[d][x])'
    <3>1. CASE x = o
      <4>1. Wrapped(d, s.box.objs[o])
        BY <2>1, <2>3 DEF ImportSound
      <4> QED BY <2>1, <2>2, <2>4, <3>1, <4>1 DEF Wrapped
    <3>2. CASE x # o
      <4>1. Wrapped(d, bin[d][x]) /\ x \in ObjId
        BY <2>1, <2>3, <2>5, <3>2 DEF ImportSound, Whole
      <4> QED BY <2>1, <2>2, <2>4, <3>2, <4>1 DEF Wrapped
    <3> QED BY <3>1, <3>2
  <2> QED BY <1>x, <2>1, <2>2, <2>3, <2>5 DEF ImportPc, ImportSound, Wrapped
<1>5. CASE StartDeks(p)
  <2>1. /\ s.pc = "bins" /\ s.todo = {} /\ s.box \in Box
        /\ UNCHANGED <<bin, dek, granted>>
        /\ t = [s EXCEPT !.pc = "deks", !.todo = Whole(s.box.deks)]
    BY <1>0, <1>5 DEF StartDeks, InHand, disk, ghosts, Become
  <2>2. /\ t.pc = "deks" /\ t.box = s.box /\ t.todo = Whole(s.box.deks)
        /\ t.dir = d
    BY <1>0, <2>1 DEF ProcState
  <2>3. ImportSound(p) /\ BoxSound(s.box)'
    BY <1>w, <2>1, <2>2 DEF ImportPc
  <2> QED BY <1>x, <2>1, <2>2, <2>3 DEF ImportPc, ImportSound, Wrapped
<1>6. ASSUME NEW o \in ObjId, ImportDek(p, o)
      PROVE  HandSound(p)'
  <2>1. /\ s.pc = "deks" /\ o \in s.todo /\ o \in Whole(s.box.deks)
        /\ s.box \in Box /\ UNCHANGED <<bin, granted>>
    BY <1>0, <1>6 DEF ImportDek, InHand, ghosts
  <2>2. CASE dek[d][o] # NoFile
    <3>1. dek' = dek /\ t = [s EXCEPT !.todo = @ \ {o}]
      BY <1>0, <1>6, <2>2 DEF ImportDek, Become
    <3>2. t.pc = "deks" /\ t.box = s.box /\ t.todo = s.todo \ {o} /\ t.dir = d
      BY <1>0, <2>1, <3>1 DEF ProcState
    <3>3. ImportSound(p) /\ BoxSound(s.box)'
      BY <1>w, <2>1, <3>2 DEF ImportPc
    <3> QED BY <1>x, <2>1, <2>2, <3>1, <3>2, <3>3
            DEF ImportPc, ImportSound, Wrapped
  <2>3. CASE dek[d][o] = NoFile
    <3>1. /\ dek' = [dek EXCEPT ![d][o] = Torn]
          /\ t = [s EXCEPT !.pc = "idek1", !.obj = o]
      BY <1>0, <1>6, <2>3 DEF ImportDek, Become
    <3>2. /\ t.pc = "idek1" /\ t.box = s.box /\ t.todo = s.todo /\ t.dir = d
          /\ t.obj = o
      BY <1>0, <2>1, <3>1 DEF ProcState
    <3>3. ImportSound(p) /\ BoxSound(s.box)'
      BY <1>w, <2>1, <3>2 DEF ImportPc
    <3>4. dek'[d][o] = Torn
      BY <1>0, <2>1, <3>1 DEF Whole
    <3>5. \A x \in ObjId \ {o} : dek'[d][x] = dek[d][x]
      BY <1>0, <2>1, <3>1
    <3>6. ASSUME NEW x \in Whole(s.box.deks) \ s.todo
          PROVE  dek'[d][x] = dek[d][x]
      BY <2>1, <3>5, <3>6 DEF Whole
    <3> QED BY <1>x, <2>1, <3>2, <3>3, <3>4, <3>6
            DEF ImportPc, ImportSound, Wrapped
  <2> QED BY <2>2, <2>3
<1>7. CASE FillDek(p)
  <2> DEFINE o == s.obj
  <2>1. /\ s.pc = "idek1" /\ o \in ObjId /\ o \in Whole(s.box.deks)
        /\ s.box \in Box /\ UNCHANGED <<bin, granted>>
        /\ dek' = [dek EXCEPT ![d][o] = s.box.deks[o]]
        /\ t = [s EXCEPT !.pc = "deks", !.todo = @ \ {o}]
    BY <1>0, <1>7 DEF FillDek, InHand, ghosts, Become
  <2>2. t.pc = "deks" /\ t.box = s.box /\ t.todo = s.todo \ {o} /\ t.dir = d
    BY <1>0, <2>1 DEF ProcState
  <2>3. ImportSound(p) /\ BoxSound(s.box)'
    BY <1>w, <2>1, <2>2 DEF ImportPc
  <2>4. /\ dek'[d][o] = s.box.deks[o]
        /\ \A x \in ObjId \ {o} : dek'[d][x] = dek[d][x]
    BY <1>0, <2>1
  <2> HIDE DEF o
  <2>5. ASSUME NEW x \in Whole(s.box.deks) \ (s.todo \ {o})
        PROVE  dek'[d][x] # NoFile
    <3>1. CASE x = o
      BY <2>1, <2>4, <3>1 DEF Whole
    <3>2. CASE x # o
      BY <2>1, <2>3, <2>4, <2>5, <3>2 DEF ImportSound, Whole
    <3> QED BY <3>1, <3>2
  <2> QED BY <1>x, <2>1, <2>2, <2>3, <2>5 DEF ImportPc, ImportSound, Wrapped
<1> QED
  BY <1>1, <1>2, <1>3, <1>4, <1>5, <1>6, <1>7

LEMMA OwnHand ==
  ASSUME Held, NEW p \in Process, Move(p)
  PROVE  HandSound(p)'
<1> DEFINE t == proc'[p]
<1>0. proc \in [Process -> ProcState] /\ proc[p] \in ProcState
  BY HeldAt
<1>q. ASSUME t.pc \notin ExportPc, t.pc \notin ImportPc \/ t.box = None
      PROVE  HandSound(p)'
  BY <1>q, Distinct DEF HandSound
<1>1. CASE Command(p)
  <2>1. ASSUME NEW d \in Dir,
               \/ \E i \in Identity : init(p, d, i)
               \/ \E n \in Name, k \in ScopeKey : add_scope(p, d, n, k)
               \/ \E a \in Author : trust_key(p, d, a)
        PROVE  HandSound(p)'
    <3>1. t.pc = "meta0" /\ t.box = None
      BY <1>0, <2>1 DEF init, add_scope, trust_key, Become, Off
    <3> QED BY <1>q, <3>1 DEF ExportPc
  <2>2. ASSUME NEW d \in Dir, NEW n \in Name, NEW o \in ObjId,
               seal_object(p, d, n, o)
        PROVE  HandSound(p)'
    <3>1. t.pc = "bin0"
      BY <1>0, <2>2 DEF seal_object, Become, Off
    <3> QED BY <1>q, <3>1 DEF ExportPc, ImportPc
  <2> QED BY <1>1, <2>1, <2>2, OwnExport, ImportStarts DEF Command
<1>2. CASE Crash(p) \/ ImportDone(p)
  <2>1. t.pc = "off"
    BY <1>0, <1>2 DEF Crash, ImportDone, Become, Off
  <2> QED BY <1>q, <2>1 DEF ExportPc, ImportPc
<1>3. CASE WriteBin(p)
  <2>1. t = [proc[p] EXCEPT !.pc = IF proc[p].pc = "bin0" THEN "bin1" ELSE "dek0"]
    BY <1>0, <1>3 DEF WriteBin, Become
  <2>2. t.pc \in {"bin1", "dek0"}
    BY <1>0, <2>1 DEF ProcState
  <2> QED BY <1>q, <2>2 DEF ExportPc, ImportPc
<1>4. CASE WriteDek(p)
  <2>1. t = [proc[p] EXCEPT !.pc = "dek1"] \/ t = Off
    BY <1>0, <1>4 DEF WriteDek, Become
  <2>2. t.pc \in {"dek1", "off"}
    BY <1>0, <2>1 DEF ProcState, Off
  <2> QED BY <1>q, <2>2 DEF ExportPc, ImportPc
<1> QED
  BY <1>1, <1>2, <1>3, <1>4, OwnExport, OwnImport DEF Move, Step

-----------------------------------------------------------------------------
(* The file that travels.                                                  *)

\* What vault.cbor was granted is in it.
LEMMA WrappedIsIn ==
  ASSUME MetaKept, NEW d \in Dir, meta[d] \in Meta, NEW x, Wrapped(d, x)
  PROVE  InMeta(meta[d], x)
<1>1. granted[d] \subseteq Granted(meta[d])
  BY DEF MetaKept, ScopesNeverOverwritten
<1>2. <<"identity", x.ident>> \in Granted(meta[d])
  BY <1>1 DEF Wrapped
<1>3. PICK n \in Name : <<n, x>> \in Granted(meta[d])
  BY <1>1 DEF Wrapped
<1>4. x.ident = meta[d].ident
  BY <1>2, FilesAssumption DEF Granted
<1>5. meta[d].scopes[n] = x
  BY <1>3, FilesAssumption DEF Granted
<1> QED
  BY <1>4, <1>5 DEF InMeta, Wrapped

\* An export that has read every object has a finished file.
LEMMA ExportIsSound ==
  ASSUME Held, NEW p \in Process, proc[p].pc = "out1"
  PROVE  BoxSound(proc[p].box)
<1> DEFINE s == proc[p]
           d == s.dir
           b == s.box
<1>0. ExportSound(p) /\ d \in Dir
  BY HeldAt DEF HandSound, ExportPc
<1>1. /\ b.meta = meta[d] /\ meta[d] \in Meta /\ b.promised \subseteq acked[d]
      /\ \A o \in ObjId : /\ b.objs[o] = bin[d][o] /\ b.deks[o] = dek[d][o]
                          /\ bin[d][o] # NoFile => dek[d][o] # NoFile
  BY <1>0 DEF ExportSound
<1>2. \A o \in ObjId : dek[d][o] # NoFile => Wrapped(d, bin[d][o])
  BY <1>0 DEF Held, ContainersSound, FileSound
<1>3. \A o \in acked[d] : /\ o \in ObjId /\ dek[d][o] = bin[d][o]
                          /\ Wrapped(d, bin[d][o])
  BY <1>0 DEF Held, Typed, TypeOK, ObjectsKept, AckedSound
<1>4. ASSUME NEW o \in ObjId, bin[d][o] # NoFile
      PROVE  InMeta(meta[d], bin[d][o])
  BY <1>0, <1>1, <1>2, <1>4, WrappedIsIn DEF Held
<1>5. \A x : Wrapped(d, x) => x # NoFile
  BY Distinct DEF Wrapped
<1> HIDE DEF b, d
<1>6. BoxWhole(b)
  BY <1>1, <1>2, <1>3, <1>4, <1>5 DEF BoxWhole, Whole
<1>7. \A o \in b.promised : Acked(o)
  BY <1>0, <1>1 DEF Acked
<1> QED
  BY <1>6, <1>7 DEF BoxSound, b

LEMMA AmemNext ==
  ASSUME Held, NEW p \in Process, Move(p), amem' \in Box
  PROVE  BoxSound(amem)'
<1>1. /\ \/ amem' = amem
         \/ proc[p].pc = "out1" /\ amem' = proc[p].box
      /\ \A o : Acked(o) => Acked(o)'
  BY MoveEffects, GhostsStay DEF Held, AmemEffect
<1>2. ASSUME NEW b, BoxSound(b), b = amem'
      PROVE  BoxSound(amem)'
  BY <1>1, <1>2 DEF BoxSound
<1> QED
  BY <1>1, <1>2, ExportIsSound DEF Held, ContainersSound

-----------------------------------------------------------------------------
(* The files of a vault.                                                   *)

LEMMA FilesNext ==
  ASSUME ImportsFillTheirFiles, Held, NEW p \in Process, Move(p),
         NEW d \in Dir, NEW o \in ObjId
  PROVE  FileSound(d, o)'
<1> DEFINE s == proc[p]
<1>0. /\ BinFrom(p, d, o) /\ DekFrom(p, d, o)
      /\ bin'[d][o] = bin[d][o] \/ dek'[d][o] = dek[d][o]
      /\ FileSound(d, o) /\ InHand(s) /\ SealSound(p) /\ SealedAlone(p)
      /\ \A x : Wrapped(d, x) => Wrapped(d, x)'
      /\ \A q \in Process \ {p} : proc'[q] = proc[q]
  BY FilesFrom, HeldAt, GhostsStay, MoveEffects DEF Held, ContainersSound
<1>s. ASSUME Sealing(p, o), s.pc \in {"bin0", "bin1", "dek0"}
      PROVE  Unlisted(o)
  BY <1>0, <1>s DEF SealSound, Sealing
<1>w. \A x : Wrapped(d, x) => x \in Scope /\ x # NoFile /\ x # Torn
  BY Distinct DEF Wrapped
<1>i. ASSUME s.pc \in {"bins", "ibin1", "deks", "idek1"}, s.dir = d
      PROVE  ImportSound(p) /\ s.box \in Box
  BY <1>0, <1>i, HeldAt DEF HandSound, InHand, ImportPc
<1>f. ASSUME s.pc = "ibin1", s.dir = d, s.obj = o
      PROVE  Wrapped(d, bin'[d][o]) /\ dek[d][o] = NoFile
  <2>1. bin' = [bin EXCEPT ![d][o] = s.box.objs[o]] /\ o \in Whole(s.box.objs)
    BY <1>0, <1>f, ImportFills DEF FillBin, InHand
  <2>2. bin'[d][o] = s.box.objs[o]
    BY <2>1, HeldAt
  <2> QED BY <1>f, <1>i, <2>1, <2>2 DEF ImportSound
<1>1. ASSUME dek'[d][o] # NoFile
      PROVE  Wrapped(d, bin'[d][o])
  <2>1. CASE dek'[d][o] = dek[d][o]
    <3>1. Wrapped(d, bin[d][o])
      BY <1>0, <1>1, <2>1 DEF FileSound
    <3>2. bin'[d][o] = bin[d][o]
      BY <1>0, <1>1, <1>s, <1>w, <1>f, <2>1, <3>1 DEF BinFrom, Sealing, Unlisted
    <3> QED BY <3>1, <3>2
  <2>2. CASE dek'[d][o] # dek[d][o]
    <3>1. bin'[d][o] = bin[d][o]
      BY <1>0, <2>2
    <3>2. CASE s.pc \in {"dek0", "dek1"} /\ s.dir = d /\ s.obj = o
      BY <1>0, <3>1, <3>2 DEF SealSound
    <3>3. CASE s.pc \in {"deks", "idek1"} /\ s.dir = d
                 /\ (o \in s.todo \/ s.obj = o)
      <4>1. o \in Whole(s.box.deks)
        BY <1>0, <2>2, <3>3 DEF DekFrom, InHand
      <4>2. o \in Whole(s.box.objs)
        BY <1>i, <3>3, <4>1 DEF ImportSound, BoxSound, BoxWhole, Whole
      <4> QED BY <1>i, <3>1, <3>3, <4>2 DEF ImportSound
    <3> QED BY <1>0, <2>2, <3>2, <3>3 DEF DekFrom
  <2> QED BY <2>1, <2>2
<1>2. ASSUME bin'[d][o] # NoFile, ~Wrapped(d, bin'[d][o])
      PROVE  Unlisted(o)' \/ Opening("ibin1", d, o)'
  <2>1. ~(s.pc = "ibin1" /\ s.dir = d /\ s.obj = o)
    BY <1>2, <1>f
  <2>2. CASE bin'[d][o] = bin[d][o]
    <3>1. Unlisted(o) \/ Opening("ibin1", d, o)
      BY <1>0, <1>2, <2>2 DEF FileSound
    <3>2. CASE Opening("ibin1", d, o)
      BY <1>0, <2>1, <3>2 DEF Opening
    <3>3. CASE Unlisted(o)
      <4>1. ~(s.pc \in {"dek0", "dek1"} /\ s.obj = o)
        <5> SUFFICES ASSUME s.pc \in {"dek0", "dek1"}, s.obj = o
                     PROVE  FALSE
          OBVIOUS
        <5>1. CASE s.dir = d
          BY <1>0, <1>2, <2>2, <5>1 DEF SealSound
        <5>2. CASE s.dir # d
          BY <1>0, <1>2, <2>2, <5>2 DEF SealedAlone, SealPc, NoFileIn
        <5> QED BY <5>1, <5>2
      <4> QED BY <3>3, <4>1, UnlistedKept DEF Held
    <3> QED BY <3>1, <3>2, <3>3
  <2>3. CASE s.pc \in {"bin0", "bin1"} /\ s.dir = d /\ s.obj = o
    <3>1. Unlisted(o)
      BY <1>s, <2>3 DEF Sealing
    <3>2. ~(s.pc \in {"dek0", "dek1"})
      BY <2>3
    <3> QED BY <3>1, <3>2, UnlistedKept DEF Held
  <2>4. CASE proc'[p].pc = "ibin1" /\ proc'[p].dir = d /\ proc'[p].obj = o
    BY <2>4 DEF Opening
  <2> QED BY <1>0, <2>1, <2>2, <2>3, <2>4 DEF BinFrom
<1> QED
  BY <1>0, <1>1, <1>2 DEF FileSound, Wrapped

\* Every copy of an acknowledged object stays the object.
LEMMA OldCopies ==
  ASSUME ImportsFillTheirFiles, Held, NEW p \in Process, Move(p),
         NEW h \in Dir, NEW o \in acked[h]
  PROVE  CopiesSound(h, o)'
<1> DEFINE s == proc[p]
           Copy(x) == x = NoFile \/ x = bin[h][o]
<1>0. /\ o \in ObjId /\ InHand(s) /\ CopiesSound(h, o) /\ AckedSound(h, o)
      /\ ~Sealing(p, o)
  BY HeldAt DEF Held, Typed, TypeOK, ContainersSound, ObjectsKept, SealSound,
                Sealing
<1>1. bin'[h][o] = bin[h][o]
  BY <1>0, FilesKept, Distinct DEF Held, AckedSound, Wrapped
<1>2. /\ AmemEffect(p) /\ BoxFrom(p, o)
      /\ \A d \in Dir : BinFrom(p, d, o) /\ DekFrom(p, d, o)
      /\ \A q \in Process \ {p} : proc'[q] = proc[q]
  BY <1>0, MoveEffects, BoxesFrom, FilesFrom DEF Held
<1>3. ASSUME NEW d \in Dir
      PROVE  /\ Copy(bin'[d][o]) \/ Opening("ibin1", d, o)'
             /\ Copy(dek'[d][o]) \/ Opening("idek1", d, o)'
  <2>1. Copy(bin[d][o]) \/ Opening("ibin1", d, o)
    BY <1>0 DEF CopiesSound
  <2>2. Copy(dek[d][o]) \/ Opening("idek1", d, o)
    BY <1>0 DEF CopiesSound
  <2>3. ASSUME s.pc = "ibin1", s.dir = d, s.obj = o
        PROVE  Copy(bin'[d][o])
    <3>1. bin' = [bin EXCEPT ![d][o] = s.box.objs[o]] /\ s.box \in Box
      BY <1>0, <2>3, ImportFills DEF FillBin, InHand
    <3>2. bin'[d][o] = s.box.objs[o]
      BY <1>0, <3>1, HeldAt
    <3> QED BY <1>0, <3>1, <3>2 DEF CopiesSound
  <2>4. ASSUME s.pc = "idek1", s.dir = d, s.obj = o
        PROVE  Copy(dek'[d][o])
    <3>1. dek' = [dek EXCEPT ![d][o] = s.box.deks[o]] /\ s.box \in Box
      BY <1>0, <2>4, ImportFills DEF FillDek, InHand
    <3>2. dek'[d][o] = s.box.deks[o]
      BY <1>0, <3>1, HeldAt
    <3> QED BY <1>0, <3>1, <3>2 DEF CopiesSound
  <2> HIDE DEF Copy
  <2>5. Copy(bin'[d][o]) \/ Opening("ibin1", d, o)'
    BY <1>0, <1>2, <2>1, <2>3 DEF BinFrom, Sealing, Opening
  <2>6. Copy(dek'[d][o]) \/ Opening("idek1", d, o)'
    BY <1>0, <1>2, <2>2, <2>4 DEF DekFrom, Sealing, Opening
  <2> QED BY <2>5, <2>6
<1>4. amem' \in Box => Copy(amem'.objs[o]) /\ Copy(amem'.deks[o])
  BY <1>0, <1>2 DEF AmemEffect, CopiesSound
<1>5. /\ s.pc = "exbin" /\ s.dir \in Dir => Copy(bin[s.dir][o])
      /\ s.pc = "exdek" /\ s.dir \in Dir => Copy(dek[s.dir][o])
  BY <1>0 DEF CopiesSound, Opening, Held, OneCommandPerVault, Idle
<1>6. ASSUME NEW q \in Process, proc'[q].box \in Box
      PROVE  Copy(proc'[q].box.objs[o]) /\ Copy(proc'[q].box.deks[o])
  <2>1. \A r \in Process : proc[r].box \in Box =>
          Copy(proc[r].box.objs[o]) /\ Copy(proc[r].box.deks[o])
    BY <1>0 DEF CopiesSound
  <2>2. amem \in Box => Copy(amem.objs[o]) /\ Copy(amem.deks[o])
    BY <1>0 DEF CopiesSound
  <2>3. Copy(NoFile)
    OBVIOUS
  <2> HIDE DEF Copy
  <2> QED BY <1>2, <1>5, <1>6, <2>1, <2>2, <2>3 DEF BoxFrom
<1> HIDE DEF s
<1>7. \A d \in Dir :
        /\ bin'[d][o] = NoFile \/ bin'[d][o] = bin'[h][o]
             \/ Opening("ibin1", d, o)'
        /\ dek'[d][o] = NoFile \/ dek'[d][o] = bin'[h][o]
             \/ Opening("idek1", d, o)'
  BY <1>1, <1>3
<1> QED
  BY <1>1, <1>4, <1>6, <1>7 DEF CopiesSound

\* When seal_object returns, nobody has another copy.
LEMMA NewCopies ==
  ASSUME Held, NEW p \in Process, WriteDek(p), proc[p].pc = "dek1",
         NEW h \in Dir, NEW o \in ObjId, h = proc[p].dir, o = proc[p].obj
  PROVE  CopiesSound(h, o)'
<1> DEFINE s == proc[p]
<1>0. /\ s \in ProcState /\ InHand(s) /\ SealSound(p) /\ SealedAlone(p)
      /\ proc \in [Process -> ProcState]
      /\ dek \in [Dir -> [ObjId -> ObjFile]]
  BY HeldAt
<1>1. /\ NoBoxHas(o) /\ bin[h][o] = s.scope
      /\ \A d \in Dir \ {h} : NoFileIn(d, o)
  BY <1>0 DEF SealedAlone, SealPc, SealSound
<1>2. /\ UNCHANGED <<bin, amem>> /\ proc'[p] = Off
      /\ \A q \in Process \ {p} : proc'[q] = proc[q]
      /\ dek' = [dek EXCEPT ![h][o] = s.scope]
  BY <1>0 DEF WriteDek, Become
<1>3. /\ dek'[h][o] = s.scope
      /\ \A d \in Dir \ {h} : dek'[d][o] = dek[d][o]
  BY <1>0, <1>2
<1>4. \A q \in Process : proc'[q].box \in Box =>
        proc'[q].box.objs[o] = NoFile /\ proc'[q].box.deks[o] = NoFile
  BY <1>1, <1>2, Distinct DEF NoBoxHas, Off
<1>5. bin'[h][o] = s.scope /\ (amem' \in Box =>
        amem'.objs[o] = NoFile /\ amem'.deks[o] = NoFile)
  BY <1>1, <1>2 DEF NoBoxHas
<1>6. ASSUME NEW d \in Dir
      PROVE  bin'[d][o] \in {NoFile, s.scope} /\ dek'[d][o] \in {NoFile, s.scope}
  <2>1. CASE d = h
    BY <1>3, <1>5, <2>1
  <2>2. CASE d # h
    BY <1>1, <1>2, <1>3, <2>2 DEF NoFileIn
  <2> QED BY <2>1, <2>2
<1> HIDE DEF s
<1> QED
  BY <1>4, <1>5, <1>6 DEF CopiesSound

-----------------------------------------------------------------------------
(* What an import has promised.                                            *)

LEMMA RestoredChange ==
  ASSUME NEW p \in Process, Move(p)
  PROVE  restored' = restored \/ ImportDone(p)
BY DEF Move, Command, init, add_scope, trust_key, seal_object, export,
       import_file_into, Crash, Step, TruncateMeta, FillMeta, WriteBin,
       WriteDek, list_objects, ExportBin, ExportDek, WriteExport, ImportBin,
       FillBin, StartDeks, ImportDek, FillDek, disk, ghosts

LEMMA OldRestored ==
  ASSUME Held, NEW p \in Process, Move(p),
         NEW d \in Dir, NEW o \in restored[d]
  PROVE  RestoredSound(d, o)'
<1>1. RestoredSound(d, o) /\ o \in ObjId
  BY DEF Held, Typed, TypeOK, ContainersSound
<1>2. ~Sealing(p, o)
  BY <1>1, HeldAt DEF RestoredSound, Acked, SealSound, Sealing
<1>3. Untouched(d, o)
  <2> SUFFICES ASSUME NEW q \in Process, proc[q].pc \in {"ibin1", "idek1"},
                      proc[q].dir = d, proc[q].obj = o
               PROVE  FALSE
    BY DEF Untouched
  <2>1. ImportSound(q)
    BY HeldAt DEF HandSound, InHand, ImportPc
  <2> QED BY <1>1, <2>1, Distinct DEF ImportSound, RestoredSound, Wrapped
<1>4. bin'[d][o] = bin[d][o] /\ dek'[d][o] = dek[d][o]
  BY <1>1, <1>2, <1>3, FilesKept, Distinct DEF Held, RestoredSound, Wrapped
<1>5. /\ Wrapped(d, bin[d][o]) /\ granted[d] \subseteq granted'[d]
      /\ Acked(o)'
  BY <1>1, GhostsGrow, GhostsStay DEF Held, RestoredSound
<1> QED
  BY <1>1, <1>4, <1>5 DEF RestoredSound, Wrapped

\* An import that returns has stored every object of its file, or found it.
LEMMA NewRestored ==
  ASSUME Held, NEW p \in Process, ImportDone(p),
         NEW d \in Dir, d = proc[p].dir, NEW o \in proc[p].box.promised
  PROVE  RestoredSound(d, o)'
<1> DEFINE s == proc[p]
<1>0. s.pc = "deks" /\ s.todo = {} /\ s.box \in Box /\ ImportSound(p)
  BY HeldAt DEF ImportDone, InHand, HandSound, ImportPc
<1>1. o \in ObjId
  BY <1>0 DEF Box
<1>2. s.box.objs[o] # NoFile /\ s.box.deks[o] # NoFile /\ Acked(o)
  BY <1>0, <1>1 DEF ImportSound, BoxSound, BoxWhole
<1>3. Wrapped(d, bin[d][o]) /\ dek[d][o] # NoFile
  BY <1>0, <1>1, <1>2 DEF ImportSound, Whole
<1>4. PICK h \in Dir : o \in acked[h]
  BY <1>2 DEF Acked
<1>5. ~Opening("ibin1", d, o) /\ ~Opening("idek1", d, o)
  BY <1>0 DEF Opening, Held, OneCommandPerVault, Idle
<1>6. bin[d][o] = bin[h][o] /\ dek[d][o] = bin[h][o]
  BY <1>3, <1>4, <1>5, Distinct
  DEF Held, ContainersSound, CopiesSound, Wrapped
<1>7. UNCHANGED <<bin, dek, acked, granted>>
  BY DEF ImportDone, disk
<1> QED
  BY <1>2, <1>3, <1>6, <1>7 DEF RestoredSound, Wrapped, Acked

-----------------------------------------------------------------------------
LEMMA ContainersInit == Init => ContainersSound
<1> SUFFICES ASSUME Init
             PROVE  ContainersSound
  OBVIOUS
<1>1. IdsOwned
  BY Distinct DEF Init, IdsOwned, NoBoxHas, NoFileIn, SealedAlone, SealPc,
                  NoObjects, Off
<1>2. \A p \in Process : HandSound(p)
  BY DEF Init, HandSound, ExportPc, ImportPc, Off
<1> QED
  BY <1>1, <1>2, Distinct DEF Init, ContainersSound, FileSound, NoObjects

LEMMA ContainersStutter ==
  ASSUME ContainersSound, UNCHANGED vars
  PROVE  ContainersSound'
<1>0. UNCHANGED <<meta, bin, dek, amem, proc, drawn, acked, granted, restored>>
  BY DEF vars
<1>1. IdsOwned'
  BY <1>0 DEF ContainersSound, IdsOwned, NoBoxHas, NoFileIn, SealedAlone
<1>2. ASSUME NEW p \in Process
      PROVE  HandSound(p)'
  <2>1. HandSound(p)
    BY DEF ContainersSound
  <2> QED BY <1>0, <2>1 DEF HandSound, ExportSound, ImportSound, BoxSound,
                            Acked, Wrapped
<1>3. (amem \in Box => BoxSound(amem))'
  BY <1>0 DEF ContainersSound, BoxSound, Acked
<1>4. ASSUME NEW d \in Dir, NEW o \in ObjId
      PROVE  FileSound(d, o)'
  <2>1. FileSound(d, o)
    BY DEF ContainersSound
  <2> QED BY <1>0, <2>1 DEF FileSound, Wrapped, Unlisted, Opening
<1>5. ASSUME NEW h \in Dir, NEW o \in acked'[h]
      PROVE  CopiesSound(h, o)'
  <2>1. CopiesSound(h, o)
    BY <1>0 DEF ContainersSound
  <2> QED BY <1>0, <2>1 DEF CopiesSound, Opening
<1>6. ASSUME NEW d \in Dir, NEW o \in restored'[d]
      PROVE  RestoredSound(d, o)'
  <2>1. RestoredSound(d, o)
    BY <1>0 DEF ContainersSound
  <2> QED BY <1>0, <2>1 DEF RestoredSound, Wrapped, Acked
<1> QED
  BY <1>1, <1>2, <1>3, <1>4, <1>5, <1>6 DEF ContainersSound

LEMMA ContainersNext ==
  ASSUME ImportsFillTheirFiles
  PROVE  Held /\ [Next]_vars => ContainersSound'
<1> SUFFICES ASSUME Held, [Next]_vars
             PROVE  ContainersSound'
  OBVIOUS
<1>1. CASE UNCHANGED vars
  BY <1>1, ContainersStutter DEF Held
<1>2. ASSUME NEW p \in Process, Move(p)
      PROVE  ContainersSound'
  <2>0. Typed' /\ DOMAIN acked = Dir /\ DOMAIN restored = Dir
    BY TypedNext DEF Held, Typed, TypeOK
  <2>1. IdsOwned'
    BY <1>2, IdsOwnedNext
  <2>2. \A q \in Process : HandSound(q)'
    BY <1>2, OwnHand, OthersHand
  <2>3. amem' \in Box => BoxSound(amem)'
    BY <1>2, AmemNext
  <2>4. \A d \in Dir, o \in ObjId : FileSound(d, o)'
    BY <1>2, FilesNext
  <2>5. ASSUME NEW h \in Dir, NEW o \in acked'[h]
        PROVE  CopiesSound(h, o)'
    <3>1. CASE o \in acked[h]
      BY <1>2, <3>1, OldCopies
    <3>2. CASE o \notin acked[h]
      <4>1. WriteDek(p) /\ proc[p].pc = "dek1"
        BY <1>2, <3>2, GhostsGrow DEF Held
      <4>2. acked' = [acked EXCEPT ![proc[p].dir] = @ \cup {proc[p].obj}]
        BY <4>1 DEF WriteDek
      <4>3. h = proc[p].dir /\ o = proc[p].obj /\ o \in ObjId
        BY <2>0, <3>2, <4>2 DEF Typed, TypeOK
      <4> QED BY <4>1, <4>3, NewCopies
    <3> QED BY <3>1, <3>2
  <2>6. ASSUME NEW d \in Dir, NEW o \in restored'[d]
        PROVE  RestoredSound(d, o)'
    <3>1. CASE o \in restored[d]
      BY <1>2, <3>1, OldRestored
    <3>2. CASE o \notin restored[d]
      <4>1. ImportDone(p)
        BY <1>2, <3>2, RestoredChange
      <4>2. restored' = [restored EXCEPT ![proc[p].dir] =
                           @ \cup proc[p].box.promised]
        BY <4>1 DEF ImportDone
      <4>3. d = proc[p].dir /\ o \in proc[p].box.promised
        BY <2>0, <3>2, <4>2
      <4> QED BY <4>1, <4>3, NewRestored
    <3> QED BY <3>1, <3>2
  <2> QED BY <2>1, <2>2, <2>3, <2>4, <2>5, <2>6 DEF ContainersSound
<1> QED
  BY <1>1, <1>2 DEF Next, Move

LEMMA InTurnIsApart == OneCommandPerVault => WritersApart
BY DEF OneCommandPerVault, WritersApart, Idle

\* A finished file can be imported into a new vault, whole.
LEMMA SoundReconstructs ==
  ASSUME TypeOK, amem \in Box => BoxSound(amem)
  PROVE  ContainerReconstructs
<1> SUFFICES ASSUME amem \in Box
             PROVE  /\ Valid(amem, amem.meta)
                    /\ \A o \in amem.promised :
                         amem.objs[o] \in Scope /\ amem.deks[o] = amem.objs[o]
  BY DEF ContainerReconstructs
<1>0. BoxWhole(amem) /\ amem.promised \subseteq ObjId
  BY DEF BoxSound, Box
<1>1. ASSUME NEW o \in Whole(amem.objs)
      PROVE  Storable(amem.objs[o], amem.meta) /\ amem.objs[o] \in Scope
  BY <1>0, <1>1, Distinct DEF BoxWhole, InMeta, Storable
<1>2. ASSUME NEW o \in amem.promised
      PROVE  o \in Whole(amem.objs) /\ amem.deks[o] = amem.objs[o]
  BY <1>0, <1>2 DEF BoxWhole, Whole
<1> QED
  BY <1>1, <1>2 DEF Valid

LEMMA SoundRestores ==
  ASSUME MetaKept, ContainersSound
  PROVE  ImportRestores
BY WrappedIsReadable DEF ContainersSound, RestoredSound, ImportRestores

\* The .amem file alone rebuilds the memory: as long as the commands on one
\* vault take turns and none dies over a file it imports, a fresh import
\* accepts whatever a finished export wrote, and the object and the DEK of
\* every memory acknowledged before that export began are in it.
THEOREM ContainerIsComplete ==
  ASSUME ImportsFillTheirFiles
  PROVE  Spec /\ []OneCommandPerVault => []ContainerReconstructs
<1>1. Held /\ [Next]_vars => ContainersSound'
  BY ContainersNext
<1>2. Typed /\ ContainersSound => ContainerReconstructs
  BY SoundReconstructs DEF Typed, ContainersSound
<1> QED
  BY <1>1, <1>2, TypedInit, TypedNext, MetaKeptInit, MetaKeptNext,
     InTurnIsApart, MetaOwnNext, ObjectsInit, ObjectsKeptNext, ContainersInit,
     PTL DEF Spec, Held

\* import_file_into keeps its promise: under the same conditions, every memory
\* that the file of an import that returned was promised to hold is readable
\* in the vault it was imported into, after whatever imports died before.
THEOREM ImportIsComplete ==
  ASSUME ImportsFillTheirFiles
  PROVE  Spec /\ []OneCommandPerVault => []ImportRestores
<1>1. Held /\ [Next]_vars => ContainersSound'
  BY ContainersNext
<1>2. MetaKept /\ ContainersSound => ImportRestores
  BY SoundRestores
<1> QED
  BY <1>1, <1>2, TypedInit, TypedNext, MetaKeptInit, MetaKeptNext,
     InTurnIsApart, MetaOwnNext, ObjectsInit, ObjectsKeptNext, ContainersInit,
     PTL DEF Spec, Held
=============================================================================
