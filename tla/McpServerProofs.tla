--------------------------- MODULE McpServerProofs --------------------------
(***************************************************************************)
(* Theorems about McpServer, for any number of servers and vaults, killed  *)
(* at any control point: the server is a client of the commands of         *)
(* VaultFiles, so what they keep it keeps, and what amem_remember answers  *)
(* is true of the vault.                                                   *)
(***************************************************************************)
EXTENDS McpServer, VaultFilesProofs

ToolsTyped == tool \in [Process -> ToolState]

LEMMA HomeTyped == \A p \in Process : Home[p] \in Dir
BY ServerAssumption

\* What the two ways to go on leave of a tool call.
SameCall(p) ==
  /\ tool'[p].name = tool[p].name /\ tool'[p].scope = tool[p].scope
  /\ tool'[p].obj = tool[p].obj
LEMMA ToolAt ==
  ASSUME ToolsTyped, NEW p \in Process
  PROVE  /\ \A c : Goto(p, c) => /\ SameCall(p) /\ tool'[p].stage = c
                                 /\ tool'[p].answer = tool[p].answer
         /\ \A a : Answer(p, a) => /\ SameCall(p) /\ tool'[p].stage = "idle"
                                   /\ tool'[p].answer = a
<1>0. tool \in [Process -> ToolState] /\ tool[p] \in ToolState
  BY DEF ToolsTyped
<1>1. ASSUME NEW c, Goto(p, c)
      PROVE  /\ SameCall(p) /\ tool'[p].stage = c
             /\ tool'[p].answer = tool[p].answer
  <2>1. tool'[p] = [tool[p] EXCEPT !.stage = c]
    BY <1>0, <1>1 DEF Goto
  <2> QED BY <1>0, <2>1 DEF SameCall, ToolState
<1>2. ASSUME NEW a, Answer(p, a)
      PROVE  SameCall(p) /\ tool'[p].stage = "idle" /\ tool'[p].answer = a
  <2>1. tool'[p] = [tool[p] EXCEPT !.stage = "idle", !.answer = a]
    BY <1>0, <1>2 DEF Answer
  <2> QED BY <1>0, <2>1 DEF SameCall, ToolState
<1> QED
  BY <1>1, <1>2

\* What a step of a server is: a command it calls, a step of the command, or a
\* step of its own that leaves every file alone.
ServerMove(p) == Command(p) \/ Step(p) \/ Crash(p) \/ UNCHANGED vars

LEMMA ServerStepMoves ==
  ASSUME ToolsTyped, NEW p \in Process, ServerStep(p)
  PROVE  ServerMove(p)
<1>0. Home[p] \in Dir /\ Default \in Name /\ tool[p].scope \in Name
  BY ServerAssumption DEF ToolsTyped, ToolState
<1>1. CASE EnsureVault(p)
  BY <1>0, <1>1 DEF EnsureVault, ServerMove, Command
<1>2. CASE EnsureDefault(p)
  BY <1>0, <1>2 DEF EnsureDefault, ServerMove, Command
<1>3. CASE EnsureScope(p)
  BY <1>0, <1>3 DEF EnsureScope, ServerMove, Command
<1>4. CASE amem_remember(p)
  BY <1>0, <1>4 DEF amem_remember, ServerMove, Command
<1>5. CASE amem_export(p) \/ amem_import(p)
  BY <1>0, <1>5 DEF amem_export, amem_import, ServerMove, Command
<1>6. CASE amem_recall(p) \/ Return(p) \/ Raise(p) \/ Run(p)
  BY <1>6 DEF amem_recall, Return, Raise, Run, ServerMove
<1> QED
  BY <1>1, <1>2, <1>3, <1>4, <1>5, <1>6 DEF ServerStep

LEMMA ServerNextMoves ==
  ASSUME ToolsTyped, NEW p \in Process,
         \/ \E name \in Tool, n \in Name : CallTool(p, name, n)
         \/ ServerStep(p) \/ Die(p)
  PROVE  ServerMove(p)
BY ServerStepMoves DEF CallTool, Die, ServerMove

LEMMA ServerIsFiles ==
  ToolsTyped /\ [ServerNext]_allvars => [Next]_vars
BY ServerNextMoves DEF ServerNext, ServerMove, Next, allvars

LEMMA ToolsTypedInit == ServerInit => ToolsTyped
BY ServerAssumption DEF ServerInit, ToolsTyped, NoTool, ToolState

LEMMA ToolsTypedNext ==
  ToolsTyped /\ [ServerNext]_allvars => ToolsTyped'
<1> SUFFICES ASSUME ToolsTyped, [ServerNext]_allvars
             PROVE  ToolsTyped'
  OBVIOUS
<1>t. ASSUME NEW p \in Process, NEW t \in ToolState,
             tool' = [tool EXCEPT ![p] = t]
      PROVE  ToolsTyped'
  BY <1>t DEF ToolsTyped
<1>g. ASSUME NEW p \in Process,
             NEW c \in {"idle", "vault", "default", "scope", "act", "acting"},
             Goto(p, c)
      PROVE  ToolsTyped'
  BY <1>g DEF Goto, ToolsTyped, ToolState
<1>a. ASSUME NEW p \in Process,
             NEW a \in {"none", "ok", "rejected", "error"}, Answer(p, a)
      PROVE  ToolsTyped'
  <2> DEFINE t == [tool[p] EXCEPT !.stage = "idle", !.answer = a]
  <2>1. t \in ToolState
    BY <1>a DEF ToolsTyped, ToolState
  <2>2. tool' = [tool EXCEPT ![p] = t]
    BY <1>a DEF Answer, ToolsTyped
  <2> HIDE DEF t
  <2> QED BY <1>t, <2>1, <2>2
<1>1. CASE UNCHANGED allvars
  BY <1>1 DEF allvars, ToolsTyped
<1>2. ASSUME NEW p \in Process, NEW name \in Tool, NEW n \in Name,
             CallTool(p, name, n)
      PROVE  ToolsTyped'
  <2> DEFINE fresh == Vaultless(p) /\ amem \in Box /\ Valid(amem, amem.meta)
             t == [name |-> name, stage |-> "vault", scope |-> n,
                   obj |-> None, answer |-> "none", fresh |-> fresh]
  <2>1. tool' = [tool EXCEPT ![p] = t]
    BY <1>2 DEF CallTool
  <2>2. fresh \in BOOLEAN
    BY Zenon
  <2>3. t \in ToolState
    <3> HIDE DEF fresh
    <3> QED BY <2>2 DEF ToolState
  <2> HIDE DEF t
  <2> QED BY <1>t, <2>1, <2>3
<1>3. ASSUME NEW p \in Process, ServerStep(p)
      PROVE  ToolsTyped'
  <2>1. CASE EnsureVault(p) \/ EnsureDefault(p) \/ EnsureScope(p) \/ amem_export(p)
    BY <1>g, <2>1 DEF EnsureVault, EnsureDefault, EnsureScope, amem_export
  <2>2. CASE amem_remember(p)
    <3>1. PICK o \in ObjId :
            tool' = [tool EXCEPT ![p].stage = "acting", ![p].obj = o]
      BY <2>2 DEF amem_remember
    <3> DEFINE t == [tool[p] EXCEPT !.stage = "acting", !.obj = o]
    <3>2. t \in ToolState
      BY DEF ToolsTyped, ToolState
    <3>3. tool' = [tool EXCEPT ![p] = t]
      BY <3>1 DEF ToolsTyped
    <3> HIDE DEF t
    <3> QED BY <1>t, <3>2, <3>3
  <2>3. CASE amem_import(p)
    BY <1>g, <1>a, <2>3 DEF amem_import
  <2>4. CASE amem_recall(p) \/ Return(p) \/ Raise(p)
    BY <1>a, <2>4 DEF amem_recall, Return, Raise
  <2>5. CASE Run(p)
    BY <1>a, <2>5 DEF Run, ToolsTyped
  <2> QED
    BY <1>3, <2>1, <2>2, <2>3, <2>4, <2>5 DEF ServerStep
<1>4. ASSUME NEW p \in Process, Die(p)
      PROVE  ToolsTyped'
  <2>1. NoTool \in ToolState
    BY ServerAssumption DEF NoTool, ToolState
  <2> QED BY <1>4, <1>t, <2>1 DEF Die
<1> QED
  BY <1>1, <1>2, <1>3, <1>4 DEF ServerNext

\* A behaviour of the servers is a behaviour of the commands: a tool does
\* nothing to the files that a command does not.
THEOREM ServerImplementsFiles == ServerSpec => Spec
<1>1. ServerInit => Init
  BY DEF ServerInit
<1> QED
  BY <1>1, ToolsTypedInit, ToolsTypedNext, ServerIsFiles, PTL
  DEF ServerSpec, Spec

\* Every variable of the servers and of their vaults keeps its type.
THEOREM ServerTypeCorrect == ServerSpec => []ServerTypeOK
<1>1. Typed /\ ToolsTyped => ServerTypeOK
  BY DEF Typed, ToolsTyped, ServerTypeOK
<1>2. ServerInit => Init
  BY DEF ServerInit
<1> QED
  BY <1>1, <1>2, ToolsTypedInit, ToolsTypedNext, ServerIsFiles, TypedInit,
     TypedNext, PTL DEF ServerSpec

-----------------------------------------------------------------------------
(* What amem_remember answers.                                             *)

\* The steps after which the files are as before, or moved by one command.
LEMMA ServerMoves ==
  ASSUME NEW p \in Process, ServerMove(p)
  PROVE  Move(p) \/ UNCHANGED vars
BY DEF ServerMove, Move

\* SealedIn, once the step is done, of what was named before it.
SealedAfter(d, n, o) == o \in acked'[d] /\ <<n, bin'[d][o]>> \in granted'[d]

\* What seal_object has returned for stays.
LEMMA SealedInKept ==
  ASSUME Typed, ObjectsKept, NEW p \in Process, ServerMove(p),
         NEW d \in Dir, NEW n \in Name, NEW o, SealedIn(d, n, o)
  PROVE  SealedAfter(d, n, o)
<1>1. CASE UNCHANGED vars
  BY <1>1 DEF vars, SealedIn, SealedAfter
<1>2. CASE Move(p)
  <2>1. o \in acked[d] /\ o \in ObjId /\ <<n, bin[d][o]>> \in granted[d]
    BY DEF SealedIn, Typed, TypeOK
  <2>2. AckedSound(d, o) /\ SealSound(p)
    BY <2>1 DEF ObjectsKept
  <2>3. bin[d][o] # NoFile /\ dek[d][o] # NoFile /\ Untouched(d, o)
    BY <2>2, Distinct DEF AckedSound, Wrapped
  <2>4. ~Sealing(p, o)
    BY <2>1, <2>2 DEF SealSound, Sealing
  <2>5. bin'[d][o] = bin[d][o]
    BY <1>2, <2>1, <2>3, <2>4, FilesKept
  <2>6. o \in acked'[d]
    <3>1. CASE WriteDek(p) /\ proc[p].pc = "dek1"
      <4>1. acked' = [acked EXCEPT ![proc[p].dir] = @ \cup {proc[p].obj}]
        BY <3>1 DEF WriteDek
      <4> QED BY <2>1, <4>1 DEF Typed, TypeOK
    <3> QED BY <1>2, <2>1, <3>1, GhostsGrow
  <2> QED BY <1>2, <2>1, <2>5, <2>6, GhostsGrow DEF SealedAfter
<1> QED
  BY <1>1, <1>2, ServerMoves

\* One step of a command that seals.
LEMMA SealStep ==
  ASSUME Typed, ObjectsKept, NEW p \in Process, Step(p),
         proc[p].pc \in SealPc, NEW n \in Name,
         <<n, proc[p].scope>> \in granted[proc[p].dir]
  PROVE  /\ ~MissingDek(p)
         /\ \/ /\ proc'[p].pc \in SealPc
               /\ proc'[p].dir = proc[p].dir /\ proc'[p].obj = proc[p].obj
               /\ proc'[p].scope = proc[p].scope
            \/ Idle(p)' /\ SealedAfter(proc[p].dir, n, proc[p].obj)
<1> DEFINE s == proc[p]
<1>0. /\ s \in ProcState /\ InHand(s) /\ SealSound(p)
      /\ proc \in [Process -> ProcState] /\ DOMAIN acked = Dir
      /\ s.dir \in Dir
  BY DEF ObjectsKept, Typed, TypeOK, HandsTyped, InHand, SealPc
<1>1. WriteBin(p) \/ WriteDek(p)
  BY DEF Step, SealPc, TruncateMeta, FillMeta, list_objects, ExportBin,
         ExportDek, WriteExport, ImportBin, FillBin, StartDeks, ImportDek,
         FillDek, ImportDone
<1>2. CASE WriteBin(p)
  <2>1. /\ s.pc \in {"bin0", "bin1"}
        /\ proc'[p] = [s EXCEPT !.pc = IF s.pc = "bin0" THEN "bin1" ELSE "dek0"]
    BY <1>0, <1>2 DEF WriteBin, Become
  <2> QED BY <1>0, <2>1 DEF ProcState, SealPc, MissingDek
<1>3. CASE WriteDek(p) /\ s.pc = "dek0"
  <2>1. proc'[p] = [s EXCEPT !.pc = "dek1"]
    BY <1>0, <1>3 DEF WriteDek, Become
  <2> QED BY <1>0, <1>3, <2>1 DEF ProcState, SealPc, MissingDek
<1>4. CASE WriteDek(p) /\ s.pc = "dek1"
  <2>1. /\ proc'[p] = Off /\ bin' = bin /\ granted' = granted
        /\ acked' = [acked EXCEPT ![s.dir] = @ \cup {s.obj}]
    BY <1>0, <1>4 DEF WriteDek, Become
  <2>2. bin[s.dir][s.obj] = s.scope
    BY <1>0, <1>4 DEF SealSound
  <2>3. s.obj \in acked'[s.dir]
    BY <1>0, <2>1
  <2>4. <<n, bin'[s.dir][s.obj]>> \in granted'[s.dir]
    BY <2>1, <2>2
  <2>5. proc'[p].pc = "off"
    BY <2>1 DEF Off
  <2> QED BY <1>4, <2>3, <2>4, <2>5 DEF SealedAfter, Idle, MissingDek
<1> QED
  BY <1>1, <1>2, <1>3, <1>4 DEF WriteDek

LEMMA RememberInit == ServerInit => Remembering
BY DEF ServerInit, Remembering, RememberSound, NoTool

LEMMA RememberNext ==
  Typed /\ ToolsTyped /\ MetaOwn /\ ObjectsKept /\ Remembering
    /\ [ServerNext]_allvars => Remembering'
<1> SUFFICES ASSUME Typed, ToolsTyped, MetaOwn, ObjectsKept, Remembering,
                    [ServerNext]_allvars
             PROVE  Remembering'
  OBVIOUS
<1>0. proc \in [Process -> ProcState] /\ tool \in [Process -> ToolState]
  BY DEF Typed, TypeOK, ToolsTyped
\* A server whose call of seal_object is where it was.
<1>k. ASSUME NEW p \in Process, ServerMove(p), NEW q \in Process,
             tool'[q].name = "amem_remember" =>
               /\ SameCall(q)
               /\ tool'[q].stage # "idle" => tool'[q].answer # "ok"
               /\ tool'[q].answer = "ok" =>
                    \/ tool[q].answer = "ok"
                    \/ SealedIn(Home[q], tool[q].scope, tool[q].obj)
               /\ tool'[q].stage = "acting" =>
                    tool[q].stage = "acting" /\ proc'[q] = proc[q]
      PROVE  RememberSound(q)'
  <2> SUFFICES ASSUME tool'[q].name = "amem_remember"
               PROVE  RememberSound(q)'
    BY DEF RememberSound
  <2> DEFINE t == tool[q]
             d == Home[q]
  <2>0. d \in Dir /\ t.scope \in Name
    BY <1>0, HomeTyped DEF ToolState
  <2>1. t.name = "amem_remember" /\ RememberSound(q)
    BY <1>k DEF Remembering, SameCall
  <2>2. SealedIn(d, t.scope, t.obj) => SealedAfter(d, t.scope, t.obj)
    BY <1>k, <2>0, SealedInKept
  <2>4. tool'[q].answer = "ok" => SealedAfter(d, t.scope, t.obj)
    BY <1>k, <2>1, <2>2 DEF RememberSound
  <2>5. granted[d] \subseteq granted'[d]
    BY <1>k, <2>0, ServerMoves, GhostsGrow DEF vars
  <2>6. tool'[q].stage = "acting" =>
          \/ /\ proc'[q].pc \in {"bin0", "bin1", "dek0", "dek1"}
             /\ proc'[q].dir = d /\ proc'[q].obj = tool'[q].obj
             /\ <<tool'[q].scope, proc'[q].scope>> \in granted'[d]
          \/ proc'[q].pc = "off" /\ SealedAfter(d, t.scope, t.obj)
    BY <1>k, <2>1, <2>2, <2>5 DEF RememberSound, SameCall, Idle
  <2> QED BY <1>k, <2>4, <2>6
          DEF RememberSound, SealedIn, SealedAfter, SameCall, Idle
<1>1. CASE UNCHANGED allvars
  <2>1. UNCHANGED <<proc, tool, acked, bin, granted>>
    BY <1>1 DEF allvars, vars
  <2> QED BY <2>1 DEF Remembering, RememberSound, SealedIn, Idle
<1>2. ASSUME NEW p \in Process,
             \/ \E name \in Tool, n \in Name : CallTool(p, name, n)
             \/ ServerStep(p) \/ Die(p)
      PROVE  Remembering'
  <2>0. ServerMove(p)
    BY <1>2, ServerNextMoves
  <2>1. ASSUME NEW q \in Process, q # p
        PROVE  tool'[q] = tool[q] /\ proc'[q] = proc[q]
    <3>1. proc'[q] = proc[q]
      BY <2>0, <2>1, ServerMoves, MoveEffects DEF vars
    <3>2. tool'[q] = tool[q]
      BY <1>0, <1>2, <2>1
      DEF CallTool, Die, ServerStep, EnsureVault, EnsureDefault, EnsureScope,
          amem_remember, amem_export, amem_import, amem_recall, Return, Raise,
          Run, Goto, Answer
    <3> QED BY <3>1, <3>2
  <2>2. \A q \in Process \ {p} : RememberSound(q)'
    BY <2>0, <2>1, <1>k DEF SameCall, Remembering, RememberSound
  <2>3. RememberSound(p)'
    <3>a. ASSUME NEW name \in Tool, NEW n \in Name, CallTool(p, name, n)
          PROVE  RememberSound(p)'
      BY <1>0, <3>a DEF CallTool, RememberSound
    <3>b. CASE EnsureVault(p) \/ EnsureDefault(p) \/ EnsureScope(p)
      <4>1. PICK c \in {"default", "scope", "act"} : Goto(p, c)
        BY <3>b DEF EnsureVault, EnsureDefault, EnsureScope
      <4>2. tool[p].stage # "idle"
        BY <3>b DEF EnsureVault, EnsureDefault, EnsureScope, At
      <4>3. SameCall(p) /\ tool'[p].stage = c /\ tool'[p].answer = tool[p].answer
        BY <4>1, ToolAt
      <4>4. RememberSound(p) /\ c # "acting"
        BY DEF Remembering
      <4> QED BY <1>k, <2>0, <4>2, <4>3, <4>4 DEF RememberSound, SameCall
    <3>c. CASE amem_export(p) \/ amem_import(p) \/ amem_recall(p)
      <4>1. /\ tool[p].name # "amem_remember"
            /\ \/ Goto(p, "acting") \/ Answer(p, "rejected")
               \/ Answer(p, "ok")
        BY <3>c DEF amem_export, amem_import, amem_recall
      <4>2. tool'[p].name = tool[p].name
        BY <4>1, ToolAt DEF SameCall
      <4> QED BY <4>1, <4>2 DEF RememberSound
    <3>d. CASE amem_remember(p)
      <4>1. PICK o \in ObjId :
              /\ seal_object(p, Home[p], tool[p].scope, o)
              /\ tool' = [tool EXCEPT ![p].stage = "acting", ![p].obj = o]
        BY <3>d DEF amem_remember
      <4> DEFINE t == tool[p]
                 d == Home[p]
                 e == meta[d].scopes[t.scope]
      <4>2. /\ d \in Dir /\ t.scope \in Name /\ meta[d] \in Meta /\ e # None
            /\ granted' = granted
            /\ proc'[p] = [Off EXCEPT !.pc = "bin0", !.dir = d, !.obj = o,
                                      !.scope = e]
        BY <1>0, <4>1, HomeTyped DEF seal_object, Become, ghosts, ToolState
      <4>3. <<t.scope, e>> \in granted[d]
        BY <4>2 DEF MetaOwn, Granted
      <4>4. /\ tool'[p].scope = t.scope /\ tool'[p].obj = o
            /\ tool'[p].answer = t.answer /\ tool'[p].name = t.name
        BY <1>0, <4>1 DEF ToolState
      <4>5. /\ proc'[p].pc = "bin0" /\ proc'[p].dir = d /\ proc'[p].obj = o
            /\ proc'[p].scope = e
        BY <4>2 DEF Off
      <4>6. t.answer # "ok"
        BY <3>d DEF amem_remember, At, Remembering, RememberSound
      <4> QED BY <4>2, <4>3, <4>4, <4>5, <4>6 DEF RememberSound
    <3>e. CASE Return(p)
      <4>1. /\ SameCall(p) /\ tool'[p].stage = "idle"
            /\ tool[p].stage = "acting" /\ Idle(p)
        BY <3>e, ToolAt DEF Return, At
      <4>2. tool[p].name = "amem_remember" =>
              SealedIn(Home[p], tool[p].scope, tool[p].obj)
        BY <4>1 DEF Remembering, RememberSound, Idle
      <4> QED BY <1>k, <2>0, <4>1, <4>2 DEF SameCall
    <3>f. CASE Raise(p)
      <4>1. /\ SameCall(p) /\ tool'[p].stage = "idle"
            /\ tool'[p].answer = "error"
        BY <3>f, ToolAt DEF Raise
      <4> QED BY <1>k, <2>0, <4>1
    <3>g. CASE Run(p)
      <4>1. CASE tool[p].name = "amem_remember" /\ tool[p].stage = "acting"
        <5> DEFINE t == tool[p]
                   d == Home[p]
        <5>1. Step(p) /\ ~Idle(p)
          BY <3>g DEF Run, Idle, Step, TruncateMeta, FillMeta, WriteBin,
             WriteDek, list_objects, ExportBin, ExportDek, WriteExport,
             ImportBin, FillBin, StartDeks, ImportDek, FillDek, ImportDone
        <5>2. /\ proc[p].pc \in SealPc /\ t.scope \in Name
              /\ proc[p].dir = d /\ proc[p].obj = t.obj
              /\ <<t.scope, proc[p].scope>> \in granted[d]
              /\ t.answer # "ok"
          BY <1>0, <4>1, <5>1 DEF Remembering, RememberSound, SealPc, ToolState
        <5>3. /\ ~MissingDek(p)
              /\ \/ /\ proc'[p].pc \in SealPc
                    /\ proc'[p].dir = d /\ proc'[p].obj = t.obj
                    /\ proc'[p].scope = proc[p].scope
                 \/ Idle(p)' /\ SealedAfter(d, t.scope, t.obj)
          BY <5>1, <5>2, SealStep
        <5>4. tool'[p] = t
          BY <3>g, <5>3 DEF Run
        <5>5. granted[d] \subseteq granted'[d]
          BY <2>0, HomeTyped, ServerMoves, GhostsGrow DEF vars
        <5> QED BY <5>2, <5>3, <5>4, <5>5
                DEF RememberSound, SealPc, SealedIn, SealedAfter, Idle
      <4>2. CASE ~(tool[p].name = "amem_remember" /\ tool[p].stage = "acting")
        <5>1. tool' = tool \/ Answer(p, "error")
          BY <3>g DEF Run
        <5>2. RememberSound(p)
          BY DEF Remembering
        <5>3. CASE tool' = tool
          BY <1>k, <2>0, <4>2, <5>2, <5>3 DEF RememberSound, SameCall
        <5>4. CASE Answer(p, "error")
          <6>1. /\ SameCall(p) /\ tool'[p].stage = "idle"
                /\ tool'[p].answer = "error"
            BY <5>4, ToolAt
          <6> QED BY <1>k, <2>0, <6>1
        <5> QED BY <5>1, <5>3, <5>4
      <4> QED BY <4>1, <4>2
    <3>h. CASE Die(p)
      BY <1>0, <3>h DEF Die, NoTool, RememberSound
    <3> QED
      BY <1>2, <3>a, <3>b, <3>c, <3>d, <3>e, <3>f, <3>g, <3>h DEF ServerStep
  <2> QED
    BY <2>2, <2>3 DEF Remembering
<1> QED
  BY <1>1, <1>2 DEF ServerNext

-----------------------------------------------------------------------------
(* Whether servers disturb each other.                                     *)

HomesApart == \A p, q \in Process : Home[p] = Home[q] => p = q

\* A server works in its own vault only.
LEMMA AtHomeNext ==
  Typed /\ ToolsTyped /\ AtHome /\ [ServerNext]_allvars => AtHome'
<1> SUFFICES ASSUME Typed, ToolsTyped, AtHome, [ServerNext]_allvars
             PROVE  AtHome'
  OBVIOUS
<1>0. proc \in [Process -> ProcState]
  BY DEF Typed, TypeOK
<1>1. CASE UNCHANGED vars
  BY <1>1 DEF vars, AtHome, Idle
<1>2. ASSUME NEW p \in Process, Move(p),
             Idle(p)' \/ proc'[p].dir = Home[p]
      PROVE  AtHome'
  BY <1>2, MoveEffects DEF AtHome, Idle
<1>3. ASSUME NEW p \in Process, Step(p)
      PROVE  AtHome'
  BY <1>2, <1>3, StepInDir DEF AtHome, Idle, Move
<1>4. ASSUME NEW p \in Process, Crash(p)
      PROVE  AtHome'
  BY <1>0, <1>2, <1>4 DEF Crash, Become, Off, Idle, Move
\* The command a tool calls.
<1>5. ASSUME NEW p \in Process,
             \/ \E i \in Identity : init(p, Home[p], i)
             \/ \E n \in Name, k \in ScopeKey : add_scope(p, Home[p], n, k)
             \/ \E n \in Name, o \in ObjId : seal_object(p, Home[p], n, o)
             \/ export(p, Home[p])
             \/ import_file_into(p, Home[p])
      PROVE  AtHome'
  <2>1. Move(p)
    BY <1>5, HomeTyped DEF Move, Command
  <2>2. proc'[p].dir = Home[p]
    BY <1>0, <1>5 DEF init, add_scope, seal_object, export, import_file_into,
                      Become, Off
  <2> QED BY <1>2, <2>1, <2>2
<1>6. ASSUME NEW p \in Process,
             \/ \E name \in Tool, n \in Name : CallTool(p, name, n)
             \/ ServerStep(p) \/ Die(p)
      PROVE  AtHome'
  <2>0. Default \in Name /\ tool[p].scope \in Name
    BY ServerAssumption DEF ToolsTyped, ToolState
  <2>1. CASE EnsureVault(p) \/ EnsureDefault(p) \/ EnsureScope(p)
    BY <1>1, <1>5, <2>0, <2>1 DEF EnsureVault, EnsureDefault, EnsureScope
  <2>2. CASE amem_remember(p) \/ amem_export(p) \/ amem_import(p)
    BY <1>1, <1>5, <2>0, <2>2 DEF amem_remember, amem_export, amem_import
  <2>3. CASE amem_recall(p) \/ Return(p) \/ Raise(p)
             \/ \E name \in Tool, n \in Name : CallTool(p, name, n)
    BY <1>1, <2>3 DEF amem_recall, Return, Raise, CallTool
  <2>4. CASE Run(p) \/ Die(p)
    BY <1>3, <1>4, <2>4 DEF Run, Die
  <2> QED
    BY <1>6, <2>1, <2>2, <2>3, <2>4 DEF ServerStep
<1> QED
  BY <1>1, <1>6 DEF ServerNext, allvars

LEMMA HomesApartWritersApart ==
  ASSUME HomesApart
  PROVE  AtHome => WritersApart
BY DEF HomesApart, AtHome, WritersApart, Idle

\* Everything the theorems below need, of one state.
ServerInv ==
  Typed /\ ToolsTyped /\ MetaKept /\ MetaOwn /\ ObjectsKept /\ Remembering

LEMMA ServerInvInit == ServerInit => ServerInv /\ AtHome
BY TypedInit, ToolsTypedInit, MetaKeptInit, ObjectsInit, RememberInit
DEF ServerInit, ServerInv, AtHome, Init, Idle, Off

LEMMA ServerInvNext ==
  ServerInv /\ WritersApart /\ [ServerNext]_allvars => ServerInv'
BY ServerIsFiles, TypedNext, ToolsTypedNext, MetaKeptNext, MetaOwnNext,
   ObjectsKeptNext, RememberNext DEF ServerInv

LEMMA ServerInvRemembers ==
  ServerInv => RememberedInScope /\ AckedIsReadable /\ ScopesNeverOverwritten
<1> SUFFICES ASSUME ServerInv
             PROVE  RememberedInScope
  BY KeptIsReadable DEF ServerInv, MetaKept
<1> SUFFICES ASSUME NEW p \in Process, tool[p].name = "amem_remember",
                    tool[p].answer = "ok", meta[Home[p]] \in Meta
             PROVE  /\ Readable(Home[p], tool[p].obj)
                    /\ bin[Home[p]][tool[p].obj]
                         = meta[Home[p]].scopes[tool[p].scope]
  BY DEF RememberedInScope
<1> DEFINE d == Home[p]
           o == tool[p].obj
           n == tool[p].scope
<1>1. d \in Dir /\ o \in acked[d] /\ <<n, bin[d][o]>> \in granted[d] /\ n \in Name
  BY HomeTyped
  DEF ServerInv, ToolsTyped, ToolState, Remembering, RememberSound, SealedIn
<1>2. Readable(d, o)
  BY <1>1, KeptIsReadable DEF ServerInv, AckedIsReadable
<1>3. <<n, bin[d][o]>> \in Granted(meta[d])
  BY <1>1 DEF ServerInv, MetaKept, ScopesNeverOverwritten
<1>4. bin[d][o] = meta[d].scopes[n]
  BY <1>1, <1>3, FilesAssumption DEF Granted
<1> QED
  BY <1>2, <1>4

\* A memory that amem_remember has confirmed is readable, in the scope that
\* was asked for, through every later call, crash and restart, as long as no
\* two servers change the same vault.cbor at a time.
THEOREM RememberedInTurn ==
  ServerSpec /\ []WritersApart => []RememberedInScope
BY ServerInvInit, ServerInvNext, ServerInvRemembers, PTL DEF ServerSpec

\* Servers that keep a vault each need nothing more: whatever the others do,
\* and although the .amem file is the same for all.
THEOREM RememberedWithAVaultEach ==
  ASSUME HomesApart
  PROVE  ServerSpec => [](RememberedInScope /\ AckedIsReadable
                          /\ ScopesNeverOverwritten)
<1>1. ServerInv /\ AtHome /\ [ServerNext]_allvars => ServerInv' /\ AtHome'
  BY ServerInvNext, AtHomeNext, HomesApartWritersApart DEF ServerInv
<1> QED
  BY <1>1, ServerInvInit, ServerInvRemembers, PTL DEF ServerSpec
=============================================================================
