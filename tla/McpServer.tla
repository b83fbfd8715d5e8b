----------------------------- MODULE McpServer ------------------------------
(***************************************************************************)
(* The MCP server over the vault files (src/src/amem/mcp_server.py).       *)
(* A server is a process of VaultFiles with a vault of its own or shared.  *)
(* Its tools run one after the other; a tool is a chain of commands of     *)
(* VaultFiles: _vault() creates the vault and the scope "default" when     *)
(* they are missing, amem_remember the scope it was asked for, and then    *)
(* the tool seals, exports or imports.                                     *)
(***************************************************************************)
EXTENDS VaultFiles, Integers

CONSTANTS
  Home,       \* AMEM_VAULT of each server
  Default     \* the scope name "default"

ASSUME ServerAssumption ==
  Admin = Process /\ Home \in [Process -> Dir] /\ Default \in Name

VARIABLE tool \* the tool call each server is at

Tool == {"amem_remember", "amem_recall", "amem_export", "amem_import"}

\* fresh: the server had no vault when the tool was called, and the .amem file
\* is one a new device can import.
ToolState ==
  [name : Tool \cup {"none"}, stage : {"idle", "vault", "default", "scope",
                                       "act", "acting"},
   scope : Name, obj : ObjId \cup {None}, fresh : BOOLEAN,
   answer : {"none", "ok", "rejected", "error"}]

NoTool == [name |-> "none", stage |-> "idle", scope |-> Default,
           obj |-> None, fresh |-> FALSE, answer |-> "none"]

allvars == <<vars, tool>>

ServerInit == Init /\ tool = [p \in Process |-> NoTool]

At(p, stage) == tool[p].stage = stage /\ Idle(p)
Goto(p, stage) == tool' = [tool EXCEPT ![p].stage = stage]
Answer(p, a) == tool' = [tool EXCEPT ![p].stage = "idle", ![p].answer = a]
Vaultless(p) == meta[Home[p]] = NoFile
HasScope(p, n) == meta[Home[p]] \in Meta /\ meta[Home[p]].scopes[n] # None
LacksScope(p, n) == meta[Home[p]] \in Meta /\ meta[Home[p]].scopes[n] = None
Unreadable(p) == meta[Home[p]] = Torn

\* The bound on memories, scopes and vaults: the random values the call may
\* draw are still to be drawn.
Affordable(p, name, n) ==
  LET asked == IF name = "amem_remember" THEN {Default, n} ELSE {Default}
  IN  /\ name = "amem_remember" => ObjId \ drawn # {}
      /\ Vaultless(p) => Identity \ drawn # {}
      /\ Cardinality({x \in asked : ~HasScope(p, x)})
           <= Cardinality(ScopeKey \ drawn)

CallTool(p, name, n) ==
  /\ At(p, "idle") /\ Affordable(p, name, n)
  /\ tool' = [tool EXCEPT ![p] =
       [name |-> name, stage |-> "vault", scope |-> n, obj |-> None,
        answer |-> "none",
        fresh |-> /\ Vaultless(p)
                  /\ amem \in Box /\ Valid(amem, amem.meta)]]
  /\ UNCHANGED vars

-----------------------------------------------------------------------------
(* _vault().                                                               *)

EnsureVault(p) ==
  /\ At(p, "vault")
  /\ \/ Vaultless(p) /\ \E i \in Identity : init(p, Home[p], i)
     \/ ~Vaultless(p) /\ UNCHANGED vars
  /\ Goto(p, "default")

EnsureDefault(p) ==
  /\ At(p, "default")
  /\ \/ LacksScope(p, Default)
        /\ \E k \in ScopeKey : add_scope(p, Home[p], Default, k)
     \/ HasScope(p, Default) /\ UNCHANGED vars
  /\ Goto(p, IF tool[p].name = "amem_remember" THEN "scope" ELSE "act")

-----------------------------------------------------------------------------
(* The tools.                                                              *)

EnsureScope(p) ==
  /\ At(p, "scope")
  /\ \/ LacksScope(p, tool[p].scope)
        /\ \E k \in ScopeKey : add_scope(p, Home[p], tool[p].scope, k)
     \/ HasScope(p, tool[p].scope) /\ UNCHANGED vars
  /\ Goto(p, "act")

\* Faulty: the memory goes to "default" whatever was asked.
SealInDefault(p) ==
  /\ At(p, "act") /\ tool[p].name = "amem_remember"
  /\ \E o \in ObjId :
       /\ seal_object(p, Home[p], Default, o)
       /\ tool' = [tool EXCEPT ![p].stage = "acting", ![p].obj = o]
amem_remember(p) ==
  /\ At(p, "act") /\ tool[p].name = "amem_remember"
  /\ \E o \in ObjId :
       /\ seal_object(p, Home[p], tool[p].scope, o)
       /\ tool' = [tool EXCEPT ![p].stage = "acting", ![p].obj = o]

amem_export(p) ==
  /\ At(p, "act") /\ tool[p].name = "amem_export"
  /\ export(p, Home[p])
  /\ Goto(p, "acting")

\* A ValueError of import_file_into is the answer "import rejected".  An empty
\* object in the file is an EOFError, which the tool lets through.
SameIdentity(d) == amem \in Box /\ amem.meta.ident = meta[d].ident
ImportRejected(d) ==
  SameIdentity(d) =>
     \E o \in Whole(amem.objs) :
       amem.objs[o] # Torn /\ ~Storable(amem.objs[o], ImportedMeta(d))
ImportRaises(d) == SameIdentity(d) /\ \E o \in ObjId : amem.objs[o] = Torn
amem_import(p) ==
  /\ At(p, "act") /\ tool[p].name = "amem_import"
  /\ \/ import_file_into(p, Home[p]) /\ Goto(p, "acting")
     \/ /\ ~Unreadable(p) /\ ImportRejected(Home[p])
        /\ UNCHANGED vars /\ Answer(p, "rejected")

\* Faulty: no answer on the path without a match.
RecallWithoutAnswer(p) ==
  /\ At(p, "act") /\ tool[p].name = "amem_recall"
  /\ ~Unreadable(p)
  /\ UNCHANGED vars /\ Answer(p, None)
\* open_all changes nothing; amem_status is alike.
amem_recall(p) ==
  /\ At(p, "act") /\ tool[p].name = "amem_recall"
  /\ ~Unreadable(p)
  /\ UNCHANGED vars /\ Answer(p, "ok")

Return(p) ==
  /\ At(p, "acting") /\ UNCHANGED vars /\ Answer(p, "ok")

\* vault.cbor does not decode, left or found in the middle of a write; another
\* server has overwritten the scope of the memory, or payload_map refuses the
\* memory, for which the scope was created already; or an object of the file
\* does not decode.
Raise(p) ==
  /\ Idle(p)
  /\ \/ tool[p].stage \in {"default", "scope", "act"} /\ Unreadable(p)
     \/ /\ tool[p].stage = "act" /\ tool[p].name = "amem_remember"
        /\ ~Unreadable(p)
     \/ /\ tool[p].stage = "act" /\ tool[p].name = "amem_import"
        /\ ~Unreadable(p) /\ ImportRaises(Home[p])
  /\ UNCHANGED vars /\ Answer(p, "error")

\* The command goes on; an export that meets a missing .dek raises.
Run(p) ==
  /\ Step(p)
  /\ IF MissingDek(p) THEN Answer(p, "error") ELSE UNCHANGED tool

\* The server is killed; its client starts another.
Die(p) == Crash(p) /\ tool' = [tool EXCEPT ![p] = NoTool]

-----------------------------------------------------------------------------
ServerStep(p) ==
  \/ EnsureVault(p) \/ EnsureDefault(p) \/ EnsureScope(p)
  \/ amem_remember(p) \/ amem_export(p) \/ amem_import(p) \/ amem_recall(p)
  \/ Return(p) \/ Raise(p) \/ Run(p)

ServerNext ==
  \E p \in Process :
    \/ \E name \in Tool, n \in Name : CallTool(p, name, n)
    \/ ServerStep(p)
    \/ Die(p)

ServerSpec == ServerInit /\ [][ServerNext]_allvars

\* A tool that was called runs to its end: the server has nothing to wait for.
FairServerSpec == ServerSpec /\ \A p \in Process : WF_allvars(ServerStep(p))

-----------------------------------------------------------------------------
(* Properties.                                                             *)

ServerTypeOK == TypeOK /\ tool \in [Process -> ToolState]

\* A memory the tool confirmed is in the vault, readable, in the scope it was
\* asked for, on a fresh machine too, where the tool first made the vault and
\* the scope.
RememberedInScope ==
  \A p \in Process :
    (/\ tool[p].name = "amem_remember" /\ tool[p].answer = "ok"
     /\ meta[Home[p]] \in Meta)
      => /\ Readable(Home[p], tool[p].obj)
         /\ bin[Home[p]][tool[p].obj] = meta[Home[p]].scopes[tool[p].scope]

\* Every tool call is answered, unless the server dies.
ToolsAnswer ==
  \A p \in Process : tool[p].stage = "vault" ~> tool[p].stage = "idle"

\* README.md:125, the "New device" demo: an amem_import called on a machine
\* without a vault, of a file a new device can import, is not rejected.
NewDeviceImports ==
  \A p \in Process :
    tool[p].name = "amem_import" /\ tool[p].fresh
      => tool[p].answer # "rejected"

-----------------------------------------------------------------------------
(* The inductive invariants behind RememberedInScope.                      *)

\* A server works in its own vault only.
AtHome == \A p \in Process : ~Idle(p) => proc[p].dir = Home[p]

\* seal_object has returned, and the object's files name the entry that
\* vault.cbor holds or held for the scope n.
SealedIn(d, n, o) == o \in acked[d] /\ <<n, bin[d][o]>> \in granted[d]

\* Between the call of seal_object and the answer of amem_remember.
RememberSound(p) ==
  LET t == tool[p]
      s == proc[p]
      d == Home[p]
  IN  t.name = "amem_remember" =>
        /\ t.stage # "idle" => t.answer # "ok"
        /\ t.stage = "acting" =>
             \/ /\ s.pc \in {"bin0", "bin1", "dek0", "dek1"}
                /\ s.dir = d /\ s.obj = t.obj
                /\ <<t.scope, s.scope>> \in granted[d]
             \/ Idle(p) /\ SealedIn(d, t.scope, t.obj)
        /\ t.answer = "ok" => SealedIn(d, t.scope, t.obj)
Remembering == \A p \in Process : RememberSound(p)
=============================================================================
