# ApertoMemory in TLA+

A model of the reference implementation under `src/src/amem/`: who a vault says
wrote a memory, what happens to the vault's files when commands run at the same
time, die, export and import, what a reader, the MCP server and a projection make of
it. TLC checks the models on small instances; TLAPS proves what matters most of them
for all instances.

- [The system](#the-system)
- [The modules](#the-modules)
- [The runs](#the-runs)
- [What the runs found](#what-the-runs-found)
- [The proofs](#the-proofs)
- [Assumptions, bounds and abstractions](#assumptions-bounds-and-abstractions)
- [What is not modelled](#what-is-not-modelled)
- [Plan](#plan)

## The system

A *vault* is a directory: `vault.cbor` (salt, public keys, scope entries,
`known_keys`) and, for each memory, `objects/<id>.bin` (the sealed object) and
`objects/<id>.dek` (its key, wrapped under the key of its scope). A passphrase and
the salt give the identity; the identity unwraps the scope keys.

| Component | Code | State | Operations | Interacts with |
|---|---|---|---|---|
| Sealed object | `objects.py` | none | `seal`, `open_sealed`, `_provenance`, `verify_legacy_author` | called by the vault |
| Vault: trust and migration | `vault.py` | `.bin`, `.bin.tmp`, `.dek`, `known_keys` | `seal_object`, `open_object`, `trust_key`, `migrate` | files shared by every process |
| Vault: files | `vault.py` | `vault.cbor`, `.bin`, `.dek` | `init`, `add_scope`, `seal_object`, `export` | no lock between processes |
| Import and container | `vault.py` | the `.amem` file | `export`, `import_file_into`, `import_file` | the file travels between devices |
| MCP server | `mcp_server.py` | none of its own | `amem_remember`, `amem_recall`, `amem_export`, `amem_import`, `amem_status` | chains of vault calls |
| Command line | `cli.py` | none | one vault call per subcommand | another process on the same files |
| Key hierarchy | `keys.py` | none | key derivation and wrapping | used by vault and objects |
| Projection producer | `interop/emilia/projection_producer.py` | none | trust snapshot, fragments, records, signature | an adapter, not in the repository, gives it opened objects |
| Test vector generators | `test-vectors/` | none | write the normative vectors | call `seal` and `open_sealed`, or the primitives |

What is hard, per component, and what makes it correct:

- **Sealed object.** Three sources speak of an author: the signature, the author id in
  the payload, the custody record. Two envelope formats, and a cleartext envelope that
  can change after sealing. Correct: `self` and `trusted` are only reported of what
  that author signed, at the place it is read from, at the time it is read.
- **Migration.** Re-signing changes the signer. It reads the keyring once, an object
  twice, writes through a tmp file of a fixed name, may die, may run twice at once.
  It writes the payload anew from what a reader is given. Correct: trust moves only
  where authorship is proven; the words stay, and so does every field the program
  itself writes; nothing whole becomes incomplete; one bad object does not stop the
  rest; the report is true.
- **Files.** `vault.cbor` is read, changed and written in place by every command; an
  object is two files. Correct: what was confirmed stays readable; entries are added
  and never lost.
- **Import.** Checks first, then three groups of writes that may stop anywhere, run
  again over what is there. Correct: file plus passphrase restore the memory.
- **Readers.** `open_object` makes four reads that are not one: the `.bin`, the `.bin`
  again for its scope, the `.dek`, `known_keys`, of which the last three may be in the
  middle of being written. Correct: what was given is true however a migration or a
  change of the keyring falls between them, an object that raises or is half written
  takes no other away, and what a projection commits to explains its labels.
- **Key hierarchy.** Correct: a wrapped key opens for the identity and the scope it
  was wrapped for and for no other.
- **MCP server.** Each tool makes the vault and the scopes it finds missing. Correct:
  what was confirmed is in the scope it was asked for; every call is answered.

`PROJECT.json` lists every hazard at its line.

## The modules

| Module | Models | State | Actions |
|---|---|---|---|
| `SealedObject` | `objects.py`, and the decision of `migrate` for one object | none: operators | |
| `VaultTrust` | one directory of objects, the keyring, any number of migrations, of `seal_object` and of `trust_key` | `bin`, `tmp`, `dek`, `known`, `torn`, `adm`, `sealing`, `mig`; ghosts `authored`, `signedAt` | `seal_object`, `SealBin`, `SealDek`, `SealDies`, `Arrives`, `Misfile`, `trust_key`, `TruncateMeta`, `FillMeta`, `AdminDies`, `Revoke`, `StartMigrate`, `Load`, `Reject`, `OpenTmp`, `FillTmp`, `Replace`, `Finish`, `Crash` |
| `Attribution` | the abstract specification `VaultTrust` implements: memories on a shelf, each credited to who said it or to nobody | `shelf`, `said` | `Put`, `Reattribute` |
| `Recall` | readers beside `VaultTrust`: `open_all`, `open_object`, `amem_recall`, a projection adapter | `rd` | `open_all`, `Capture`, `ReadObject`, `Unavailable`, `OpenHeld`, `Opened_all`, `amem_recall`, `Return` |
| `Projection` | `projection_producer.py`, over what a reader of `Recall` holds | none: operators | |
| `KeyHierarchy` | `keys.py`, `unlock`, vector 002 | none: operators | |
| `VaultKeys` | `VaultTrust` and `KeyHierarchy` together: the `.dek` files under the keys that wrap them, `_dek_for`, `scope_kek` | that of `VaultTrust` | |
| `TestVectors` | the vectors of `test-vectors/v2/generate.py` and the object of vector 001, against `SealedObject` | none: operators | |
| `VaultTrustProofs`, `MigrationProofs` | theorems about `VaultTrust` | | |
| `RecallProofs` | theorems about `Recall`, `Projection` and `TestVectors` | | |
| `VaultFilesProofs`, `ContainerProofs` | theorems about `VaultFiles`; the second about what export and import promise | | |
| `KeyHierarchyProofs`, `VaultKeysProofs`, `McpServerProofs` | theorems about the modules they are named for | | |
| `VaultFiles` | the file operations of concurrent commands on several directories, the `.amem` file | `meta`, `bin`, `dek`, `amem`, `proc`, `drawn`; ghosts `acked`, `granted`, `restored` | one per command, one per file operation, `Crash` |
| `McpServer` | the tools, extending `VaultFiles` | `tool` | one per stage of a tool, `Die` |
| `MCVaultTrust`, `MCVaultKeys`, `MCRecall`, `MCVaultFiles`, `MCMcpServer` | instances for TLC | | |

`VaultTrust` EXTENDS `SealedObject` and INSTANCEs `Attribution`; `Recall` EXTENDS
`VaultTrust`, so that readers run beside every action of it, and `Projection` EXTENDS
`Recall`; `VaultKeys` EXTENDS `VaultTrust` and `KeyHierarchy`; `TestVectors` EXTENDS
`VaultTrust`, for the keys a vault accepts; `McpServer` EXTENDS `VaultFiles` and runs
its commands unchanged. `VaultTrust` and `VaultFiles` are two views of `vault.py`, both
with every write in two steps, the truncation and the contents: the first has the
contents of objects and of `vault.cbor` the keyring alone, the second all of
`vault.cbor`, the `.amem` file, and objects reduced to the scope and signer they name.

Correspondence worth knowing when reading:

- An object in `SealedObject` is one flat record: the cleartext envelope (`id`,
  `scope`, `ver`), the AAD its ciphertext was made over (`aead`), and what the
  ciphertext holds. `Opens` collects every way `open_sealed` can raise; `Honoured`,
  `TrustOf`, `AuthorshipOf` and `AuthorKidOf` are what it reports.
- `memory` in it is what the words are (`body`) and, of each other field of the payload,
  which of the cases it is in that `migrate` tells apart: as its producer wrote it,
  absent, invalid, or written by the migration. `Rebuilt` is the memory `migrate`
  writes from what `open_sealed` returned, `Fresh` the one `payload_map` writes.
- `torn` says that `vault.cbor` is truncated. Whoever reads it then raises: a `migrate`,
  a recall or a `seal_object` does not start, and one under way fails for the object it
  has come to (`unavailable` in a report, `why = "vault"` of an exclusion), and goes on.
- `sealing[f]` is the `seal_object` whose `.bin` (then `.dek`) is open for writing.
- A migrator's `fd` says where the inode it opened is by now. `write_bytes` to the tmp
  file and `os.replace` of it are separate steps, so a second migrator can rename the
  file the first has open.
- `proc[p].pc` in `VaultFiles` names the next file operation. `Path.write_bytes` is
  `Torn` first, then the contents.
- `Shelf` in `VaultTrust` is the refinement mapping: it reads the author of a file off
  the signature, or off the custody record the owner signed. Trust is not part of it:
  it depends on who reads, authorship does not.
- A reader's `held` is the `.bin` of its first read. `OpenHeld` does the rest with the
  scope, the DEK and the keyring (`ring`: captured, or looked up live) found by then.
- `Records` in `Projection` is every record an adapter can make of what it holds:
  any of the entries in any order, the others counted under some reason.
- A tool of `McpServer` goes through the stages `vault`, `default`, `scope`, `act`,
  `acting`; the last waits for the `VaultFiles` command it started.

Operators under a comment that begins with "Faulty" are wrong on purpose: each
takes the place of the definition below it to show that a property notices.

## The runs

Runs that must pass:

| Run | Instance | Properties | Shows |
|---|---|---|---|
| `trust_forms` | one file, one migrator, one `trust_key` at a time, three keys of which two share a key id, two scopes, two memories; every form of object: both formats and a later one, any signer, claimed author, header, custody record, AAD; payloads nothing but the words of which outlives a migration; any envelope over it; anyone dying anywhere | `TypeOK`, `SelfIsOwn`, `TrustedIsAttributable`, `PlacementIsSigned`, `ProvenanceSound`, `DekOpensOnlyInItsScope`, `MigrationTransfersTrust` | what a reader is told about the author is true, also after migration, revocation and misfiling; a migration keeps the words, every field the program wrote, and the owner's trust exactly; a `.dek` opens with its own scope's entry and identity alone |
| `trust_migrate` | two files, one migrator, with and without quarantine, beside a `seal_object` and a `trust_key`, all dying anywhere; fair | `ReportMatchesStore`, `PublishedIsWhole`, `SealedIsFinal`, `MigrationEnds`, `OwnLegacyUpgraded`, `ImplementsAttribution` | the report is what the files hold, a bad object does not keep a good one from being upgraded (only a `vault.cbor` truncated at that moment does, and the report says so), and the vault refines `Attribution` |
| `readers` | two files, one of the owner's and one that gets in the way: of an accepted author, with text that is no text, or a `seal_object` half done; one migrator; one reader that is a recall or an adapter; keys accepted and revoked, and `vault.cbor` truncated, meanwhile | `EntriesAttributable`, `LabelsConsistent`, `OwnIsRecalled`, `SnapshotExplainsLabels`, `EveryCandidateOnce`, `VectorsAgree` | what a reader was given is true, of the owner's whole objects none is taken away but by a `vault.cbor` that cannot be read, every record explains its labels; the published test vectors have their outcomes |
| `files_admin` | two processes, one of which may change `vault.cbor`, dying anywhere but while it is truncated | `TypeOK`, `AckedIsReadable`, `ScopesNeverOverwritten` | sealing, exporting and importing beside one writer of `vault.cbor` loses nothing |
| `files_devices` | two devices, one command at a time, dying anywhere but while a file of `vault.cbor` or of an import is truncated | `ContainerReconstructs`, `ImportRestores`, `ScopesNeverOverwritten` | an export is complete, an import that returned restored it |
| `mcp_tools` | one server, dying anywhere; fair | `ServerTypeOK`, `RememberedInScope`, `AckedIsReadable`, `ToolsAnswer` | tools answer, and confirmed memories are where they should be |

Every property of a passing run has a mutant in `PROJECT.json`: a definition of the
code replaced by one of its faulty forms, under which TLC finds the property violated.

Why the bounds are enough to see the interesting cases. Trust of one file depends on
no other file, so one file with every form of object is the hard case, and the proofs
cover the rest; two files are needed for isolation and for the report, two migrators
for the shared tmp file (`trust_torn`; that two migrations at once move no trust is
proved, for any number, and checked by no run). `readers` needs two files, one to be
taken away and one to do it, and one reader: readers do not see each other.

What the constraints of these runs leave out. In all three, the owner's key filed a
second time as a third party's, which changes no label (`OwnerEntryIsRedundant`), and an
arriving DEK that no scope key unwraps: in `trust_forms` it may be that of the other
scope, with the same effect. In `trust_forms` and `trust_migrate` the owner authors one
of the two memories, everyone else either. `readers` begins reading and migrating once
the owner's object is there, seals into the other file, does not accept a key already
accepted, lets its migrations prove that other author, and ends when a `trust_key` died
over an open `vault.cbor`, after which nothing is read any more (the other two runs go
on). Its view drops what no reader sees: the report of the last migration, a tmp file
nobody is writing, the answer of an earlier recall. `trust_forms` treats the two keys
with one id as interchangeable, as every set in it does.

What `KeyHierarchy` states has no state in it and is proved, not run. TLC takes the parts of
`VectorsAgree` no vault has a say in for constants, and evaluates them once, because
no parameter in `SealedObject` is named like a variable of `VaultTrust`.
Three keys and two ids give two authors with one id. Two
scopes and two scope names allow a memory under the wrong one. Two devices and two
objects let an import find some objects there and others not.

Fairness. `FairSpec` asks that a migration under way takes its next step,
`FairServerSpec` that a tool under way does: both are straight-line Python with file
operations and nothing to wait for, in a process of its own. Nothing is assumed of
when a migration or a tool starts, of crashes, or of other actors.

The runs do not check deadlock: ids and keys are drawn from bounded pools, and once
they are used up, and no process is started, the system rests.

## What the runs found

Each is a run expected to end in a violation, and an entry of `findings`.

- `mcp_newdevice`, `NewDeviceImports`. `amem_import` on a machine without a vault
  calls `_vault()`, which makes a vault with a new salt and so a new identity;
  `import_file_into` then refuses the file as another identity's. README.md:125
  describes exactly this as the "New device" demo.
- `files_overwrite`, `ScopesNeverOverwritten`. `add_scope`, `trust_key` and
  `import_file_into` write back the `vault.cbor` they read earlier. Two at once, and
  the scope entry of one is gone, with the only wrapped copy of its key.
- `files_retry`, `ImportRestores`. An import that dies between truncating and writing
  a `.bin` leaves it empty; the next import skips it as present and returns.
- `files_diverged`, `ImportRejectsIndividually`. Two devices of one identity that each
  add a scope of the same name get two scope ids; the first object in one of them
  makes the other device refuse the whole file from then on. The repository disagrees
  with itself: draft-02 section 8.2 says that failures are isolated per object,
  tests/test_security_review_v2.py:231-253 asserts that this import is refused whole,
  so that nothing is written.
- `trust_torn`, `PublishedIsWhole`. With two migrations of one file, one opens
  (truncates) the tmp file the other is about to rename: the `.bin` becomes empty
  until the first fills it, or for good if it dies.
- `recall_isolated`, `RecallIsolated`. `open_sealed` gives content and tags as they
  are; `amem_recall` joins them outside the `try` of `open_all`, so one authenticated
  object with a content or a tag that is not a string ends the recall of all.

Limits that follow from the models, and that no run states:

- beside a command that adds a scope and seals into it, an export may hold an object
  whose scope its copy of `vault.cbor` lacks; a fresh import refuses such a file, so
  `files_devices` checks `ContainerReconstructs` with one command at a time;
- two MCP servers started at once on a directory without a vault make two
  identities, and what the first sealed is not readable under the second;
- merging an import copies scope entries and not `known_keys`, where draft-02:957-959
  says that the set travels in the container and "is what makes an attested object
  resolve to trust "trusted" after import";
- an object read with `allow_unverified` and without custody record reports
  authorship "signed" although nobody's signature was verified;
- after a death between `.bin` and `.dek` every export raises (`ExportDek`);
- a custody field that is not a map of byte strings raises out of `open_sealed`
  (`custody.get` and `.hex()`), where draft-02 section 7 says "A malformed or empty
  Custody Record degrades trust". `open_all` isolates it: the object is excluded and
  named, the others are given. `Opens` has the case, and `OwnIsRecalled` runs over it;
- `OwnIsRecalled` speaks of objects whole on disk when the recall began: between the
  `.bin` and the `.dek` of a `seal_object` the object is excluded. It holds while
  envelopes are not disturbed and one migration runs at a time: two of them can leave a
  `.bin` empty (`trust_torn`);
- while `vault.cbor` is truncated (`_write_meta` writes in place) a recall or a
  migration fails for every object it comes to, the owner's included, and after a death
  at that point for good. In `VaultTrust` only `trust_key` truncates it; `add_scope` and
  an import do it in the same two writes, and what they add to `vault.cbor` is in
  `VaultFiles`;
- `migrate` rebuilds the payload from what `open_sealed` returned. A session identifier
  (4.3 of the schema) and a time of update (7.2) are lost, a creation time absent or zero
  becomes the time of the migration, an invalid confidence 0.8, a tag that is no string
  its `str`, a missing tool `amem`. None of it is written by `payload_map`, so the
  program's own memories keep every field (`MigrationTransfersTrust`); what another
  producer wrote may not. objects.py:249 keeps the payload "verbatim, for lossless
  re-encoding", and `migrate` does not use it. Only unknown fields of the payload itself
  are promised to be kept (objects.py:87), and are;
- `PlacementIsSigned` relates an object to the envelope it is read from. The name of the
  file is related to neither by the code: a plain copy or rename is not noticed;
- `open_all` reads `known_keys` once per object, so one recall may mix keyrings; only
  an adapter that captures one has labels a single snapshot explains. The scope
  reported with an object comes from the second read of its `.bin`;
- a trust snapshot commits to key ids of 8 bytes: of two keys with one id it does not
  say which was accepted, and a verifier who has the other one finds other labels.
  `SnapshotExplainsLabels` holds for keys with ids of their own (`KeyIdsApart`);
- `assemble_record` copies four exclusion reasons by name and drops any other, from
  the total as well.

## The proofs

Each theorem holds for every value of the constants under the assumptions its modules
name. What the last column adds are hypotheses of the single theorem: most restrict who
is there or who may die where, as a constant; those with a box are of the behaviour, and
hold of every state of it.

- *One migrator*, *one admin*: at most one process migrates, or may change `vault.cbor`.
- *No misfiling* (`NobodyMisfiles`): no envelope is edited in place. Nothing in the code
  does; `ProvenanceSound` and what follows from it does without.
- `[]WritersApart`: no two commands are between their read and their write of the same
  `vault.cbor`. `[]OneCommandPerVault`: commands on one vault run one after the other.
- `HomesApart`: no two servers have the same vault directory.
- *No death in an import* (`ImportsFillTheirFiles`): no process dies between truncating
  and filling a file it imports.
- `KeyIdsApart`: no two keys have the same key id.

| Theorem | Module | States | Assumes |
|---|---|---|---|
| `TypeCorrect` | `VaultTrustProofs` | `Spec => []TypeOK` | |
| `ProvenanceIsSound` | `VaultTrustProofs` | `Spec => []ProvenanceSound` | |
| `SelfIsAlwaysOwn` | `VaultTrustProofs` | `Spec => []SelfIsOwn` | |
| `TrustedIsAlwaysAttributable` | `VaultTrustProofs` | `Spec => []TrustedIsAttributable` | |
| `PlacementIsAlwaysSigned` | `VaultTrustProofs` | `Spec => []PlacementIsSigned` | |
| `TransferIsSound` | `MigrationProofs` | `Spec => []TransferSound` | |
| `TrustIsTransferred` | `MigrationProofs` | `Spec => MigrationTransfersTrust` | |
| `MigratorWritesAlone` | `MigrationProofs` | `Spec => []SoleWriter` | one migrator |
| `PublishedStaysWhole` | `MigrationProofs` | `Spec => PublishedIsWhole` | one migrator |
| `SealedStaysSealed` | `MigrationProofs` | `Spec => SealedIsFinal` | one migrator |
| `VaultKeepsThePromise` | `MigrationProofs` | `Spec => ImplementsAttribution` | one migrator |
| `ReportIsTrue` | `MigrationProofs` | `Spec => []ReportMatchesStore` | one migrator, no misfiling |
| `ReadersStaySound` | `RecallProofs` | readers hold what is true | |
| `RecallIsAttributable` | `RecallProofs` | `RSpec => []EntriesAttributable` | |
| `LabelsAreConsistent` | `RecallProofs` | `RSpec => []LabelsConsistent` | |
| `OwnIsAlwaysRecalled` | `RecallProofs` | `RSpec => []OwnIsRecalled` | one migrator, no misfiling |
| `HeldIsSound` | `RecallProofs` | readers account for every file they listed | |
| `CandidatesAreCounted` | `RecallProofs` | `RSpec => []EveryCandidateOnce` | |
| `LabelsAreExplained` | `RecallProofs` | `RSpec => []SnapshotExplainsLabels` | `KeyIdsApart` |
| `VectorsAlwaysAgree` | `RecallProofs` | `RSpec => []VectorsAgree` | |
| `KeysOpenOnlyForTheirScope` | `KeyHierarchyProofs` | `KeysOpenForTheirScope` | |
| `VectorsOpen` | `KeyHierarchyProofs` | `VectorsOpenInAVault` | |
| `DeksOpenOnlyInTheirScope` | `VaultKeysProofs` | `Spec => []DekOpensOnlyInItsScope` | |
| `FilesTypeCorrect` | `VaultFilesProofs` | `Spec => [](TypeOK /\ HandsTyped)` | |
| `NothingOverwrittenInTurn` | `VaultFilesProofs` | `Spec => []ScopesNeverOverwritten` | `[]WritersApart` |
| `NothingOverwritten` | `VaultFilesProofs` | `Spec => []ScopesNeverOverwritten` | one admin |
| `AckedStaysReadableInTurn` | `VaultFilesProofs` | `Spec => []AckedIsReadable` | `[]WritersApart` |
| `AckedStaysReadable` | `VaultFilesProofs` | `Spec => []AckedIsReadable` | one admin |
| `ContainerIsComplete` | `ContainerProofs` | `Spec => []ContainerReconstructs` | `[]OneCommandPerVault`, no death in an import |
| `ImportIsComplete` | `ContainerProofs` | `Spec => []ImportRestores` | `[]OneCommandPerVault`, no death in an import |
| `ServerImplementsFiles` | `McpServerProofs` | `ServerSpec => Spec` of `VaultFiles` | |
| `ServerTypeCorrect` | `McpServerProofs` | `ServerSpec => []ServerTypeOK` | |
| `RememberedInTurn` | `McpServerProofs` | `ServerSpec => []RememberedInScope` | `[]WritersApart` |
| `RememberedWithAVaultEach` | `McpServerProofs` | `ServerSpec => []RememberedInScope`, and what `VaultFiles` keeps | `HomesApart` |

**Provenance.** None of the three statements about trust is inductive: a re-sealed
object is written from what a migrator loaded some steps before, through a tmp file
another migrator may have opened. `ProvenanceSound` says of every object, wherever it
is (`.bin`, `.bin.tmp`, `old` and `new` of a migrator), that

1. its signature was made by its signer over that AAD, and is the signer's own
   statement when the payload names the signer and, for the owner, there is no custody
   record (`SoundlySigned`);
2. a custody record signed by the owner names as proven only a key id under which the
   memory was authored, and its ciphertext is not one of format 1 (`SoundCustody`);

and of every keyring, that of `vault.cbor` and those a `trust_key` has yet to write, that
a key is filed under its own id.

The last half-sentence of 2 is what makes it inductive. `migrate` takes any object whose
envelope says version 1; if an object with a custody record could be decrypted as
format 1, its owner's signature would be found and the record dropped. It cannot,
because a format 2 ciphertext is bound to its envelope. `Migratable` needs `Decrypts`,
so a migrator only re-seals what truly is format 1.

The proof goes by `TypeOK` first (`SealType` and `ResealShape` type what is written),
then one lemma per fact about re-sealing (`ResealIsSound`), monotonicity in the ghosts
(`SoundFileMonotone`), and one step per action. The reader's statements follow from
the invariant without the specification.

**Transfer of trust.** `MigrationTransfersTrust` compares a file before and after
`os.replace`, and what is renamed was sealed from what some migrator loaded, perhaps
not the one that renames it. `TransferSound` says that as long as a `.bin` holds a
format 1 object, everyone at work on it loaded that object up to its envelope
(`SameCore`), and what any of them sealed or wrote to the tmp file `Carries` what that
object proves: the memory `Rebuilt` from it, no custody record exactly if the owner
signed it, a proven author only if one said it. What `Rebuilt` keeps is then a fact about
one memory (`RebuiltKeeps`): the words always, all of it if
`payload_map` wrote it. It does not depend on the keyring used, which is
why migrations with different ones may race. A completed file keeps no migrator's
objects of format 1, since `.bin` never returns to format 1. A `.bin` that a
`seal_object` has truncated is listed by a migration and read as a failure, so nobody is
at work on it when it is filled, which `TransferSound` says as well.

**One migrator.** That files stay whole and format 2 final is false for two
(`trust_torn`), so `SoleWriter` assumes one: the inode it has open is the tmp file,
the tmp file is what it wrote, and the `.bin` is still what it loaded.
`VaultKeepsThePromise` maps each step to at most one step of `Attribution`: the filling of a `.bin`
or an arrival to `Put`, the rename of a re-sealed object to `Reattribute` (or to a
stutter, if it is the owner's or its author remains), everything else to a stutter. A
seal puts its memory down when the `.bin` is filled. `Attribution` has of a memory its
words: the fields `migrate` rebuilds are not part of the promise.

**Reports.** A report names objects of the time they were loaded or renamed, and is read
later. `ReportsSound` says of each outcome what the `.bin` it names must still be
(`Bears`), and of a migrator in the middle what its report is going to say. A report may
outlive its migration but not the next one, which starts an empty one; until then no
file changes from what was reported, since `.bin` never returns to format 1, format 2 is
final, and what arrives has an id of its own. This is where the hypotheses are needed:
a second migrator may re-seal what the first refused, and an edited envelope changes
the version of either.

**Readers.** `ReadersSound` needs no assumption on what runs beside: an object once
read stays true, since `authored` and `signedAt` only grow, and the keyring, live or
captured, is filed by key id. The two statements about labels follow per entry.
`OwnIsRecalled` is about what is left out. `own` notes, when a recall lists the
directory, which of the files are the owner's, whole, and readable with no key but the
owner's. `OwnKept` says that these stay so until the recall ends, and that what a reader
has in hand of them opens without any key. Whatever a migration publishes between the
two reads is again the owner's and readable (`UpgradeOpens`), and is in the scope of what
it replaces (`ScopesKept`), so the `.dek` still fits; a `seal_object` half done has its
`.dek` before it ever counts as the owner's whole object, and touches no other
(`UntouchedStays`); an object the owner alone is needed for opens with any keyring
(`OpensWithoutKeys`), so no revocation takes it away. What remains is a truncated
`vault.cbor`. Two migrators may leave the file empty, and an edited envelope may change
its scope: hence the two hypotheses.

**Projections.** Of an adapter, `HeldSound` says three things: what it listed is finite,
without an assumption on `ObjectId`s, since files appear one at a time from none
(`FilesAreFinite`); each file listed is still to be read, held, given or excluded, and
one of these only, so that given and excluded add up to listed (`Counted`,
from which `EveryCandidateOnce` follows for any order and any choice of what to drop, by
`PartCount`); and labels come from the captured keyring (`LabelledWith`). If ids are apart, the
committed ids determine that keyring (`SnapshotDetermines`), whence
`SnapshotExplainsLabels`. With two keys of one id it is false.

**Vectors.** One lemma per fact: who is a candidate under the keyrings of the vectors
(`VectorRings`), that a sealed or hand-made format 2 object is bound to where it is read
(`VectorsPlaced`), `RewrittenIsRefused` for an id or a
scope changed after sealing, `LegacyResult` and `LegacyMigrates` for the format 1 object,
and `VectorOutcomes` for the rest. `VectorAssumption` says what is special about the
constants of `generate.py`: the other key has another id, the stranger's id is not the
owner's, and the rewritten envelope differs from the original.

**Keys.** Terms are equal iff derived alike, so the exchange agrees from both sides
and with nobody else, and the scope is part of the derivation. So a wrapped KEK comes
out only for its own scope and identity (`KeyOpens`), and a `.dek` only with that KEK:
`DekOpens`, by which `VaultTrust` decides, is what the derivations give in every state.

**Files.** `HandsTyped` says what a command holds at each control point. For
`NothingOverwritten`, `MetaKept` says that what `vault.cbor` held is in what the one
admin is about to write, also while the file is truncated. That one process is the admin
only matters because then `WritersApart` holds in every state; the theorems "in turn"
say the same of any number of processes that change `vault.cbor` one after the other,
which is what a lock around the read and the write would give, and `files_overwrite`
shows what happens without. `AckedStaysReadable` needs
two more invariants, which hold without the assumption: `MetaOwn` (scope entries are
wrapped for the identity beside them) and `ObjectsKept`. The latter says that an
object id belongs to the `seal_object` that drew it: until its `.dek` exists no export
has finished with it, so no `.amem` file and no import has it (`Unlisted`); from then
on an import finds both files and skips them (`Untouched`), so nothing but the seal
itself writes them, and after it returned nothing does. `MoveEffects` says once, for
all actions, what a step of one command can do to one object.

**Containers.** `ContainersSound` extends `ObjectsKept` from files to what travels.
`ExportSound` and `ImportSound` say for each control point what the box holds, or the
vault already has of it: an export has gathered of each object what the directory holds,
`.bin` and `.dek`, and it never has one without the other; an import has the scopes of
its objects first, then the objects, then their DEKs, and what it skips as present is
whole and in a scope of the vault: a `.bin` that is not, a `seal_object` left behind,
and no `.amem` file has its id (`FileSound`). `BoxSound` says of a finished file that
every object is in a scope its own copy of `vault.cbor` has, so a fresh import accepts
it, and that what was acknowledged is in it with its DEK. `CopiesSound` ties the vaults
together: of an acknowledged object every `.bin` and `.dek` anywhere, in any box, is
that object, or is being filled by an import. Both hypotheses are needed. With two
commands on one vault, an export that read `vault.cbor` before a scope was added takes
objects sealed into it; after a death in an import the next one skips an empty file
(`files_retry`). A death anywhere else does no harm to these two promises. The run
`files_devices` excludes deaths over `vault.cbor` as well; the theorems do not, but
`ImportRestores` says nothing of a vault whose `vault.cbor` such a death left truncated.

**The MCP server.** A tool does to the files what its command does, and between two
commands nothing: `ServerIsFiles` maps every step of a server to a step of `VaultFiles`
or to a stutter, and `ServerImplementsFiles` makes the invariants of `VaultFiles`
invariants of the server. `Remembering` adds the link between an answer and the store:
while `amem_remember` is at its seal, what is being sealed is for an entry `vault.cbor`
has held under the scope name asked for, and from the return of `seal_object` on the
files name that entry (`SealedIn`); no entry is ever replaced, so it is the one
`vault.cbor` has. If every server has a directory of its own, `AtHome` gives `WritersApart`,
although the `.amem` file is common to all.

The proofs rest on the named assumptions of the modules, and TLC evaluates them on
every run: `KeyAssumption` (the owner is a key, key ids are a function),
`IncomingAssumption` (an object that arrives with a genuine signature of the owner is
one release 0.1 made; see below), `MisfiledAssumption`,
`FileAssumption`, `LiveAssumption`, `RaisesAssumption`, `KekAssumption`,
`FilesAssumption` (the marks for "no entry", "no file" and "truncated" are none of the
values), `ServerAssumption` (every server has a directory and may change its
`vault.cbor`), and `VectorAssumption`. Nothing is assumed
about key ids being different, except by `LabelsAreExplained` and of the two keys of the
vectors.

Only model-checked: the liveness properties `MigrationEnds`, `OwnLegacyUpgraded` and
`ToolsAnswer`, which are out of the prover's reach, and the counterexamples of the runs
that end in one. Every invariant and every action property of a passing run is a theorem.

## Assumptions, bounds and abstractions

- **Cryptography is symbolic.** A signature verifies under a key iff that key made it
  over that AAD; a ciphertext decrypts iff the AAD is the one it was made over and the
  DEK is unwrapped; a DEK unwraps under the scope key that wrapped it. Key ids are
  8-byte hashes and may collide.
- **Payload.** Content, type and extensions are one value, `body`; of the confidence,
  the tool, the session, the tags and the times, the model has the cases `migrate` tells
  apart. `sealable` marks contents that `open_sealed` passes through and
  `payload_map` refuses, `textual` those whose content and tags are strings. A custody
  record is taken to have a member besides the proven author. `scope` in `VaultTrust` is
  the scope id, and the `.dek` is known by the scope that wraps it.
- **What arrives.** `Arrives` puts down an object and its `.dek` at once; a `.dek` not
  yet there is to a reader what one it cannot unwrap is. `IncomingAssumption` leaves
  out format 2 objects the owner's key signed on another device and an import brought
  here, custody records included: in the model the owner signs in one directory. A
  reader judges such an object by the object, the owner's key and the keyring alone, so
  what holds of it where it was sealed is what it reports here; that it may arrive is
  outside the model and the theorems all the same.
- **Reads.** What a command reads from `vault.cbor` before its first write is one step
  of `VaultFiles`, as is the check that precedes it; `unlock` and `scope_kek` read the
  file again, and a write that falls between would only raise. In `Recall` the first
  read of a `.bin` is a step, the reads of the scope, the DEK and the keyring another.
  The .bin that `migrate` loads and the one `_dek_for` reads are
  separate steps of `VaultTrust`.
- **Writes.** `write_bytes` is truncate, then everything; writes of two processes to
  one file do not mix bytes. What is written is not lost again by the operating system.
- **Passphrases** are right: a wrong one raises before anything is written.
- **Key terms.** In `KeyHierarchy` a derived key is the term it is derived by, an
  exchange the pair of public keys, and an unwrap with the wrong key raises. This is
  what `VaultFiles` and `VaultTrust` take for granted when a DEK is the scope that
  wraps it.
- **Digests and encodings** in `Projection` are injective: a digest is the bytes, an
  encoding the value. The adapter is external: what it does is section 5 of
  `projection-v1-producer-spec.md`.
- **Order.** Objects are taken in any order; the code takes the sorted order.
- **`Admin`** of `VaultFiles` bounds who may change `vault.cbor` (of `VaultTrust`, who
  runs `trust_key`), **`CrashAt`** where a command may
  be killed. They are environment bounds and not promises of the code: outside them
  `files_overwrite` and `files_retry` show what happens, and a death inside
  `_write_meta` leaves a vault that nothing reads.
- **Random values** (identities, scope keys, object ids) are drawn once each from
  finite pools; `Affordable` keeps a tool from being called when they run out.
- `acked`, `granted`, `restored`, `authored`, `signedAt`, and `own` of a reader, are
  ghosts: no action reads them except the export, which notes in `promised` what was
  confirmed when it started.

## What is not modelled

- Argon2id, HKDF, X25519, AES key wrap, CBOR and COSE byte layouts: libraries and
  encodings without state.
- Argument parsing and printing of the command line. Two things seen there no model
  needs: `amem open` passes bytes (`_payload`) to `json.dumps` (cli.py:81-84), and
  `amem migrate` does not print the `attributed` count.
- The query filter, the ranking and the limit of `amem_recall`: no property speaks of
  which memories are shown. `confidence` is only a part of the memory.
- The superseded snapshot serialization of `projection_producer.py` (258-274).
- The bytes the test vector generators write, and vector 001's derivation.
- The CDDL schema, the drafts and the continuous integration: documents, which the
  properties and findings quote.

## Plan

In this order:

1. Done: `SealedObject`, `VaultTrust`, its proofs; `VaultFiles`; `McpServer`.
2. Done: `Attribution` and the refinement; proofs about migration; `Recall`,
   `Projection`, `KeyHierarchy`, `VaultKeys`, `TestVectors` and proofs; `NothingOverwritten` and
   `AckedStaysReadable`.
3. Done: every invariant a run checks is a theorem; `ContainerProofs`, `McpServerProofs`,
   and the proofs about projections and vectors.
   `seal_object` and `trust_key` by file operations in `VaultTrust`, `Rebuilt`.
4. `RememberedInScope` and `AckedIsReadable` across a directory that several servers
   share, from the weakest condition on when they start; `OwnIsRecalled` for envelopes
   that are disturbed, restricted to the files that are not.
5. Objects of other producers in a container: `Arrives` of `VaultTrust` composed with
   the import of `VaultFiles`.
