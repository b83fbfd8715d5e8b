---------------------------- MODULE MCVaultFiles ----------------------------
(***************************************************************************)
(* Instances of VaultFiles for TLC.                                        *)
(***************************************************************************)
EXTENDS VaultFiles, TLC

\* Anywhere but while vault.cbor is truncated.
OutsideMeta == Pc \ {"meta1"}
\* Anywhere but while vault.cbor, or a file of an import, is truncated.
OutsideImportWrites == Pc \ {"meta1", "ibin1", "idek1"}
Nowhere == {}

Interchangeable ==
  Permutations(ObjId) \cup Permutations(Name) \cup Permutations(ScopeKey)
=============================================================================
