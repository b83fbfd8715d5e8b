---------------------------- MODULE MCVaultKeys ----------------------------
(***************************************************************************)
(* VaultKeys for TLC, with the objects and envelopes of MCVaultTrust.      *)
(***************************************************************************)
EXTENDS MCVaultTrust, VaultKeys, TLC

\* friend and twin have one key id, and every set here treats them alike.
SameId == Permutations({friend, twin})
=============================================================================
