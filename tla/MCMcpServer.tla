----------------------------- MODULE MCMcpServer ----------------------------
(***************************************************************************)
(* Instances of McpServer for TLC.                                         *)
(***************************************************************************)
EXTENDS McpServer, TLC

CONSTANTS p1, d1, d2

OneVaultEach == [p \in Process |-> IF p = p1 THEN d1 ELSE d2]
OneVault == [p \in Process |-> d1]

Anywhere == Pc
Nowhere == {}

Interchangeable ==
  Permutations(Identity) \cup Permutations(ScopeKey) \cup Permutations(ObjId)
=============================================================================
