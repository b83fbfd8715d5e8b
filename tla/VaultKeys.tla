----------------------------- MODULE VaultKeys -----------------------------
(***************************************************************************)
(* The .dek files of VaultTrust under the keys of KeyHierarchy: VaultTrust *)
(* says that a .dek opens iff it was wrapped under the scope its object's  *)
(* envelope names (DekOpens), this module by which unwrapping.             *)
(***************************************************************************)
EXTENDS VaultTrust, KeyHierarchy

\* new_scope_kek, and the DEK seal() draws: random, no two the same.
KekOf(scope) == <<"kek", scope>>
DekOf(f) == <<"dek", f>>

ASSUME KekAssumption == \A s \in ScopeId \cup {None} : KekOf(s) # Raises

DekFile(f) == wrap_dek(DekOf(f), KekOf(dek[f]))

\* Vault._dek_for with a given entry of vault.cbor under the scope the
\* envelope names; by scope_kek, the key is derived for that scope.
dek_for(f, entry, identity) ==
  unwrap_dek(DekFile(f),
             unwrap_kek(entry.kek_wrapped, entry.eph_pub, bin[f].scope, identity))

\* A .dek opens for the identity its scope was added by and with its scope's
\* own entry, exactly when VaultTrust says so, and to the object's DEK.  No
\* envelope moved to another scope, and no entry of vault.cbor put in another's
\* place, makes a key come out (Vault._dek_for, unwrap_kek).
DekOpensOnlyInItsScope ==
  \A f \in ObjId, s \in ScopeId, p, q \in Passphrase, salt \in Salt,
     eph \in Secret :
    bin[f] \in Sealed =>
      dek_for(f, ScopeEntry(p, salt, s, KekOf(s), eph), IdentityOf(q, salt))
        = IF p = q /\ s = bin[f].scope /\ DekOpens(f) THEN DekOf(f) ELSE Raises
=============================================================================
