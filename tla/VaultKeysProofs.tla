-------------------------- MODULE VaultKeysProofs --------------------------
(***************************************************************************)
(* The .dek files open as VaultTrust says, for any files, scopes,          *)
(* passphrases and random keys.                                            *)
(***************************************************************************)
EXTENDS VaultKeys, VaultTrustProofs, KeyHierarchyProofs

LEMMA KekInjective ==
  ASSUME NEW s, NEW t
  PROVE  KekOf(s) = KekOf(t) <=> s = t
BY DEF KekOf

\* The scope a file's envelope names and the one its .dek is wrapped under.
LEMMA ScopesTyped ==
  ASSUME TypeOK, NEW f \in ObjId, bin[f] \in Sealed
  PROVE  bin[f].scope \in ScopeId /\ dek[f] \in ScopeId \cup {None}
BY DEF TypeOK, Sealed

LEMMA DekFollows == TypeOK => DekOpensOnlyInItsScope
<1> SUFFICES ASSUME TypeOK, NEW f \in ObjId, NEW s \in ScopeId,
                    NEW p \in Passphrase, NEW q \in Passphrase,
                    NEW salt \in Salt, NEW eph \in Secret, bin[f] \in Sealed
             PROVE  dek_for(f, ScopeEntry(p, salt, s, KekOf(s), eph),
                            IdentityOf(q, salt))
                      = IF p = q /\ s = bin[f].scope /\ DekOpens(f)
                        THEN DekOf(f) ELSE Raises
  BY DEF DekOpensOnlyInItsScope
<1> DEFINE entry == ScopeEntry(p, salt, s, KekOf(s), eph)
           kek == unwrap_kek(entry.kek_wrapped, entry.eph_pub, bin[f].scope,
                             IdentityOf(q, salt))
<1>1. kek = IF p = q /\ s = bin[f].scope THEN KekOf(s) ELSE Raises
  BY KeyOpens
<1>2. dek_for(f, entry, IdentityOf(q, salt))
        = IF kek = KekOf(dek[f]) THEN DekOf(f) ELSE Raises
  BY DekUnwraps DEF dek_for, DekFile
<1>3. KekOf(dek[f]) # Raises
  BY ScopesTyped, KekAssumption
<1>4. KekOf(s) = KekOf(dek[f]) <=> s = dek[f]
  BY KekInjective
<1>5. DekOpens(f) <=> dek[f] = bin[f].scope
  BY DEF DekOpens
<1> HIDE DEF kek, entry
<1>6. kek = KekOf(dek[f]) <=> (p = q /\ s = bin[f].scope /\ DekOpens(f))
  BY <1>1, <1>3, <1>4, <1>5
<1> QED
  BY <1>2, <1>6 DEF entry

\* In any vault at any time, a .dek opens with its scope's own entry, for the
\* identity the scope was added by, when VaultTrust says it does, and not else.
THEOREM DeksOpenOnlyInTheirScope == Spec => []DekOpensOnlyInItsScope
BY TypeCorrect, DekFollows, PTL
=============================================================================
