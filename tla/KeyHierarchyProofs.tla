------------------------- MODULE KeyHierarchyProofs -------------------------
(***************************************************************************)
(* Proofs about the key hierarchy, for any passphrases, salts, scopes and  *)
(* random keys.                                                            *)
(***************************************************************************)
EXTENDS KeyHierarchy, TLAPS

LEMMA HkdfInjective ==
  ASSUME NEW ikm, NEW info, NEW ikm2, NEW info2,
         hkdf(ikm, info) = hkdf(ikm2, info2)
  PROVE  ikm = ikm2 /\ info = info2
BY DEF hkdf

LEMMA PublicInjective ==
  ASSUME NEW seed, NEW seed2, public(seed) = public(seed2)
  PROVE  seed = seed2
BY DEF public

\* Both sides of an exchange agree, and only they do.
LEMMA ExchangeAgrees ==
  ASSUME NEW seed, NEW eph
  PROVE  /\ exchange(eph, public(seed)) = exchange(seed, public(eph))
         /\ \A other : exchange(eph, public(seed)) = exchange(other, public(eph))
                         => other = seed
<1> DEFINE A == public(eph)
           B == public(seed)
<1>1. \A C : {A, B} = {C, A} => C = B
  OBVIOUS
<1>2. exchange(eph, public(seed)) = {A, B}
  BY DEF exchange
<1>3. \A other : exchange(other, public(eph)) = {public(other), A}
  BY DEF exchange
<1> HIDE DEF A
<1>4. \A other : {A, B} = {public(other), A} => public(other) = B
  BY <1>1
<1> QED
  BY <1>2, <1>3, <1>4, PublicInjective

\* Another passphrase or another salt is another identity.
LEMMA IdentityInjective ==
  ASSUME NEW p1, NEW t1, NEW p2, NEW t2,
         \/ IdentityOf(p1, t1).ka_seed = IdentityOf(p2, t2).ka_seed
         \/ IdentityOf(p1, t1).sign_pub = IdentityOf(p2, t2).sign_pub
  PROVE  p1 = p2 /\ t1 = t2
<1>1. master_from_passphrase(p1, t1) = master_from_passphrase(p2, t2)
  BY HkdfInjective, PublicInjective DEF IdentityOf, from_master
<1> QED
  BY <1>1 DEF master_from_passphrase

\* A key comes out of its wrapping for the passphrase, the salt and the scope it
\* was wrapped for, and for no other.
LEMMA KeyOpens ==
  ASSUME NEW p1, NEW p2, NEW t1, NEW t2, NEW s1, NEW s2, NEW kek, NEW eph
  PROVE  LET e == ScopeEntry(p1, t1, s1, kek, eph)
         IN  /\ unlock(p2, t2, IdentityOf(p1, t1).sign_pub)
                  = IF p1 = p2 /\ t1 = t2 THEN IdentityOf(p1, t1) ELSE Raises
             /\ unwrap_kek(e.kek_wrapped, e.eph_pub, s2, IdentityOf(p2, t2))
                  = IF p1 = p2 /\ t1 = t2 /\ s1 = s2 THEN kek ELSE Raises
<1> DEFINE a == IdentityOf(p1, t1)
           b == IdentityOf(p2, t2)
           entry == ScopeEntry(p1, t1, s1, kek, eph)
           kek2 == unwrap_kek(entry.kek_wrapped, entry.eph_pub, s2, b)
           with == hkdf(exchange(eph, a.ka_pub), KekInfo(s1))
           tried == hkdf(exchange(b.ka_seed, public(eph)), KekInfo(s2))
<1>1. unlock(p2, t2, a.sign_pub)
        = IF p1 = p2 /\ t1 = t2 THEN a ELSE Raises
  BY IdentityInjective DEF unlock
<1>3. a.ka_pub = public(a.ka_seed)
  BY DEF IdentityOf, from_master
<1>4. /\ entry.kek_wrapped = <<"aeskw", with, kek>>
      /\ entry.eph_pub = public(eph)
  BY DEF ScopeEntry, wrap_kek, aes_key_wrap
<1>5. kek2 = IF tried = with THEN kek ELSE Raises
  <2> HIDE DEF entry, with, b
  <2> QED
    BY <1>4 DEF unwrap_kek, aes_key_unwrap
<1>6. tried = with <=> (p1 = p2 /\ t1 = t2 /\ s1 = s2)
  <2>1. ASSUME p1 = p2, t1 = t2, s1 = s2
        PROVE  tried = with
    BY <1>3, <2>1, ExchangeAgrees
  <2>2. ASSUME tried = with
        PROVE  p1 = p2 /\ t1 = t2 /\ s1 = s2
    <3>1. /\ exchange(b.ka_seed, public(eph)) = exchange(eph, a.ka_pub)
          /\ KekInfo(s1) = KekInfo(s2)
      BY <2>2, HkdfInjective
    <3>2. b.ka_seed = a.ka_seed
      <4> HIDE DEF a, b
      <4> QED BY <1>3, <3>1, ExchangeAgrees
    <3>3. s1 = s2
      BY <3>1 DEF KekInfo
    <3> QED
      BY <3>2, <3>3, IdentityInjective
  <2> QED
    BY <2>1, <2>2
<1> HIDE DEF kek2, a, tried, with
<1> QED
  BY <1>1, <1>5, <1>6 DEF kek2, a, entry, b

LEMMA DekUnwraps ==
  ASSUME NEW DEK, NEW kek, NEW tried
  PROVE  unwrap_dek(wrap_dek(DEK, kek), tried)
           = IF tried = kek THEN DEK ELSE Raises
BY DEF unwrap_dek, wrap_dek, aes_key_unwrap, aes_key_wrap

\* Wrapped keys open where they were wrapped for and nowhere else.
THEOREM KeysOpenOnlyForTheirScope == KeysOpenForTheirScope
<1> SUFFICES ASSUME NEW p1 \in Passphrase, NEW p2 \in Passphrase,
                    NEW t1 \in Salt, NEW t2 \in Salt,
                    NEW s1 \in ScopeTag, NEW s2 \in ScopeTag,
                    NEW kek \in Secret, NEW eph \in Secret, NEW DEK \in Secret
             PROVE  LET entry == ScopeEntry(p1, t1, s1, kek, eph)
                        sealed == wrap_dek(DEK, kek)
                        ident == unlock(p2, t2, IdentityOf(p1, t1).sign_pub)
                        kek2 == unwrap_kek(entry.kek_wrapped, entry.eph_pub, s2,
                                           IdentityOf(p2, t2))
                    IN  /\ ident = IF p1 = p2 /\ t1 = t2
                                   THEN IdentityOf(p1, t1) ELSE Raises
                        /\ IF p1 = p2 /\ t1 = t2 /\ s1 = s2
                           THEN ident # Raises /\ unwrap_dek(sealed, kek2) = DEK
                           ELSE kek2 = Raises
  BY DEF KeysOpenForTheirScope
<1>1. IdentityOf(p1, t1) # Raises
  BY RaisesAssumption
<1> QED
  BY <1>1, KeyOpens, DekUnwraps

\* A vault opens what vector 002 wraps: the two derive the same keys.
THEOREM VectorsOpen == VectorsOpenInAVault
<1> SUFFICES ASSUME NEW p \in Passphrase, NEW t \in Salt, NEW s \in ScopeTag,
                    NEW kek \in Secret, NEW eph \in Secret, NEW DEK \in Secret
             PROVE  LET v == Vector002(p, t, s, kek, DEK, eph)
                        ident == IdentityOf(p, t)
                        entry == ScopeEntry(p, t, s, kek, eph)
                    IN  /\ v.user_pub = ident.ka_pub
                        /\ v.kek_wrapped = entry.kek_wrapped
                        /\ v.eph_pub = entry.eph_pub
                        /\ unwrap_dek(v.dek_wrapped,
                             unwrap_kek(v.kek_wrapped, v.eph_pub, s, ident)) = DEK
  BY DEF VectorsOpenInAVault
<1> DEFINE v == Vector002(p, t, s, kek, DEK, eph)
           a == IdentityOf(p, t)
           with == hkdf(exchange(eph, a.ka_pub), KekInfo(s))
<1>1. a.ka_pub = public(a.ka_seed)
      /\ a.ka_seed = hkdf(master_from_passphrase(p, t), "apertomemory/v1/ka")
  BY DEF IdentityOf, from_master
<1>2. /\ v.user_pub = a.ka_pub /\ v.eph_pub = public(eph)
      /\ v.kek_wrapped = aes_key_wrap(with, kek)
      /\ v.dek_wrapped = aes_key_wrap(kek, DEK)
  BY <1>1 DEF Vector002, KekInfo, INFO_KEK_WRAP
<1>3. /\ ScopeEntry(p, t, s, kek, eph).kek_wrapped = aes_key_wrap(with, kek)
      /\ ScopeEntry(p, t, s, kek, eph).eph_pub = public(eph)
  BY DEF ScopeEntry, wrap_kek
<1>4. hkdf(exchange(a.ka_seed, public(eph)), KekInfo(s)) = with
  BY <1>1, ExchangeAgrees
<1>5. unwrap_kek(v.kek_wrapped, v.eph_pub, s, a) = kek
  <2> HIDE DEF v, a, with
  <2> QED BY <1>2, <1>4 DEF unwrap_kek, aes_key_unwrap, aes_key_wrap
<1>6. unwrap_dek(v.dek_wrapped, kek) = DEK
  <2> HIDE DEF v
  <2> QED BY <1>2 DEF unwrap_dek, aes_key_unwrap, aes_key_wrap
<1> HIDE DEF with
<1> QED
  BY <1>2, <1>3, <1>5, <1>6
=============================================================================
