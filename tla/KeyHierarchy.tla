---------------------------- MODULE KeyHierarchy ----------------------------
(***************************************************************************)
(* The keys of a vault (src/src/amem/keys.py): from a passphrase and a     *)
(* salt to an identity, from the identity to the key of a scope, from that *)
(* to the key of an object.  Pure operators.                               *)
(*                                                                         *)
(* Symbolic: a derived key is the term it is derived by, so that two are   *)
(* equal iff made alike; an X25519 exchange is the pair of public keys,    *)
(* the same from both sides; an AES-KW unwrap gives the key iff it is      *)
(* tried with the wrapping key, and raises otherwise.                      *)
(***************************************************************************)
CONSTANTS
  Passphrase, Salt,
  Secret,       \* random keys: KEKs, DEKs, ephemeral seeds
  ScopeTag,     \* 16-byte scope ids, as key derivation sees them
  Raises        \* an exception

hkdf(ikm, info) == <<"hkdf", ikm, info>>
public(seed) == <<"public", seed>>
exchange(seed, pub) == {public(seed), pub}
aes_key_wrap(with, key) == <<"aeskw", with, key>>
aes_key_unwrap(with, wrapped) == IF wrapped[2] = with THEN wrapped[3] ELSE Raises

master_from_passphrase(passphrase, salt) == <<"argon2id", passphrase, salt>>

from_master(master) ==
  LET sign_seed == hkdf(master, "apertomemory/v1/sign")
      ka_seed == hkdf(master, "apertomemory/v1/ka")
  IN  [sign_seed |-> sign_seed, sign_pub |-> public(sign_seed),
       ka_seed |-> ka_seed, ka_pub |-> public(ka_seed)]
IdentityOf(passphrase, salt) ==
  from_master(master_from_passphrase(passphrase, salt))

ASSUME RaisesAssumption ==
  /\ Raises \notin Secret
  /\ \A p \in Passphrase, t \in Salt : IdentityOf(p, t) # Raises

INFO_KEK_WRAP == "apertomemory/v1/kek-wrap"
\* Faulty: the scope is not part of the derivation.
KekInfoWithoutScope(scope_id) == <<INFO_KEK_WRAP>>
KekInfo(scope_id) == <<INFO_KEK_WRAP, scope_id>>

wrap_kek(kek, user_ka_pub, scope_id, eph_seed) ==
  [kek_wrapped |->
     aes_key_wrap(hkdf(exchange(eph_seed, user_ka_pub), KekInfo(scope_id)), kek),
   eph_pub |-> public(eph_seed)]
unwrap_kek(kek_wrapped, eph_pub, scope_id, identity) ==
  aes_key_unwrap(hkdf(exchange(identity.ka_seed, eph_pub), KekInfo(scope_id)),
                 kek_wrapped)

wrap_dek(DEK, kek) == aes_key_wrap(kek, DEK)
unwrap_dek(dek_wrapped, kek) == aes_key_unwrap(kek, dek_wrapped)

\* Vault.unlock: the identity, or an exception for a wrong passphrase.
unlock(passphrase, salt, sign_pub) ==
  LET ident == IdentityOf(passphrase, salt)
  IN  IF ident.sign_pub = sign_pub THEN ident ELSE Raises

-----------------------------------------------------------------------------
\* What an entry of vault.cbor holds for a scope, and a .dek file under it.
ScopeEntry(passphrase, salt, scope_id, kek, eph_seed) ==
  wrap_kek(kek, IdentityOf(passphrase, salt).ka_pub, scope_id, eph_seed)

\* The DEK of an object comes out for the passphrase, the salt and the scope it
\* was wrapped for, and the vault unlocks; for any other, one of the two raises
\* whatever the other does: neither a scope entry nor a .dek can be put in
\* another's place.  VaultFiles and VaultTrust take this for granted when a key
\* is the scope it opens under (unlock, wrap_kek, unwrap_kek; test vector 002).
KeysOpenForTheirScope ==
  \A p1, p2 \in Passphrase, t1, t2 \in Salt, s1, s2 \in ScopeTag,
     kek, eph, DEK \in Secret :
    LET entry == ScopeEntry(p1, t1, s1, kek, eph)
        sealed == wrap_dek(DEK, kek)
        ident == unlock(p2, t2, IdentityOf(p1, t1).sign_pub)
        kek2 == unwrap_kek(entry.kek_wrapped, entry.eph_pub, s2,
                           IdentityOf(p2, t2))
    IN  /\ ident = IF p1 = p2 /\ t1 = t2 THEN IdentityOf(p1, t1) ELSE Raises
        /\ IF p1 = p2 /\ t1 = t2 /\ s1 = s2
           THEN ident # Raises /\ unwrap_dek(sealed, kek2) = DEK
           ELSE kek2 = Raises

-----------------------------------------------------------------------------
\* Test vector 002 (src/test-vectors/gen_testvectors_keys.py), which derives
\* and wraps with the primitives alone, never calling keys.py.
Vector002(passphrase, salt, scope_id, kek, DEK, eph_seed) ==
  LET master == master_from_passphrase(passphrase, salt)
      ka_seed == hkdf(master, "apertomemory/v1/ka")
      shared == exchange(eph_seed, public(ka_seed))
      wrap_key == hkdf(shared, <<"apertomemory/v1/kek-wrap", scope_id>>)
  IN  [user_pub |-> public(ka_seed), eph_pub |-> public(eph_seed),
       kek_wrapped |-> aes_key_wrap(wrap_key, kek),
       dek_wrapped |-> aes_key_wrap(kek, DEK)]

\* The key-wrapping vectors and keys.py describe one format: what the script
\* wraps for a passphrase is what a vault with that passphrase would have
\* written, and the vault gets the DEK out of it.
VectorsOpenInAVault ==
  \A p \in Passphrase, t \in Salt, s \in ScopeTag,
     kek, eph, DEK \in Secret :
    LET v == Vector002(p, t, s, kek, DEK, eph)
        ident == IdentityOf(p, t)
        entry == ScopeEntry(p, t, s, kek, eph)
    IN  /\ v.user_pub = ident.ka_pub
        /\ v.kek_wrapped = entry.kek_wrapped /\ v.eph_pub = entry.eph_pub
        /\ unwrap_dek(v.dek_wrapped,
                      unwrap_kek(v.kek_wrapped, v.eph_pub, s, ident)) = DEK
=============================================================================
