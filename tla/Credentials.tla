---------------------------- MODULE Credentials -----------------------------
(***************************************************************************)
(* The wire formats of src/creds.rs: Identity, CredentialType, Credential *)
(* and BasicCredential.  Values are records of their fields; a byte       *)
(* string is a sequence of naturals below 256.  Signatures are symbolic:  *)
(* the Ciphersuite collaborator's sign yields a record naming the suite,  *)
(* the key and the payload, and verify accepts exactly that record.       *)
(***************************************************************************)
EXTENDS Codec

\* CredentialType: Basic = 0, X509 = 1, Default = 255.
CredentialTypeCode == [Basic |-> 0, X509 |-> 1, Default |-> 255]

\* impl From<u8> for CredentialType: every unknown value is Default.
CredentialTypeFrom(b) ==
    CASE b = 0 -> "Basic"
      [] b = 1 -> "X509"
      [] OTHER -> "Default"

EncodeCredentialType(t) == UintBytes(CredentialTypeCode[t], 1)

DecodeCredentialType(buf) ==
    LET b == DecodeUint(buf, 1)
    IN  IF b.ok THEN Ok(CredentialTypeFrom(b.val), b.rest) ELSE Err

\* Identity: VecU8(id) || ciphersuite || keypair.
EncodeIdentity(x) ==
    EncodeVec(VecU8, x.id) \o EncodeCiphersuite(x.ciphersuite) \o EncodeOpaque(x.keypair)

DecodeIdentity(buf) ==
    LET id == DecodeVec(VecU8, buf)
        cs == DecodeCiphersuite(id.rest)
        kp == DecodeOpaque(cs.rest)
    IN  IF id.ok /\ cs.ok /\ kp.ok
        THEN Ok([id |-> id.val, ciphersuite |-> cs.val, keypair |-> kp.val], kp.rest)
        ELSE Err

\* Variant: the identity of a BasicCredential under a u8 prefix, as Identity's.
EncodeBasicCredentialU8(c) ==
    EncodeVec(VecU8, c.identity) \o EncodeCiphersuite(c.ciphersuite) \o EncodeOpaque(c.public_key)

\* BasicCredential: VecU16(identity) || ciphersuite || public_key.
EncodeBasicCredential(c) ==
    EncodeVec(VecU16, c.identity) \o EncodeCiphersuite(c.ciphersuite) \o EncodeOpaque(c.public_key)

DecodeBasicCredential(buf) ==
    LET id == DecodeVec(VecU16, buf)
        cs == DecodeCiphersuite(id.rest)
        pk == DecodeOpaque(cs.rest)
    IN  IF id.ok /\ cs.ok /\ pk.ok
        THEN Ok([identity |-> id.val, ciphersuite |-> cs.val, public_key |-> pk.val], pk.rest)
        ELSE Err

\* Credential::Basic: the type Basic, then the BasicCredential.
EncodeCredential(c) == EncodeCredentialType("Basic") \o EncodeBasicCredential(c)

\* Credential::decode: any type but Basic is a DecodingError.
DecodeCredential(buf) ==
    LET t == DecodeCredentialType(buf)
    IN  IF t.ok /\ t.val = "Basic" THEN DecodeBasicCredential(t.rest) ELSE Err


(***************************************************************************)
(* The Ciphersuite collaborator (spec 2): a signature key pair is known by *)
(* its bytes, and its public key is those bytes; a signature made with a  *)
(* key pair under a suite verifies under the same suite, the public key of *)
(* that pair and the same payload, and under nothing else.                *)
(***************************************************************************)
SignaturePublicKey(kp) == kp
CiphersuiteSign(cs, kp, payload) == [suite |-> cs, key |-> kp, payload |-> payload]
CiphersuiteVerify(cs, sig, pk, payload) == sig = CiphersuiteSign(cs, pk, payload)

\* Identity::new, with the fresh key pair of new_signature_keypair as input.
IdentityNew(cs, id, kp) == [id |-> id, ciphersuite |-> cs, keypair |-> kp]

\* Identity::sign and Identity::verify.
IdentitySign(x, payload) == CiphersuiteSign(x.ciphersuite, x.keypair, payload)
IdentityVerify(x, payload, sig) ==
    CiphersuiteVerify(x.ciphersuite, sig, SignaturePublicKey(x.keypair), payload)

\* BasicCredential::verify, and Credential::verify (Basic is its only variant).
BasicCredentialVerify(c, payload, sig) ==
    CiphersuiteVerify(c.ciphersuite, sig, c.public_key, payload)
CredentialVerify(c, payload, sig) == BasicCredentialVerify(c, payload, sig)

\* impl From<&Identity> for BasicCredential.
BasicCredentialFrom(x) ==
    [identity |-> x.id, ciphersuite |-> x.ciphersuite, public_key |-> SignaturePublicKey(x.keypair)]

=============================================================================
