------------------------------ MODULE MCCodec -------------------------------
(***************************************************************************)
(* Checks the codecs of GroupCodec and Credentials over every group state  *)
(* and credential built from small field values: empty and non-empty byte  *)
(* strings, distinct values in fields of the same type, and u32 and u16    *)
(* values at the byte boundaries.  A step replaces one field, as the       *)
(* group's operations do between two saves.  TLC's integers are signed 32- *)
(* bit, so the largest generation checked is 2^31 - 1, not 2^32 - 1.       *)
(***************************************************************************)
EXTENDS GroupCodec

VARIABLES group, credential
vars == <<group, credential>>

Secrets(b) == [welcome_secret |-> <<b>>, sender_data_secret |-> <<b + 1>>,
               handshake_secret |-> <<b + 2>>, application_secret |-> <<b + 3>>,
               exporter_secret |-> <<b + 4>>, confirmation_key |-> <<b + 5>>,
               init_secret |-> <<b + 6, b>>]
EmptySecrets == [f \in DOMAIN Secrets(0) |-> << >>]

\* The values each field of the group takes.
GroupValues ==
    [config |-> {<< >>, <<1>>},
     identity |-> {IdentityNew(1, << >>, <<7>>), IdentityNew(65535, <<0, 255>>, << >>)},
     group_context |-> {<< >>, <<2, 3>>},
     generation |-> {0, 255, 256, 2^24 + 1, 2147483647},
     epoch_secrets |-> {EmptySecrets, Secrets(10)},
     astree |-> {<< >>, <<4>>},
     tree |-> {<< >>, <<4, 4>>},
     public_queue |-> {<< >>, <<5>>},
     own_queue |-> {<< >>, <<6>>},
     pending_kpbs |-> {<< >>, << <<8>> >>, << << >>, <<8, 8>> >>},
     interim_transcript_hash |-> {<< >>, <<9>>}]

CredentialValues ==
    [identity |-> {<< >>, <<1, 2, 3>>}, ciphersuite |-> {1, 258}, public_key |-> {<< >>, <<7>>}]

Init ==
    /\ group = [f \in DOMAIN GroupValues |-> CHOOSE v \in GroupValues[f] : TRUE]
    /\ credential = [f \in DOMAIN CredentialValues |-> CHOOSE v \in CredentialValues[f] : TRUE]

SetGroupField ==
    \E f \in DOMAIN GroupValues : \E v \in GroupValues[f] :
        group' = [group EXCEPT ![f] = v] /\ UNCHANGED credential

SetCredentialField ==
    \E f \in DOMAIN CredentialValues : \E v \in CredentialValues[f] :
        credential' = [credential EXCEPT ![f] = v] /\ UNCHANGED group

Next == SetGroupField \/ SetCredentialField

Spec == Init /\ [][Next]_vars

\* Payloads an identity signs.
Payloads == {<<1>>, <<2, 3>>}

\* Bytes that follow an encoding in the same buffer.
Trailer == <<255, 0>>

(***************************************************************************)
(* Spec 8 (round trip): a saved group reads back as the same group, every *)
(* field in its place, and the cursor stops right after it: Group::decode  *)
(* reads the fields in the order Group::encode wrote them, with the same  *)
(* codec for each (Identity, EpochSecrets, the VecU32 of bundles), so     *)
(* fields of one type are never exchanged.                                 *)
(***************************************************************************)
GroupRoundTrip ==
    DecodeGroup(EncodeGroup(group) \o Trailer) = Ok(group, Trailer)

(***************************************************************************)
(* Spec 6: a truncated buffer yields a DecodingError.  No proper prefix of *)
(* a saved group decodes to a group, wherever the cut falls: in a length  *)
(* prefix, in a secret, in the bundles or before the last field.           *)
(***************************************************************************)
TruncationRejected ==
    LET e == EncodeGroup(group)
    IN  \A k \in 0..(Len(e) - 1) : ~DecodeGroup(SubSeq(e, 1, k)).ok

(***************************************************************************)
(* Spec 6 for credentials: a Basic credential reads back as itself, its   *)
(* identity under a u16 prefix; every credential type byte reads back as  *)
(* its type; a credential of any type other than Basic is a DecodingError. *)
(* The credential a member makes of its identity (From<&Identity>) keeps   *)
(* the suite and the public key through the wire: it verifies what the    *)
(* identity signs, and neither another payload nor another identity's     *)
(* signature.                                                              *)
(***************************************************************************)
CredentialWire ==
    /\ DecodeCredential(EncodeCredential(credential) \o Trailer) = Ok(credential, Trailer)
    /\ \A t \in DOMAIN CredentialTypeCode :
          DecodeCredentialType(EncodeCredentialType(t)).val = t
    /\ \A b \in {1, 2, 255} :
          ~DecodeCredential(<<b>> \o Tail(EncodeCredential(credential))).ok
    /\ LET x    == group.identity
           sent == DecodeCredential(EncodeCredential(BasicCredentialFrom(x))).val
       IN  \A p, q \in Payloads : \A y \in GroupValues.identity :
              /\ IdentityVerify(x, p, IdentitySign(x, p))
              /\ CredentialVerify(sent, q, IdentitySign(y, p)) <=> (q = p /\ y = x)

=============================================================================
