----------------------------- MODULE GroupCodec -----------------------------
(***************************************************************************)
(* The serialization of a member's whole group state (src/group/codec.rs)  *)
(* and of its EpochSecrets (src/schedule.rs).  A struct is a record; its   *)
(* encode writes the fields in one order and its decode reads them back in *)
(* another list of the same fields, each with the codec of its type, and  *)
(* stops at the first error (the ? of the code).                           *)
(***************************************************************************)
EXTENDS Credentials, TLC

\* The codec each field is written with.
FieldKind ==
    [config |-> "opaque", identity |-> "identity", group_context |-> "opaque",
     generation |-> "u32", epoch_secrets |-> "epoch_secrets", astree |-> "opaque",
     tree |-> "opaque", public_queue |-> "opaque", own_queue |-> "opaque",
     pending_kpbs |-> "kpbs", interim_transcript_hash |-> "vec8",
     welcome_secret |-> "vec8", sender_data_secret |-> "vec8", handshake_secret |-> "vec8",
     application_secret |-> "vec8", exporter_secret |-> "vec8", confirmation_key |-> "vec8",
     init_secret |-> "vec8"]

\* impl Codec for EpochSecrets: seven VecU8 secrets, in declaration order.
EpochSecretsEncodeOrder ==
    <<"welcome_secret", "sender_data_secret", "handshake_secret", "application_secret",
      "exporter_secret", "confirmation_key", "init_secret">>
EpochSecretsDecodeOrder ==
    <<"welcome_secret", "sender_data_secret", "handshake_secret", "application_secret",
      "exporter_secret", "confirmation_key", "init_secret">>

\* Variant: Group::decode reads own_queue before public_queue.
GroupDecodeOrderSwapped ==
    <<"config", "identity", "group_context", "generation", "epoch_secrets", "astree",
      "tree", "own_queue", "public_queue", "pending_kpbs", "interim_transcript_hash">>

\* Variant: Group::decode stops before interim_transcript_hash.
GroupDecodeOrderShort ==
    <<"config", "identity", "group_context", "generation", "epoch_secrets", "astree",
      "tree", "public_queue", "own_queue", "pending_kpbs">>

\* impl Codec for Group.
GroupEncodeOrder ==
    <<"config", "identity", "group_context", "generation", "epoch_secrets", "astree",
      "tree", "public_queue", "own_queue", "pending_kpbs", "interim_transcript_hash">>
GroupDecodeOrder ==
    <<"config", "identity", "group_context", "generation", "epoch_secrets", "astree",
      "tree", "public_queue", "own_queue", "pending_kpbs", "interim_transcript_hash">>

\* encode_vec(VecU32, pending_kpbs): the bundles' encodings, length-prefixed.
RECURSIVE EncodeElements(_)
EncodeElements(s) == IF s = << >> THEN << >> ELSE EncodeOpaque(Head(s)) \o EncodeElements(Tail(s))

\* decode_vec(VecU32, cursor): bundles are decoded from the prefixed bytes
\* until none are left; one that overruns them is an error.
RECURSIVE DecodeElements(_)
DecodeElements(bytes) ==
    IF bytes = << >> THEN Ok(<< >>, << >>)
    ELSE LET e  == DecodeOpaque(bytes)
             es == IF e.ok THEN DecodeElements(e.rest) ELSE Err
         IN  IF es.ok THEN Ok(<<e.val>> \o es.val, << >>) ELSE Err

DecodeKpbs(buf) ==
    LET v  == DecodeVec(VecU32, buf)
        es == IF v.ok THEN DecodeElements(v.val) ELSE Err
    IN  IF es.ok THEN Ok(es.val, v.rest) ELSE Err

RECURSIVE EncodeStruct(_, _)
RECURSIVE DecodeStruct(_, _, _)

EncodeField(kind, v) ==
    CASE kind = "opaque"        -> EncodeOpaque(v)
      [] kind = "vec8"          -> EncodeVec(VecU8, v)
      [] kind = "u32"           -> UintBytes(v, 4)
      [] kind = "identity"      -> EncodeIdentity(v)
      [] kind = "kpbs"          -> EncodeVec(VecU32, EncodeElements(v))
      [] kind = "epoch_secrets" -> EncodeStruct(v, EpochSecretsEncodeOrder)

DecodeField(kind, buf) ==
    CASE kind = "opaque"        -> DecodeOpaque(buf)
      [] kind = "vec8"          -> DecodeVec(VecU8, buf)
      [] kind = "u32"           -> DecodeUint(buf, 4)
      [] kind = "identity"      -> DecodeIdentity(buf)
      [] kind = "kpbs"          -> DecodeKpbs(buf)
      [] kind = "epoch_secrets" -> DecodeStruct(buf, EpochSecretsDecodeOrder, << >>)

\* The fields of record r named in order, each encoded by its kind.
EncodeStruct(r, order) ==
    IF order = << >> THEN << >>
    ELSE EncodeField(FieldKind[Head(order)], r[Head(order)]) \o EncodeStruct(r, Tail(order))

\* The fields named in order, decoded one after the other into a record
\* (acc holds those read so far); the first failure fails the whole.
DecodeStruct(buf, order, acc) ==
    IF order = << >> THEN Ok(acc, buf)
    ELSE LET f == DecodeField(FieldKind[Head(order)], buf)
         IN  IF ~f.ok THEN Err
             ELSE DecodeStruct(f.rest, Tail(order), (Head(order) :> f.val) @@ acc)

EncodeEpochSecrets(es) == EncodeStruct(es, EpochSecretsEncodeOrder)
DecodeEpochSecrets(buf) == DecodeStruct(buf, EpochSecretsDecodeOrder, << >>)

EncodeGroup(g) == EncodeStruct(g, GroupEncodeOrder)
DecodeGroup(buf) == DecodeStruct(buf, GroupDecodeOrder, << >>)

=============================================================================
