---------------------------- MODULE KeySchedule ----------------------------
(***************************************************************************)
(* The key schedule of src/schedule.rs over symbolic secrets.  HKDF is     *)
(* taken as one-way and injective, so a secret is represented by its       *)
(* derivation: the sequence of HKDF steps that produced it, starting from  *)
(* a root secret.  A step is a record with the same fields for every kind, *)
(*   op    "expand" (hkdf_expand_label) or "extract" (hkdf_extract),      *)
(*   label the label of an expansion ("" for an extraction),               *)
(*   side  the second input of an extraction: the salt or the ikm that is  *)
(*         not the secret carried along (a commit secret, or << >> for the *)
(*         empty byte string); << >> for an expansion,                      *)
(*   ctx   the context bytes of an expansion: << >> for the empty context, *)
(*         <<e>> for the group context of epoch e.                         *)
(* Two secrets are equal exactly when their derivations are.  The length   *)
(* argument of hkdf_expand_label is always hash_length here and is left    *)
(* out; so is the "mls10 " prefix of HkdfLabel, which every label shares.  *)
(***************************************************************************)
EXTENDS Naturals, Sequences

EmptyBytes == << >>

\* hkdf_expand_label: HKDF-Expand with the HkdfLabel (length, "mls10 " ++
\* label, context) as info.
HkdfExpandLabel(secret, label, context) ==
    Append(secret, [op |-> "expand", label |-> label, side |-> EmptyBytes, ctx |-> context])

\* derive_secret: hkdf_expand_label to hash_length.
DeriveSecret(secret, label, context) == HkdfExpandLabel(secret, label, context)

\* hkdf_extract(salt, ikm), carrying the secret input along and recording
\* the other one.
HkdfExtract(secret, other) ==
    Append(secret, [op |-> "extract", label |-> "", side |-> other, ctx |-> EmptyBytes])

\* A root secret, known to whoever was given it: <<the root step>>.
RootSecret(name) == << [op |-> "root", label |-> name, side |-> EmptyBytes, ctx |-> EmptyBytes] >>

Fields == {"welcome", "sender_data", "handshake", "application", "exporter", "confirmation", "init"}

\* EpochSecrets::derive_epoch_secrets(epoch_secret, welcome_secret, group_state)
DeriveEpochSecrets(epochSecret, welcome, gc) ==
    [welcome      |-> welcome,
     sender_data  |-> DeriveSecret(epochSecret, "sender data", gc),
     handshake    |-> DeriveSecret(epochSecret, "handshake", gc),
     application  |-> DeriveSecret(epochSecret, "app", gc),
     exporter     |-> DeriveSecret(epochSecret, "exporter", gc),
     confirmation |-> DeriveSecret(epochSecret, "confirm", gc),
     init         |-> DeriveSecret(epochSecret, "init", gc)]

\* Variant: the epoch secret is extracted from the previous init secret
\* alone, the commit secret not mixed in.
GetNewEpochSecretsNoCommit(es, commitSecret, gc) ==
    LET early   == HkdfExtract(es.init, EmptyBytes)
        derived == DeriveSecret(early, "derived", EmptyBytes)
    IN  DeriveEpochSecrets(derived, DeriveSecret(es.init, "group info", EmptyBytes), gc)

(***************************************************************************)
(* EpochSecrets::get_new_epoch_secrets(commit_secret, psk, group_state):   *)
(* the welcome secret from the current init secret alone, then             *)
(* early = Extract(salt = psk or empty, ikm = init), derived, and          *)
(* epoch = Extract(salt = derived, ikm = commit_secret); every field of    *)
(* self is overwritten with the derived ones.  psk is None: no caller in   *)
(* the sources passes one.                                                 *)
(***************************************************************************)
GetNewEpochSecrets(es, commitSecret, gc) ==
    LET welcome     == DeriveSecret(es.init, "group info", EmptyBytes)
        early       == HkdfExtract(es.init, EmptyBytes)
        derived     == DeriveSecret(early, "derived", EmptyBytes)
        epochSecret == HkdfExtract(derived, commitSecret)
    IN  DeriveEpochSecrets(epochSecret, welcome, gc)

\* mls_exporter(epoch_secrets, label, context, key_length): the key_length
\* only truncates and is left out.
MlsExporter(es, label, context) ==
    HkdfExpandLabel(DeriveSecret(es.exporter, label, context), "exporter", context)

\* The secrets a group starts from: every field a root secret of its own.
InitialSecrets(name) == [f \in Fields |-> RootSecret(name \o " " \o f)]

(***************************************************************************)
(* Derivability: a holder of the secrets in S (a set of derivations) and   *)
(* of the extraction inputs in K (commit secrets; public values included) *)
(* can compute t when some prefix of t is in S and the side input of every *)
(* extraction after that prefix is in K.  HKDF being one-way, nothing else *)
(* computes t.                                                             *)
(***************************************************************************)
RECURSIVE Derivable(_, _, _)
Derivable(S, K, t) ==
    \/ t \in S
    \/ /\ Len(t) > 1
       /\ t[Len(t)].side = EmptyBytes \/ t[Len(t)].side \in K
       /\ Derivable(S, K, SubSeq(t, 1, Len(t) - 1))

=============================================================================
