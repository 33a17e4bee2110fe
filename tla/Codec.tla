------------------------------- MODULE Codec --------------------------------
(***************************************************************************)
(* The TLS-style presentation language of spec 6 over byte sequences: big- *)
(* endian scalars and length-prefixed vectors.  crate::codec (Codec,       *)
(* Cursor, encode_vec, decode_vec) is not among the sources; these         *)
(* operators follow spec 6.                                                *)
(*                                                                         *)
(* A decoder takes the remaining bytes of the cursor and returns a result *)
(* record: ok, the decoded value and the bytes left after it.  A failed   *)
(* decode is the CodecError::DecodingError of the code; its value and rest *)
(* are meaningless.                                                        *)
(***************************************************************************)
EXTENDS Naturals, Sequences

Ok(v, rest) == [ok |-> TRUE, val |-> v, rest |-> rest]
Err         == [ok |-> FALSE, val |-> << >>, rest |-> << >>]

Drop(buf, n) == SubSeq(buf, n + 1, Len(buf))

\* u8, u16, u32: w big-endian bytes.
UintBytes(n, w) == [i \in 1..w |-> (n \div (256 ^ (w - i))) % 256]

RECURSIVE BytesToNat(_)
BytesToNat(bs) == IF bs = << >> THEN 0 ELSE BytesToNat(SubSeq(bs, 1, Len(bs) - 1)) * 256 + bs[Len(bs)]

\* <uN>::decode: fails on a buffer shorter than the scalar.
DecodeUint(buf, w) ==
    IF Len(buf) < w THEN Err ELSE Ok(BytesToNat(SubSeq(buf, 1, w)), Drop(buf, w))

\* VecSize: the width in bytes of the length prefix.
VecU8 == 1
VecU16 == 2
VecU32 == 4

\* encode_vec(size, buffer, bytes): the length of the payload, then the payload.
EncodeVec(w, bytes) == UintBytes(Len(bytes), w) \o bytes

\* decode_vec(size, cursor) of a byte vector: the prefix, then that many
\* bytes, failing when the buffer is shorter than the prefix says.
DecodeVec(w, buf) ==
    LET n == DecodeUint(buf, w)
    IN  IF ~n.ok \/ Len(n.rest) < n.val THEN Err
        ELSE Ok(SubSeq(n.rest, 1, n.val), Drop(n.rest, n.val))

(***************************************************************************)
(* Types whose codec is not among the sources (Ciphersuite,                *)
(* SignatureKeypair, SignaturePublicKey, GroupConfig, GroupContext,        *)
(* ASTree, Tree, ProposalQueue, KeyPackageBundle) are taken as opaque      *)
(* values that encode to a self-delimiting byte string, as every encoding  *)
(* of spec 6 is: a VecU8 of their bytes.  Ciphersuite is a u16.            *)
(***************************************************************************)
EncodeOpaque(v) == EncodeVec(VecU8, v)
DecodeOpaque(buf) == DecodeVec(VecU8, buf)

EncodeCiphersuite(cs) == UintBytes(cs, 2)
DecodeCiphersuite(buf) == DecodeUint(buf, 2)

=============================================================================
