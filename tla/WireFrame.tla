----------------------------- MODULE WireFrame -----------------------------
(***************************************************************************)
(* The Confluent wire format: what emit.encode puts before a message's     *)
(* bytes, and what consume.StripFrame takes away again.                    *)
(*                                                                         *)
(*   magic 0x00, the schema id in four bytes, the message index, payload   *)
(*                                                                         *)
(* The message index is 0x00 for the first message of its schema, else a   *)
(* count and that many indices, each a zig-zag varint.                     *)
(***************************************************************************)
EXTENDS Integers, Sequences

Bytes == 0..255

\* binary.AppendVarint, of a number that is not negative.
Uvarint[u \in Nat] ==
  IF u < 128 THEN <<u>> ELSE <<128 + (u % 128)>> \o Uvarint[u \div 128]
Varint(n) == Uvarint[2 * n]

\* messageIndex: of the message at position idx of its file.
MessageIndex(idx) == IF idx = 0 THEN <<0>> ELSE Varint(1) \o Varint(idx)

\* encode
Encode(id, idx, payload) ==
  <<0>> \o [i \in 1..4 |-> (id \div (256 ^ (4 - i))) % 256] \o MessageIndex(idx) \o payload

-----------------------------------------------------------------------------

Malformed == [ok |-> FALSE, payload |-> <<>>]
Payload(s) == [ok |-> TRUE, payload |-> s]

\* binary.Varint reads as far as the first byte below 128, seven bits a byte and
\* the lowest first; 0 is returned as the length when there is none.  (The ten
\* bytes after which Go gives up are more than a message index takes.)
VarintLen(s) ==
  LET ends == {i \in DOMAIN s : s[i] < 128}
  IN  IF ends = {} THEN 0 ELSE CHOOSE i \in ends : \A j \in ends : i <= j

Unsigned[s \in Seq(Bytes)] ==
  IF s = <<>> THEN 0 ELSE (Head(s) % 128) + (128 * Unsigned[Tail(s)])

\* Zig-zag: the odd numbers stand for the negative ones.
VarintValue(s) ==
  LET u == Unsigned[SubSeq(s, 1, VarintLen(s))]
  IN  IF u % 2 = 0 THEN u \div 2 ELSE -1 - (u \div 2)

From(s, i) == SubSeq(s, i, Len(s))

\* The loop over the indices, k of them to go.
SkipIndices[k \in Nat] ==
  [s \in Seq(Bytes) |->
     IF k = 0 THEN Payload(s)
     ELSE IF VarintLen(s) = 0 THEN Malformed
     ELSE SkipIndices[k - 1][From(s, VarintLen(s) + 1)]]

\* (every message is taken for the first of its schema)
StripFrameFirstOnly(frame) ==
  IF Len(frame) < 6 \/ frame[1] # 0 THEN Malformed ELSE Payload(From(frame, 7))

\* StripFrame: a count that is not positive skips nothing.
StripFrame(frame) ==
  LET rest  == From(frame, 6)
      count == VarintValue(rest)
  IN  IF Len(frame) < 6 \/ frame[1] # 0 THEN Malformed
      ELSE IF rest[1] = 0 THEN Payload(Tail(rest))
      ELSE IF VarintLen(rest) = 0 THEN Malformed
      ELSE SkipIndices[IF count > 0 THEN count ELSE 0][From(rest, VarintLen(rest) + 1)]

=============================================================================
