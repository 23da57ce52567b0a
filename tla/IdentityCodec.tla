---------------------------- MODULE IdentityCodec ----------------------------
(***************************************************************************)
(* The protobuf wire encoding of types.Identity that the keeper stores    *)
(* (src/x/identity/types/identity.pb.go): Size, MarshalToSizedBuffer,     *)
(* encodeVarintIdentity, Unmarshal and skipIdentity, byte for byte.       *)
(*                                                                         *)
(* A message is [address, idHash, createdAt]: the two strings as the      *)
(* sequences of their byte values, CreatedAt as a number.  Bytes are      *)
(* numbers in 0..255.  CreatedAt is a time.Now().Unix() value, so it is   *)
(* not negative and below 2^31: uint64(m.CreatedAt) is the number itself, *)
(* and no 64-bit wrap-around is reachable.  The shift << of the varint    *)
(* loops is written as a Horner sum of the 7-bit groups, which gives the  *)
(* same value for every varint of at most 9 bytes.                        *)
(***************************************************************************)
EXTENDS Integers, Sequences, Bitwise

Ok  == "nil"
EOF == "io.ErrUnexpectedEOF"

\* math_bits.Len64: the number of significant bits of x.
RECURSIVE Len64(_)
Len64(x) == IF x = 0 THEN 0 ELSE 1 + Len64(shiftR(x, 1))

\* Mutant: the rounding term of the division written one too large.
sovIdentityRoundUp(x) == (Len64(x | 1) + 7) \div 7

\* sovIdentity: how many bytes the varint of x takes.
sovIdentity(x) == (Len64(x | 1) + 6) \div 7

\* encodeVarintIdentity: the bytes it writes, 7 bits at a time, low group
\* first, the high bit set on every byte but the last.
RECURSIVE encodeVarintIdentity(_)
encodeVarintIdentity(v) ==
  IF v >= 128 THEN <<(v & 127) + 128>> \o encodeVarintIdentity(shiftR(v, 7))
  ELSE <<v>>

\* Size: one tag byte, the length varint and the bytes of a non-empty
\* string; one tag byte and the varint of a non-zero CreatedAt.
StringFieldSize(s) == IF Len(s) > 0 THEN 1 + Len(s) + sovIdentity(Len(s)) ELSE 0

Size(m) ==
  StringFieldSize(m.address) + StringFieldSize(m.idHash)
    + (IF m.createdAt # 0 THEN 1 + sovIdentity(m.createdAt) ELSE 0)

\* MarshalToSizedBuffer writes backwards from the end of the buffer,
\* CreatedAt (tag 0x18) first, then IdHash (0x12), then Address (0x0a);
\* read forwards, the bytes it writes are these.
StringField(tag, s) == IF Len(s) > 0 THEN <<tag>> \o encodeVarintIdentity(Len(s)) \o s ELSE <<>>

Written(m) ==
  StringField(10, m.address) \o StringField(18, m.idHash)
    \o (IF m.createdAt # 0 THEN <<24>> \o encodeVarintIdentity(m.createdAt) ELSE <<>>)

(***************************************************************************)
(* Marshal: make([]byte, Size()), filled from its end by                 *)
(* MarshalToSizedBuffer, which returns n = len(dAtA) - i; Marshal returns *)
(* dAtA[:n].  Writing more than Size() bytes drives i below 0: an index   *)
(* out of range, a panic.                                                  *)
(***************************************************************************)
Marshal(m) ==
  LET w == Written(m)
      dAtA == [k \in 1..(Size(m) - Len(w)) |-> 0] \o w
  IN  IF Len(w) > Size(m) THEN [err |-> "panic", bytes |-> <<>>]
      ELSE [err |-> Ok, bytes |-> SubSeq(dAtA, 1, Len(w))]

(***************************************************************************)
(* One varint read by the loops of Unmarshal and skipIdentity, from index *)
(* i of d (1-based); n bytes are already read, so shift = 7 * n.          *)
(***************************************************************************)
RECURSIVE ReadVarint(_, _, _)
ReadVarint(d, i, n) ==
  IF 7 * n >= 64 THEN [err |-> "ErrIntOverflowIdentity", val |-> 0, next |-> i]
  ELSE IF i > Len(d) THEN [err |-> EOF, val |-> 0, next |-> i]
  ELSE IF d[i] < 128 THEN [err |-> Ok, val |-> d[i], next |-> i + 1]
  ELSE LET r == ReadVarint(d, i + 1, n + 1)
       IN  IF r.err # Ok THEN r ELSE [r EXCEPT !.val = (d[i] & 127) + 128 * @]

(***************************************************************************)
(* skipIdentity on d from index i: the index after the unknown field     *)
(* that starts there, or its error.  Groups (wire types 3 and 4) nest.    *)
(***************************************************************************)
RECURSIVE skipIdentity(_, _, _)
skipIdentity(d, i, depth) ==
  IF i > Len(d) THEN [err |-> EOF, next |-> i]
  ELSE
  LET tag  == ReadVarint(d, i, 0)
      wt   == tag.val & 7
      body == ReadVarint(d, tag.next, 0)
      next == CASE wt = 0 -> body.next
                [] wt = 1 -> tag.next + 8
                [] wt = 2 -> body.next + body.val
                [] wt = 5 -> tag.next + 4
                [] OTHER  -> tag.next
      inner == CASE wt = 3 -> depth + 1
                 [] wt = 4 -> depth - 1
                 [] OTHER  -> depth
  IN  IF tag.err # Ok THEN [err |-> tag.err, next |-> i]
      ELSE IF wt \in {6, 7} THEN [err |-> "illegal wireType", next |-> i]
      ELSE IF wt \in {0, 2} /\ body.err # Ok THEN [err |-> body.err, next |-> i]
      ELSE IF wt = 4 /\ depth = 0 THEN [err |-> "ErrUnexpectedEndOfGroupIdentity", next |-> i]
      ELSE IF inner = 0 THEN [err |-> Ok, next |-> next]
      ELSE skipIdentity(d, next, inner)

NoIdentity == [address |-> <<>>, idHash |-> <<>>, createdAt |-> 0]

Decoded(m, e) == [err |-> e, msg |-> m]

FieldName == <<"address", "idHash">>

(***************************************************************************)
(* The loop of Identity.Unmarshal from index i: read a tag, check its     *)
(* wire type, and decode field 1 or 2 (a string), field 3 (a varint) or   *)
(* skip an unknown field.  A later occurrence of a field overwrites an    *)
(* earlier one.                                                            *)
(***************************************************************************)
RECURSIVE UnmarshalFrom(_, _, _)
UnmarshalFrom(d, i, m) ==
  IF i > Len(d) THEN Decoded(m, Ok)
  ELSE
  LET tag      == ReadVarint(d, i, 0)
      fieldNum == shiftR(tag.val, 3)
      wireType == tag.val & 7
      val      == ReadVarint(d, tag.next, 0)
      post     == val.next + val.val
      skip     == skipIdentity(d, i, 0)
  IN  IF tag.err # Ok THEN Decoded(m, tag.err)
      ELSE IF wireType = 4 THEN Decoded(m, "wiretype end group for non-group")
      ELSE IF fieldNum <= 0 THEN Decoded(m, "illegal tag")
      ELSE IF fieldNum \in {1, 2} THEN
             IF wireType # 2 THEN Decoded(m, "wrong wireType")
             ELSE IF val.err # Ok THEN Decoded(m, val.err)
             ELSE IF post - 1 > Len(d) THEN Decoded(m, EOF)
             ELSE UnmarshalFrom(d, post,
                    [m EXCEPT ![FieldName[fieldNum]] = SubSeq(d, val.next, post - 1)])
      ELSE IF fieldNum = 3 THEN
             IF wireType # 0 THEN Decoded(m, "wrong wireType")
             ELSE IF val.err # Ok THEN Decoded(m, val.err)
             ELSE UnmarshalFrom(d, val.next, [m EXCEPT !.createdAt = val.val])
      ELSE IF skip.err # Ok THEN Decoded(m, skip.err)
      ELSE IF skip.next - 1 > Len(d) THEN Decoded(m, EOF)
      ELSE UnmarshalFrom(d, skip.next, m)

\* Identity.Unmarshal into a zero Identity, as cdc.MustUnmarshal calls it.
Unmarshal(d) == UnmarshalFrom(d, 1, NoIdentity)

=============================================================================
