----------------------------- MODULE FrameCodec -----------------------------
(***************************************************************************)
(* src/frame.cpp: build_frame and parse_frame, byte by byte.  Framing and  *)
(* Server see the same two functions without the bytes.                    *)
(*                                                                         *)
(* Indices start at 1 where the code's start at 0.  The bit operations     *)
(* are arithmetic: b&0x80 is b >= 128, b&0x7F is b % 128, and so on; xor   *)
(* has no such form and is a constant of which only XorAssumption is used. *)
(***************************************************************************)
EXTENDS Integers, Sequences

CONSTANT xor(_, _)   \* data[i]^maskkey[j]

ByteVal == 0 .. 255

ASSUME XorAssumption ==
  \A a, b \in ByteVal : xor(a, b) \in ByteVal /\ xor(xor(a, b), b) = a

Opcode == [OP_CONT |-> 0, OP_TEXT |-> 1, OP_BINARY |-> 2,
           OP_CLOSE |-> 8, OP_PING |-> 9, OP_PONG |-> 10]

Frame == [fin : BOOLEAN, opcode : 0 .. 15, payload : Seq(ByteVal)]

OversizeLimit == 65536

-----------------------------------------------------------------------------
(* Network byte order.  The quotients are taken one byte at a time, as     *)
(* 2^56 is beyond TLC's integers.                                          *)

\* htons.
Bytes2(n) == <<(n \div 256) % 256, n % 256>>

\* htobe64: n shifted right by k bytes, down to its last byte.
Shifted(n) ==
  LET a == n \div 256  b == a \div 256  c == b \div 256  d == c \div 256
      e == d \div 256  f == e \div 256  g == f \div 256
  IN  <<g, f, e, d, c, b, a, n>>

Bytes8(n) == [i \in 1 .. 8 |-> Shifted(n)[i] % 256]

\* One byte more at the end of n.
Then(n, byte) == n * 256 + byte

\* ntohs and be64toh of the bytes that start at data[3].
Value2(data) == Then(data[3], data[4])
Value4(data) == Then(Then(Value2(data), data[5]), data[6])
Value8(data) == Then(Then(Then(Then(Value4(data), data[7]), data[8]), data[9]), data[10])

-----------------------------------------------------------------------------
(* build_frame and what calls it.                                          *)

\* Slip: 126 is taken for a length.
LengthBytes_OffByOne(n) ==
  CASE n <= 126   -> <<n>>
    [] n \in 127 .. 65535 -> <<126>> \o Bytes2(n)
    [] OTHER      -> <<127>> \o Bytes8(n)

\* Lengths b1 holds itself, and those that take two bytes behind it.
Short(n)    == n <= 125
TwoBytes(n) == n >= 126 /\ n <= 65535

\* b1 and the extended length, no mask bit.
LengthBytes(n) ==
  CASE Short(n)    -> <<n>>
    [] TwoBytes(n) -> <<126>> \o Bytes2(n)
    [] OTHER       -> <<127>> \o Bytes8(n)

\* f.mask and f.masking_key are not looked at.
build_frame(f) ==
  <<(IF f.fin THEN 128 ELSE 0) + (f.opcode % 16)>>
    \o LengthBytes(Len(f.payload)) \o f.payload

FrameOf(op, fin, payload) == [fin |-> fin, opcode |-> op, payload |-> payload]

build_text(msg, fin)          == build_frame(FrameOf(Opcode.OP_TEXT, fin, msg))
build_binary(data, fin)       == build_frame(FrameOf(Opcode.OP_BINARY, fin, data))
build_continuation(data, fin) == build_frame(FrameOf(Opcode.OP_CONT, fin, data))
build_pong(ping)              == build_frame(FrameOf(Opcode.OP_PONG, TRUE, ping.payload))

\* Slip: the code is copied in the host's byte order.
build_close_HostOrder(code, reason) ==
  build_frame(FrameOf(Opcode.OP_CLOSE, TRUE, <<code % 256, (code \div 256) % 256>> \o reason))

build_close(code, reason) ==
  build_frame(FrameOf(Opcode.OP_CLOSE, TRUE, Bytes2(code) \o reason))

-----------------------------------------------------------------------------
(* parse_frame on the bytes of data.                                       *)

HasMask(data) == data[2] >= 128
Field(data)   == data[2] % 128

\* Bytes of extended length and of masking key.
ExtraLength(data) ==
  CASE Field(data) = 126 -> 2
    [] Field(data) = 127 -> 8
    [] OTHER            -> 0

KeyLength(data) == IF HasMask(data) THEN 4 ELSE 0

\* off, once the header is read.
Offset(data) == 2 + ExtraLength(data) + KeyLength(data)

\* None of the four checks of the header's length fails.
HasHeader(data) == Len(data) >= 2 /\ Len(data) >= Offset(data)

\* Slip: the eight bytes of length go into a uint16_t.
plen_Narrow(data) ==
  CASE Field(data) = 126 -> Value2(data)
    [] Field(data) = 127 -> Then(data[9], data[10])
    [] OTHER            -> Field(data)

plen(data) ==
  CASE Field(data) = 126 -> Value2(data)
    [] Field(data) = 127 -> Value8(data)
    [] OTHER            -> Field(data)

\* Slip: the key is looked for behind b1, extended length or not.
MaskKey_Early(data) == SubSeq(data, 3, 6)

\* The four bytes of masking key, at the end of the header.
MaskKey(data) == SubSeq(data, Offset(data) - 3, Offset(data))

\* The payload's bytes xor the key's, over and over.
Masked(payload, key) ==
  [i \in 1 .. Len(payload) |-> xor(payload[i], key[((i - 1) % 4) + 1])]

Whole(data) == Len(data) >= Offset(data) + plen(data)

Oversize(data) == plen(data) > OversizeLimit

\* Does parse_frame return true?
Parses(data) == HasHeader(data) /\ (Oversize(data) \/ Whole(data))

\* frame.payload: the bytes received, or, above the limit, as many zeros.
PayloadOf(data) ==
  LET received == SubSeq(data, Offset(data) + 1, Offset(data) + plen(data))
  IN  IF Oversize(data) THEN [i \in 1 .. plen(data) |-> 0]
      ELSE IF HasMask(data) THEN Masked(received, MaskKey(data))
      ELSE received

\* Slip: used=len, as above the limit.
Used_All(data) == Len(data)

Used(data) == IF Oversize(data) THEN Len(data) ELSE Offset(data) + plen(data)

\* The frame filled in and the bytes used, when it does.
parse_frame(data) ==
  [frame |-> [fin     |-> data[1] >= 128,
              opcode  |-> data[1] % 16,
              payload |-> PayloadOf(data)],
   used  |-> Used(data)]

-----------------------------------------------------------------------------
(* What a peer may send by RFC 6455, independently of the functions above: *)
(* any of the three forms of a length that can hold it, and a key or none. *)

\* Bytes the length takes beyond b1, and keys: <<>> for a frame without mask.
Forms    == {0, 2, 8}
MaskKeys == {<<>>} \cup [1 .. 4 -> ByteVal]

\* The length n: what b1 holds of it, and the bytes behind b1.
Announced(n, form) == CASE form = 0 -> n [] form = 2 -> 126 [] form = 8 -> 127
Extended(n, form)  == CASE form = 0 -> <<>> [] form = 2 -> Bytes2(n) [] form = 8 -> Bytes8(n)

\* The payload under a key.
Body(payload, key) == IF key = <<>> THEN payload ELSE Masked(payload, key)

\* Frame f of such a peer.
Encoded(f, form, key) ==
  LET n    == Len(f.payload)
      mask == IF key = <<>> THEN 0 ELSE 128
  IN  <<(IF f.fin THEN 128 ELSE 0) + f.opcode, mask + Announced(n, form)>>
        \o Extended(n, form) \o key \o Body(f.payload, key)

=============================================================================
