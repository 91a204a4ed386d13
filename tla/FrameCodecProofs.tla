-------------------------- MODULE FrameCodecProofs --------------------------
(***************************************************************************)
(* Proofs of FrameCodecProperties for all bytes, frames and keys.          *)
(***************************************************************************)
EXTENDS FrameCodecProperties, SequenceTheorems, TLAPS

-----------------------------------------------------------------------------
(* The header depends on its own bytes only.                               *)

\* Said of a buffer, and only unfolded where its elements are asked for.
IsBuffer(b) == b \in Seq(ByteVal)

\* The bytes of a buffer are numbers below 256.
LEMMA BufferTypes ==
  ASSUME NEW b, IsBuffer(b)
  PROVE  /\ Len(b) \in Nat
         /\ \A i \in 1 .. Len(b) : b[i] \in 0 .. 255 /\ b[i] \in Nat
<1>1. Len(b) \in Nat /\ \A i \in 1 .. Len(b) : b[i] \in 0 .. 255
  BY LenProperties, ElementOfSeq DEF IsBuffer, ByteVal
<1>2. \A x \in 0 .. 255 : x \in Nat
  OBVIOUS
<1> QED
  BY <1>1, <1>2

\* Then is a number, and undone by division.
LEMMA ThenType == ASSUME NEW n \in Nat, NEW byte \in Nat PROVE Then(n, byte) \in Nat
BY DEF Then

LEMMA ThenDivided ==
  ASSUME NEW n \in Nat, NEW byte \in 0 .. 255
  PROVE  Then(n, byte) \div 256 = n /\ Then(n, byte) % 256 = byte
BY DEF Then

\* The extended length is a number.
LEMMA ValueTypes ==
  ASSUME NEW b, b[3] \in Nat, b[4] \in Nat
  PROVE  /\ Value2(b) \in Nat
         /\ (\A i \in 5 .. 10 : b[i] \in Nat) => Value8(b) \in Nat
<1>1. Value2(b) \in Nat
  BY ThenType DEF Value2
<1>2. ASSUME \A i \in 5 .. 10 : b[i] \in Nat
      PROVE  Value8(b) \in Nat
  <2>1. b[5] \in Nat /\ b[6] \in Nat
    BY <1>2
  <2>2. b[7] \in Nat /\ b[8] \in Nat
    BY <1>2
  <2>3. b[9] \in Nat /\ b[10] \in Nat
    BY <1>2
  <2>4. Value4(b) \in Nat
    BY <1>1, <2>1, ThenType DEF Value4
  <2>5. Then(Then(Value4(b), b[7]), b[8]) \in Nat
    BY <2>2, <2>4, ThenType
  <2> QED
    BY <2>3, <2>5, ThenType DEF Value8
<1> QED
  BY <1>1, <1>2

\* b begins with all of a.
Begins(a, b) == Len(a) <= Len(b) /\ \A i \in 1 .. Len(a) : b[i] = a[i]

\* The fields of a header are numbers of the sizes the code gives them.
LEMMA HeaderTypes ==
  ASSUME NEW b, IsBuffer(b), HasHeader(b)
  PROVE  /\ Len(b) \in Nat /\ Len(b) >= 2 /\ b[1] \in ByteVal /\ b[2] \in ByteVal
         /\ Field(b) \in 0 .. 127
         /\ ExtraLength(b) \in Forms /\ KeyLength(b) \in {0, 4}
         /\ Offset(b) \in 2 .. 14 /\ Offset(b) <= Len(b)
         /\ plen(b) \in Nat
<1>1. Len(b) \in Nat /\ Len(b) >= 2 /\ \A i \in 1 .. Len(b) : b[i] \in 0 .. 255 /\ b[i] \in Nat
  BY BufferTypes DEF HasHeader
<1>2. b[1] \in 0 .. 255 /\ b[2] \in 0 .. 255
  BY <1>1, SMTT(30)
<1>3. Field(b) \in 0 .. 127 /\ KeyLength(b) \in {0, 4}
  <2>1. Field(b) \in 0 .. 127
    BY <1>2 DEF Field
  <2>2. KeyLength(b) \in {0, 4}
    BY DEF KeyLength
  <2> QED
    BY <2>1, <2>2
<1>4. ExtraLength(b) \in Forms
  BY DEF ExtraLength, Forms
<1>5. Offset(b) \in 2 .. 14 /\ Offset(b) <= Len(b)
  BY <1>3, <1>4 DEF Offset, Forms, HasHeader
<1>6. plen(b) \in Nat
  <2>1. CASE Field(b) = 126
    <3>1. Len(b) >= 4
      BY <1>3, <1>5, <2>1 DEF ExtraLength, Offset
    <3>2. b[3] \in Nat /\ b[4] \in Nat
      BY <3>1, <1>1
    <3> QED
      BY <2>1, <3>2, ValueTypes DEF plen
  <2>2. CASE Field(b) = 127
    <3>1. Len(b) >= 10
      BY <1>3, <1>5, <2>2 DEF ExtraLength, Offset
    <3>2. \A i \in 3 .. 10 : b[i] \in Nat
      BY <3>1, <1>1
    <3> QED
      BY <2>2, <3>2, ValueTypes DEF plen
  <2> QED
    BY <1>3, <2>1, <2>2 DEF plen
<1> QED
  BY <1>1, <1>2, <1>3, <1>4, <1>5, <1>6 DEF ByteVal

\* Two buffers that begin alike, with a whole header, have the same header.
LEMMA HeaderAgrees ==
  ASSUME NEW a, IsBuffer(a), NEW b, IsBuffer(b), HasHeader(a), Begins(a, b)
  PROVE  /\ HasHeader(b)
         /\ a[1] = b[1] /\ HasMask(b) = HasMask(a)
         /\ ExtraLength(b) = ExtraLength(a)
         /\ Offset(b) = Offset(a) /\ plen(b) = plen(a)
<1>1. Len(b) \in Nat /\ Len(b) >= Len(a)
  BY BufferTypes DEF Begins
<1>2. a[1] = b[1] /\ a[2] = b[2]
  BY HeaderTypes DEF Begins
<1>3. /\ Field(b) = Field(a) /\ HasMask(b) = HasMask(a)
      /\ ExtraLength(b) = ExtraLength(a) /\ KeyLength(b) = KeyLength(a)
      /\ Offset(b) = Offset(a)
  BY <1>2 DEF Field, HasMask, ExtraLength, KeyLength, Offset
<1>4. HasHeader(b)
  BY <1>1, <1>3, HeaderTypes DEF HasHeader
<1>5. plen(b) = plen(a)
  <2>1. CASE Field(a) = 126
    <3>1. a[3] = b[3] /\ a[4] = b[4]
      BY <2>1, HeaderTypes, SMTT(30) DEF Begins, Offset, ExtraLength
    <3> QED
      BY <2>1, <3>1, <1>3 DEF plen, Value2
  <2>2. CASE Field(a) = 127
    <3>1. \A i \in 3 .. 10 : a[i] = b[i]
      BY <2>2, HeaderTypes, SMTT(30) DEF Begins, Offset, ExtraLength
    <3> QED
      BY <2>2, <3>1, <1>3 DEF plen, Value8, Value4, Value2
  <2> QED
    BY <2>1, <2>2, <1>3 DEF plen
<1> QED
  BY <1>2, <1>3, <1>4, <1>5

-----------------------------------------------------------------------------
(* More bytes do not change what parse_frame says.                         *)

\* A part of a buffer.
LEMMA PartTypes ==
  ASSUME NEW b, IsBuffer(b), NEW m \in Nat, NEW n \in Nat, m >= 1, n <= Len(b)
  PROVE  /\ IsBuffer(SubSeq(b, m, n))
         /\ Len(SubSeq(b, m, n)) = IF m <= n THEN n - m + 1 ELSE 0
         /\ \A i \in 1 .. n - m + 1 : SubSeq(b, m, n)[i] = b[m + i - 1]
<1>1. ASSUME NEW i \in m .. n
      PROVE  b[i] \in ByteVal
  <2>1. i \in 1 .. Len(b)
    BY BufferTypes
  <2> QED
    BY <2>1, BufferTypes DEF ByteVal
<1> QED
  BY <1>1, SubSeqProperties DEF IsBuffer

\* It is the same part of any buffer that begins alike.
LEMMA PartAgrees ==
  ASSUME NEW a, IsBuffer(a), NEW b, IsBuffer(b), Begins(a, b),
         NEW m \in Nat, NEW n \in Nat, m >= 1, n <= Len(a)
  PROVE  SubSeq(b, m, n) = SubSeq(a, m, n)
<1>1. n <= Len(b)
  BY BufferTypes DEF Begins
<1>2. /\ IsBuffer(SubSeq(b, m, n)) /\ IsBuffer(SubSeq(a, m, n))
      /\ Len(SubSeq(b, m, n)) = Len(SubSeq(a, m, n))
      /\ Len(SubSeq(a, m, n)) = IF m <= n THEN n - m + 1 ELSE 0
  BY <1>1, PartTypes
<1>3. ASSUME NEW i \in 1 .. Len(SubSeq(b, m, n))
      PROVE  SubSeq(b, m, n)[i] = SubSeq(a, m, n)[i]
  <2>1. i \in 1 .. n - m + 1 /\ m + i - 1 \in 1 .. Len(a)
    BY <1>2, BufferTypes
  <2>2. SubSeq(b, m, n)[i] = b[m + i - 1] /\ SubSeq(a, m, n)[i] = a[m + i - 1]
    BY <1>1, <2>1, PartTypes
  <2> QED
    BY <2>1, <2>2 DEF Begins
<1> QED
  BY <1>2, <1>3, SeqEqual DEF IsBuffer

\* Once parse_frame has accepted what is in a buffer, it accepts the same in any
\* longer one.
LEMMA Settled ==
  ASSUME NEW a, IsBuffer(a), NEW b, IsBuffer(b), Begins(a, b), Parses(a)
  PROVE  /\ Parses(b)
         /\ Oversize(b) = Oversize(a)
         /\ ~Oversize(a) => parse_frame(b) = parse_frame(a)
<1>1. HasHeader(a) /\ (Oversize(a) \/ Whole(a))
  BY DEF Parses
<1>2. /\ HasHeader(b)
      /\ a[1] = b[1] /\ HasMask(b) = HasMask(a)
      /\ Offset(b) = Offset(a) /\ plen(b) = plen(a)
  BY <1>1, HeaderAgrees
<1>3. Oversize(b) = Oversize(a)
  BY <1>2 DEF Oversize
<1>4. Offset(a) \in 2 .. 14 /\ Offset(a) <= Len(a) /\ plen(a) \in Nat
  BY <1>1, HeaderTypes
<1>5. Len(a) \in Nat /\ Len(b) \in Nat /\ Len(a) <= Len(b)
  BY BufferTypes DEF Begins
<1>6. Parses(b)
  BY <1>1, <1>2, <1>3, <1>4, <1>5, SMTT(30) DEF Parses, Whole
<1>7. ASSUME ~Oversize(a)
      PROVE  parse_frame(b) = parse_frame(a)
  <2>1. Offset(a) + plen(a) <= Len(a)
    BY <1>1, <1>7 DEF Whole
  <2>2. SubSeq(b, Offset(a) + 1, Offset(a) + plen(a))
          = SubSeq(a, Offset(a) + 1, Offset(a) + plen(a))
    <3>1. /\ Offset(a) + 1 \in Nat /\ Offset(a) + 1 >= 1
          /\ Offset(a) + plen(a) \in Nat
      BY <1>4, SMTT(30)
    <3> QED
      BY <2>1, <3>1, PartAgrees
  <2>3. HasMask(a) => MaskKey(b) = MaskKey(a)
    <3>1. SUFFICES ASSUME HasMask(a)
                   PROVE  MaskKey(b) = MaskKey(a)
      OBVIOUS
    <3>2. ExtraLength(a) \in Nat /\ Offset(a) = 6 + ExtraLength(a)
      BY <1>1, <3>1, HeaderTypes DEF Offset, KeyLength, Forms
    <3>3. Offset(a) - 3 \in Nat /\ Offset(a) - 3 >= 1 /\ Offset(a) \in Nat
      BY <3>2, SMTT(30)
    <3>4. Offset(a) <= Len(a)
      BY <1>4
    <3>5. SubSeq(b, Offset(a) - 3, Offset(a)) = SubSeq(a, Offset(a) - 3, Offset(a))
      BY <3>3, <3>4, PartAgrees
    <3> QED
      BY <1>2, <3>5 DEF MaskKey
  <2>4. PayloadOf(b) = PayloadOf(a)
    BY <1>2, <1>3, <1>7, <2>2, <2>3 DEF PayloadOf
  <2>5. Used(b) = Used(a)
    BY <1>2, <1>3, <1>7 DEF Used
  <2> QED
    BY <1>2, <2>4, <2>5 DEF parse_frame
<1> QED
  BY <1>3, <1>6, <1>7

-----------------------------------------------------------------------------
(* Lengths as bytes.                                                       *)

\* A number below 256, from its quotients.
LEMMA Remainder == \A n \in Nat : n % 256 \in 0 .. 255 /\ n \div 256 \in Nat
OBVIOUS

\* A number is its quotient and its remainder.
LEMMA ThenRestores == \A n \in Nat : Then(n \div 256, n % 256) = n
BY DEF Then

\* htons and htobe64 give bytes.
LEMMA BytesTypes ==
  ASSUME NEW n \in Nat
  PROVE  /\ IsBuffer(Bytes2(n)) /\ Len(Bytes2(n)) = 2
         /\ IsBuffer(Bytes8(n)) /\ Len(Bytes8(n)) = 8
<1>1. (n \div 256) % 256 \in ByteVal /\ n % 256 \in ByteVal
  BY Remainder DEF ByteVal
<1>2. IsBuffer(Bytes2(n)) /\ Len(Bytes2(n)) = 2
  BY <1>1 DEF Bytes2, IsBuffer
<1>3. \A i \in 1 .. 8 : Shifted(n)[i] \in Nat
  <2> DEFINE a == n \div 256  b == a \div 256  c == b \div 256  d == c \div 256
             e == d \div 256  f == e \div 256  g == f \div 256
  <2>1. a \in Nat /\ b \in Nat /\ c \in Nat /\ d \in Nat /\ e \in Nat /\ f \in Nat /\ g \in Nat
    BY Remainder
  <2>2. Shifted(n) = <<g, f, e, d, c, b, a, n>>
    BY DEF Shifted
  <2> HIDE DEF a, b, c, d, e, f, g
  <2> QED
    BY <2>1, <2>2
<1>4. \A i \in 1 .. 8 : Bytes8(n)[i] \in ByteVal
  BY <1>3, Remainder DEF Bytes8, ByteVal
<1>5. IsBuffer(Bytes8(n)) /\ Len(Bytes8(n)) = 8
  <2>1. Bytes8(n) \in [1 .. 8 -> ByteVal]
    BY <1>4 DEF Bytes8
  <2>2. Bytes8(n) \in Seq(ByteVal)
    BY <2>1, SeqDef
  <2>3. Len(Bytes8(n)) = 8
    BY <2>1, <2>2, LenProperties
  <2> QED
    BY <2>2, <2>3 DEF IsBuffer
<1> QED
  BY <1>2, <1>5

\* htobe64 of what be64toh has read gives the bytes read.
LEMMA BytesOfValue8 ==
  ASSUME NEW b, \A i \in 3 .. 10 : b[i] \in 0 .. 255 /\ b[i] \in Nat
  PROVE  Bytes8(Value8(b)) = [i \in 1 .. 8 |-> b[i + 2]]
<1> DEFINE v1 == b[3]              v2 == Then(v1, b[4])
           v3 == Then(v2, b[5])    v4 == Then(v3, b[6])
           v5 == Then(v4, b[7])    v6 == Then(v5, b[8])
           v7 == Then(v6, b[9])    v8 == Then(v7, b[10])
<1>1. ASSUME NEW v \in Nat, NEW i \in 3 .. 10
      PROVE  /\ Then(v, b[i]) \in Nat
             /\ Then(v, b[i]) \div 256 = v /\ Then(v, b[i]) % 256 = b[i]
  <2>1. b[i] \in 0 .. 255 /\ b[i] \in Nat
    OBVIOUS
  <2>2. Then(v, b[i]) \in Nat
    BY <2>1, ThenType
  <2>3. Then(v, b[i]) \div 256 = v /\ Then(v, b[i]) % 256 = b[i]
    BY <2>1, SMTT(30) DEF Then
  <2> QED
    BY <2>2, <2>3
<1>2. v1 \in Nat /\ v1 % 256 = b[3]
  <2>1. b[3] \in 0 .. 255
    OBVIOUS
  <2> QED
    BY <2>1, SMTT(30)
<1>3. v2 \in Nat /\ v2 \div 256 = v1 /\ v2 % 256 = b[4]
  BY <1>1, <1>2
<1>4. v3 \in Nat /\ v3 \div 256 = v2 /\ v3 % 256 = b[5]
  BY <1>1, <1>3
<1>5. v4 \in Nat /\ v4 \div 256 = v3 /\ v4 % 256 = b[6]
  BY <1>1, <1>4
<1>6. v5 \in Nat /\ v5 \div 256 = v4 /\ v5 % 256 = b[7]
  BY <1>1, <1>5
<1>7. v6 \in Nat /\ v6 \div 256 = v5 /\ v6 % 256 = b[8]
  BY <1>1, <1>6
<1>8. v7 \in Nat /\ v7 \div 256 = v6 /\ v7 % 256 = b[9]
  BY <1>1, <1>7
<1>9. v8 \in Nat /\ v8 \div 256 = v7 /\ v8 % 256 = b[10]
  BY <1>1, <1>8
<1>10. Value8(b) = v8
  BY DEF Value8, Value4, Value2
<1> HIDE DEF v1, v2, v3, v4, v5, v6, v7, v8
<1>11. Shifted(v8) = <<v1, v2, v3, v4, v5, v6, v7, v8>>
  BY <1>3, <1>4, <1>5, <1>6, <1>7, <1>8, <1>9 DEF Shifted
<1>12. \A i \in 1 .. 8 : Shifted(v8)[i] % 256 = b[i + 2]
  BY <1>2, <1>3, <1>4, <1>5, <1>6, <1>7, <1>8, <1>9, <1>11
<1> QED
  BY <1>10, <1>12 DEF Bytes8

-----------------------------------------------------------------------------
(* What parse_frame accepts is the encoding of the frame it fills in.      *)

\* A byte is its first bit and the other seven, or its first and last four bits.
LEMMA Bits ==
  \A x \in 0 .. 255 :
    /\ x % 256 = x
    /\ (IF x >= 128 THEN 128 ELSE 0) + (x % 128) = x
    /\ x % 16 \in 0 .. 15
    /\ ((IF x >= 128 THEN 128 ELSE 0) + (x % 16)) \div 128 = x \div 128
    /\ ((IF x >= 128 THEN 128 ELSE 0) + (x % 16)) % 16 = x % 16
    /\ (IF x >= 128 THEN 128 ELSE 0) + (x % 16) \in 0 .. 255
OBVIOUS

\* Two adjacent parts of a buffer make one.
LEMMA Joined ==
  ASSUME NEW b, IsBuffer(b), NEW m \in Nat, NEW n \in Nat, NEW k \in Nat,
         1 <= m, m <= n + 1, n <= k, k <= Len(b)
  PROVE  SubSeq(b, m, n) \o SubSeq(b, n + 1, k) = SubSeq(b, m, k)
<1>1. Len(b) \in Nat
  BY BufferTypes
<1>2. m \in 1 .. Len(b) + 1 /\ n \in m - 1 .. Len(b) /\ k \in n .. Len(b)
  BY <1>1
<1> QED
  BY <1>2, ConcatAdjacentSubSeq DEF IsBuffer

\* The bytes of the length are what other peers write for that length.
LEMMA LengthReencoded ==
  ASSUME NEW b, IsBuffer(b), HasHeader(b)
  PROVE  /\ Extended(plen(b), ExtraLength(b)) = SubSeq(b, 3, 2 + ExtraLength(b))
         /\ (IF HasMask(b) THEN 128 ELSE 0) + Announced(plen(b), ExtraLength(b)) = b[2]
<1>1. /\ Len(b) \in Nat /\ b[2] \in 0 .. 255 /\ Field(b) \in 0 .. 127
      /\ ExtraLength(b) \in {0, 2, 8}
      /\ 2 + ExtraLength(b) <= Len(b)
  <2>1. /\ Len(b) \in Nat /\ b[2] \in 0 .. 255 /\ Field(b) \in 0 .. 127
        /\ ExtraLength(b) \in {0, 2, 8} /\ KeyLength(b) \in {0, 4} /\ Offset(b) <= Len(b)
    BY HeaderTypes DEF ByteVal, Forms
  <2> QED
    BY <2>1 DEF Offset
<1>2. \A i \in 1 .. Len(b) : b[i] \in 0 .. 255 /\ b[i] \in Nat
  BY BufferTypes
<1>3. (IF HasMask(b) THEN 128 ELSE 0) + Field(b) = b[2]
  BY <1>1, Bits DEF HasMask, Field
<1>4. CASE Field(b) = 126
  <2>1. ExtraLength(b) = 2 /\ plen(b) = Value2(b)
    BY <1>4 DEF ExtraLength, plen
  <2>2. b[3] \in 0 .. 255 /\ b[3] \in Nat /\ b[4] \in 0 .. 255 /\ 4 <= Len(b)
    BY <1>1, <1>2, <2>1, SMTT(30)
  <2>3. Value2(b) \div 256 = b[3] /\ Value2(b) % 256 = b[4]
    <3>1. Then(b[3], b[4]) \div 256 = b[3] /\ Then(b[3], b[4]) % 256 = b[4]
      <4>1. b[3] \in Nat /\ b[4] \in 0 .. 255
        BY <2>2, SMTT(30)
      <4> QED
        BY <4>1, ThenDivided, SMTT(30)
    <3> QED
      BY <3>1 DEF Value2
  <2>4. b[3] % 256 = b[3]
    BY <2>2, Bits
  <2>5. Bytes2(Value2(b)) = <<b[3], b[4]>>
    BY <2>3, <2>4 DEF Bytes2
  <2>6. SubSeq(b, 3, 4) = <<b[3], b[4]>>
    <3>1. /\ IsBuffer(SubSeq(b, 3, 4)) /\ Len(SubSeq(b, 3, 4)) = (IF 3 <= 4 THEN 4 - 3 + 1 ELSE 0)
          /\ \A i \in 1 .. 4 - 3 + 1 : SubSeq(b, 3, 4)[i] = b[3 + i - 1]
      BY <2>2, PartTypes
    <3>2. Len(SubSeq(b, 3, 4)) = 2 /\ SubSeq(b, 3, 4)[1] = b[3] /\ SubSeq(b, 3, 4)[2] = b[4]
      BY <3>1
    <3>3. <<b[3], b[4]>> \in Seq(ByteVal) /\ Len(<<b[3], b[4]>>) = 2
      BY <2>2 DEF ByteVal
    <3>4. \A i \in 1 .. 2 : SubSeq(b, 3, 4)[i] = <<b[3], b[4]>>[i]
      BY <3>2
    <3> QED
      BY <3>1, <3>2, <3>3, <3>4, SeqEqual DEF IsBuffer
  <2> QED
    BY <1>3, <1>4, <2>1, <2>5, <2>6 DEF Extended, Announced
<1>5. CASE Field(b) = 127
  <2>1. ExtraLength(b) = 8 /\ plen(b) = Value8(b)
    BY <1>5 DEF ExtraLength, plen
  <2>2. 10 <= Len(b)
    BY <1>1, <2>1
  <2>3. \A i \in 3 .. 10 : b[i] \in 0 .. 255 /\ b[i] \in Nat
    BY <1>1, <1>2, <2>2
  <2>4. Bytes8(Value8(b)) = [i \in 1 .. 8 |-> b[i + 2]]
    BY <2>3, BytesOfValue8
  <2>5. Value8(b) \in Nat
    BY <2>3, ValueTypes
  <2>6. IsBuffer(Bytes8(Value8(b))) /\ Len(Bytes8(Value8(b))) = 8
    BY <2>5, BytesTypes
  <2>7. /\ IsBuffer(SubSeq(b, 3, 10)) /\ Len(SubSeq(b, 3, 10)) = (IF 3 <= 10 THEN 10 - 3 + 1 ELSE 0)
        /\ \A i \in 1 .. 10 - 3 + 1 : SubSeq(b, 3, 10)[i] = b[3 + i - 1]
    BY <2>2, PartTypes
  <2>8. Len(SubSeq(b, 3, 10)) = 8 /\ \A i \in 1 .. 8 : SubSeq(b, 3, 10)[i] = b[i + 2]
    BY <2>7
  <2>9. \A i \in 1 .. 8 : Bytes8(Value8(b))[i] = SubSeq(b, 3, 10)[i]
    BY <2>4, <2>8
  <2>10. Bytes8(Value8(b)) = SubSeq(b, 3, 10)
    BY <2>6, <2>7, <2>8, <2>9, SeqEqual DEF IsBuffer
  <2> QED
    BY <1>3, <1>5, <2>1, <2>10 DEF Extended, Announced
<1>6. CASE Field(b) # 126 /\ Field(b) # 127
  <2>1. ExtraLength(b) = 0 /\ plen(b) = Field(b)
    BY <1>6 DEF ExtraLength, plen
  <2>2. SubSeq(b, 3, 2) = <<>>
    BY SubSeqEmpty
  <2> QED
    BY <1>3, <2>1, <2>2 DEF Extended, Announced
<1> QED
  BY <1>4, <1>5, <1>6

\* Masking keeps the length, and a second time it restores the payload.
LEMMA MaskedTwice ==
  ASSUME NEW s, IsBuffer(s), NEW key, IsBuffer(key), Len(key) = 4
  PROVE  /\ IsBuffer(Masked(s, key)) /\ Len(Masked(s, key)) = Len(s)
         /\ Masked(Masked(s, key), key) = s
<1> DEFINE k(i) == key[((i - 1) % 4) + 1]
<1>1. /\ Len(s) \in Nat
      /\ \A i \in 1 .. Len(s) : s[i] \in ByteVal
      /\ \A j \in 1 .. 4 : key[j] \in ByteVal
  BY BufferTypes DEF ByteVal
<1>2. ASSUME NEW i \in 1 .. Len(s)
      PROVE  k(i) \in ByteVal
  <2>1. ((i - 1) % 4) + 1 \in 1 .. 4
    BY <1>1
  <2> QED
    BY <1>1, <2>1
<1> DEFINE m == [i \in 1 .. Len(s) |-> xor(s[i], k(i))]
<1>3. Masked(s, key) = m
  BY DEF Masked
<1> HIDE DEF k
<1>4. m \in [1 .. Len(s) -> ByteVal] /\ \A i \in 1 .. Len(s) : xor(m[i], k(i)) = s[i]
  BY <1>1, <1>2, XorAssumption
<1> HIDE DEF m
<1>5. m \in Seq(ByteVal)
  BY <1>1, <1>4, SeqDef
<1>6. Len(m) = Len(s)
  BY <1>1, <1>4, <1>5, LenProperties
<1>7. Masked(m, key) = [i \in 1 .. Len(m) |-> xor(m[i], k(i))]
  BY DEF Masked, k
<1>8. Masked(m, key) = [i \in 1 .. Len(s) |-> s[i]]
  BY <1>4, <1>6, <1>7
<1>9. s = [i \in 1 .. Len(s) |-> s[i]]
  BY LenProperties DEF IsBuffer
<1> QED
  BY <1>3, <1>5, <1>6, <1>8, <1>9 DEF IsBuffer

\* The frame filled in, written out again by any other peer, is what was read.
LEMMA Reencoded ==
  ASSUME NEW b, IsBuffer(b), Parses(b), ~Oversize(b)
  PROVE  LET p   == parse_frame(b)
             key == IF HasMask(b) THEN MaskKey(b) ELSE <<>>
             x   == (IF p.frame.fin THEN 128 ELSE 0) + p.frame.opcode
         IN  /\ p.used \in 2 .. Len(b) /\ p.frame \in Frame
             /\ Encoded(p.frame, ExtraLength(b), key) = <<x, b[2]>> \o SubSeq(b, 3, p.used)
<1> DEFINE p   == parse_frame(b)
           off == Offset(b)
           key == IF HasMask(b) THEN MaskKey(b) ELSE <<>>
           got == SubSeq(b, off + 1, off + plen(b))
           x   == (IF p.frame.fin THEN 128 ELSE 0) + p.frame.opcode
<1>1. HasHeader(b) /\ off + plen(b) <= Len(b)
  BY DEF Parses, Whole
<1>2. /\ Len(b) \in Nat /\ plen(b) \in Nat /\ off \in 2 .. 14 /\ off <= Len(b)
      /\ b[1] \in 0 .. 255
      /\ ExtraLength(b) \in {0, 2, 8} /\ KeyLength(b) \in {0, 4}
      /\ off = 2 + ExtraLength(b) + KeyLength(b)
  BY <1>1, HeaderTypes DEF Forms, ByteVal, Offset
<1>3. IsBuffer(got) /\ Len(got) = plen(b)
  <2>1. off + 1 \in Nat /\ off + plen(b) \in Nat /\ off + 1 >= 1
    BY <1>2, SMTT(30)
  <2>2. IsBuffer(got) /\ Len(got) = IF off + 1 <= off + plen(b)
                                    THEN (off + plen(b)) - (off + 1) + 1 ELSE 0
    BY <1>1, <2>1, PartTypes
  <2> HIDE DEF off, got
  <2>3. Len(got) = plen(b)
    BY <1>2, <2>2
  <2> QED
    BY <2>2, <2>3
<1>4. /\ IsBuffer(p.frame.payload) /\ Len(p.frame.payload) = plen(b)
      /\ Body(p.frame.payload, key) = got
      /\ key = SubSeq(b, 3 + ExtraLength(b), off) /\ IsBuffer(key)
      /\ key = <<>> <=> ~HasMask(b)
  <2>1. CASE HasMask(b)
    <3>1. key = MaskKey(b) /\ KeyLength(b) = 4
      BY <2>1 DEF KeyLength
    <3>2. off - 3 \in Nat /\ off \in Nat /\ off - 3 >= 1 /\ off - 3 = 3 + ExtraLength(b)
      BY <1>2, <3>1
    <3>3. /\ IsBuffer(SubSeq(b, off - 3, off))
          /\ Len(SubSeq(b, off - 3, off)) = IF off - 3 <= off THEN off - (off - 3) + 1 ELSE 0
      BY <1>2, <3>2, PartTypes
    <3>4. IsBuffer(key) /\ Len(key) = 4 /\ key = SubSeq(b, 3 + ExtraLength(b), off)
      BY <3>1, <3>2, <3>3 DEF MaskKey
    <3>5. key # <<>>
      BY <3>4
    <3>6. p.frame.payload = Masked(got, key)
      BY <2>1, <3>1 DEF parse_frame, PayloadOf
    <3> HIDE DEF p, off, got, key
    <3>7. /\ IsBuffer(Masked(got, key)) /\ Len(Masked(got, key)) = Len(got)
          /\ Masked(Masked(got, key), key) = got
      BY <1>3, <3>4, MaskedTwice
    <3>8. Body(p.frame.payload, key) = got
      BY <3>5, <3>6, <3>7 DEF Body
    <3> QED
      BY <1>3, <2>1, <3>4, <3>5, <3>6, <3>7, <3>8
  <2>2. CASE ~HasMask(b)
    <3>1. key = <<>> /\ off = 2 + ExtraLength(b)
      BY <1>2, <2>2 DEF KeyLength
    <3>2. SubSeq(b, 3 + ExtraLength(b), off) = <<>>
      BY <1>2, <3>1, SubSeqEmpty
    <3>3. p.frame.payload = got
      BY <2>2 DEF parse_frame, PayloadOf
    <3> QED
      BY <1>3, <2>2, <3>1, <3>2, <3>3, EmptySeq DEF Body, IsBuffer
  <2> QED
    BY <2>1, <2>2
<1>5. /\ p.used = off + plen(b)
      /\ p.frame.fin \in BOOLEAN /\ (p.frame.fin <=> b[1] >= 128)
      /\ p.frame.opcode = b[1] % 16
      /\ p.frame = [fin |-> p.frame.fin, opcode |-> p.frame.opcode, payload |-> p.frame.payload]
  <2>1. p = [frame |-> [fin |-> b[1] >= 128, opcode |-> b[1] % 16, payload |-> PayloadOf(b)],
             used |-> Used(b)]
    BY DEF parse_frame
  <2>2. Used(b) = off + plen(b)
    BY DEF Used
  <2> HIDE DEF p, off
  <2>3. p.used = off + plen(b) /\ p.frame.opcode = b[1] % 16
    BY <2>1, <2>2
  <2>4. p.frame.fin \in BOOLEAN /\ (p.frame.fin <=> b[1] >= 128)
    <3>1. p.frame.fin = (b[1] >= 128)
      BY <2>1
    <3>2. CASE b[1] >= 128
      BY <3>1, <3>2
    <3>3. CASE ~(b[1] >= 128)
      <4>1. (b[1] >= 128) = FALSE
        BY <3>3
      <4>2. p.frame.fin = FALSE
        BY <3>1, <4>1
      <4> QED
        BY <3>3, <4>2
    <3> QED
      BY <3>2, <3>3
  <2>5. p.frame = [fin |-> p.frame.fin, opcode |-> p.frame.opcode, payload |-> p.frame.payload]
    BY <2>1
  <2> QED
    BY <2>3, <2>4, <2>5
<1> HIDE DEF p, off, got, key
<1>6. p.used \in 2 .. Len(b) /\ p.frame \in Frame
  <2>1. p.used \in 2 .. Len(b)
    BY <1>1, <1>2, <1>5
  <2>2. p.frame.opcode \in 0 .. 15
    <3>1. b[1] % 16 \in 0 .. 15
      BY <1>2, Bits
    <3> QED
      BY <1>5, <3>1
  <2>3. p.frame \in Frame
    BY <1>4, <1>5, <2>2 DEF Frame, IsBuffer
  <2> QED
    BY <2>1, <2>3
<1>6a. x \in 0 .. 255
  <2>1. x = (IF b[1] >= 128 THEN 128 ELSE 0) + (b[1] % 16)
    BY <1>5
  <2> HIDE DEF x
  <2> QED
    BY <1>2, <2>1, Bits
<1> HIDE DEF x
<1>7. Encoded(p.frame, ExtraLength(b), key)
        = <<x, b[2]>> \o SubSeq(b, 3, 2 + ExtraLength(b)) \o key \o got
  <2>1. /\ Extended(plen(b), ExtraLength(b)) = SubSeq(b, 3, 2 + ExtraLength(b))
        /\ (IF key = <<>> THEN 0 ELSE 128) + Announced(plen(b), ExtraLength(b)) = b[2]
    BY <1>1, <1>4, LengthReencoded
  <2> QED
    BY <1>4, <2>1 DEF Encoded, x
<1>8. <<x, b[2]>> \o SubSeq(b, 3, 2 + ExtraLength(b)) \o key \o got
        = <<x, b[2]>> \o SubSeq(b, 3, p.used)
  <2> DEFINE e == 2 + ExtraLength(b)
             h == <<x, b[2]>>
             l == SubSeq(b, 3, e)
  <2>1. /\ e \in Nat /\ e + 1 = 3 + ExtraLength(b) /\ 3 <= e + 1 /\ e <= off /\ off <= p.used
        /\ e <= Len(b) /\ off \in Nat /\ off <= Len(b) /\ p.used \in Nat /\ p.used <= Len(b)
        /\ e + 1 \in Nat /\ 3 <= off + 1
    BY <1>1, <1>2, <1>5, SMTT(30)
  <2>2. h \in Seq(ByteVal)
    BY <1>1, <1>6a, HeaderTypes DEF ByteVal
  <2> HIDE DEF e
  <2>3. l \in Seq(ByteVal) /\ key \in Seq(ByteVal) /\ got \in Seq(ByteVal)
    <3>1. IsBuffer(l)
      BY <2>1, PartTypes, 3 \in Nat, 3 >= 1
    <3> QED
      BY <1>3, <1>4, <3>1 DEF IsBuffer
  <2> HIDE DEF h
  <2>4. l \o key = SubSeq(b, 3, off)
    <3>1. SubSeq(b, 3, e) \o SubSeq(b, e + 1, off) = SubSeq(b, 3, off)
      BY <2>1, Joined, 1 <= 3, 3 \in Nat
    <3>2. key = SubSeq(b, e + 1, off)
      BY <1>4, <2>1
    <3> QED
      BY <3>1, <3>2
  <2>5. SubSeq(b, 3, off) \o got = SubSeq(b, 3, p.used)
    <3>1. SubSeq(b, 3, off) \o SubSeq(b, off + 1, p.used) = SubSeq(b, 3, p.used)
      BY <2>1, Joined, 1 <= 3, 3 \in Nat
    <3>2. got = SubSeq(b, off + 1, p.used)
      BY <1>5 DEF got
    <3> QED
      BY <3>1, <3>2
  <2> HIDE DEF l
  <2>6. h \o l \o key \o got = h \o (l \o key \o got)
    <3>1. l \o key \in Seq(ByteVal)
      BY <2>3, ConcatProperties
    <3>2. h \o l \o key = h \o (l \o key)
      BY <2>2, <2>3, ConcatAssociative
    <3>3. h \o (l \o key) \o got = h \o (l \o key \o got)
      BY <2>2, <2>3, <3>1, ConcatAssociative, SMTT(30)
    <3> QED
      BY <3>2, <3>3
  <2> QED
    BY <2>4, <2>5, <2>6 DEF e, h, l
<1> QED
  BY <1>6, <1>7, <1>8 DEF p, key, x, off, got

\* A byte in front of a buffer is its first.
LEMMA FirstOf ==
  ASSUME NEW x, <<x>> \in Seq(ByteVal), NEW s \in Seq(ByteVal)
  PROVE  (<<x>> \o s)[1] = x /\ Tail(<<x>> \o s) = s
<1>1. /\ <<x>> \o s \in Seq(ByteVal) /\ Len(<<x>> \o s) = 1 + Len(s) /\ Len(s) \in Nat
      /\ \A i \in 1 .. 1 + Len(s) : (<<x>> \o s)[i] = IF i <= 1 THEN x ELSE s[i - 1]
  <2>1. Len(<<x>>) = 1 /\ <<x>>[1] = x
    OBVIOUS
  <2> QED
    BY <2>1, ConcatProperties, LenProperties
<1>2. (<<x>> \o s)[1] = x /\ <<x>> \o s # <<>>
  BY <1>1
<1>3. /\ Tail(<<x>> \o s) \in Seq(ByteVal) /\ Len(Tail(<<x>> \o s)) = Len(s)
      /\ \A i \in 1 .. Len(s) : Tail(<<x>> \o s)[i] = (<<x>> \o s)[i + 1]
  BY <1>1, <1>2, HeadTailProperties
<1>4. \A i \in 1 .. Len(s) : Tail(<<x>> \o s)[i] = s[i]
  BY <1>1, <1>3
<1> QED
  BY <1>2, <1>3, <1>4, SeqEqual

-----------------------------------------------------------------------------
(* The specification.                                                      *)

\* Whatever arrives are bytes behind what has arrived before.
LEMMA SomeArrive ==
  ASSUME TypeOK, Arrive
  PROVE  \E s \in Seq(ByteVal) : buf' = buf \o s
<1>1. Len(buf) \in 0 .. MaxBytes
  <2>1. Len(buf) \in Nat /\ Len(buf) < MaxBytes /\ MaxBytes \in Nat
    BY SegmentsAssumption, LenProperties DEF TypeOK, Arrive
  <2> QED
    BY <2>1, SMT
<1>2. Segments(Len(buf)) \subseteq Seq(ByteVal)
  BY <1>1, SegmentsAssumption
<1> QED
  BY <1>2 DEF Arrive

\* What has arrived are bytes.
THEOREM BytesArrive == Spec => []TypeOK
<1>1. Init => TypeOK
  BY EmptySeq DEF Init, TypeOK
<1>2. TypeOK /\ [Arrive]_buf => TypeOK'
  <2>1. ASSUME TypeOK, NEW s \in Seq(ByteVal), buf' = buf \o s
        PROVE  TypeOK'
    BY <2>1, ConcatProperties DEF TypeOK
  <2> QED
    BY <2>1, SomeArrive DEF TypeOK
<1> QED
  BY <1>1, <1>2, PTL DEF Spec

\* parse_frame does not change its mind, whatever bytes arrive in whatever
\* segments: a frame it has accepted stays, and one found oversize stays so.
THEOREM SettlesHolds == Spec => Settles
<1>1. ASSUME TypeOK, [Arrive]_buf
      PROVE  [Parses(buf) =>
                /\ Parses(buf')
                /\ Oversize(buf') = Oversize(buf)
                /\ ~Oversize(buf) => parse_frame(buf') = parse_frame(buf)]_buf
  <2>1. CASE UNCHANGED buf
    BY <2>1
  <2>2. ASSUME NEW s \in Seq(ByteVal), buf' = buf \o s
        PROVE  Parses(buf) =>
                 /\ Parses(buf')
                 /\ Oversize(buf') = Oversize(buf)
                 /\ ~Oversize(buf) => parse_frame(buf') = parse_frame(buf)
    <3>1. IsBuffer(buf) /\ IsBuffer(s)
      BY <1>1, <2>2 DEF TypeOK, IsBuffer
    <3>2. IsBuffer(buf') /\ Begins(buf, buf')
      BY <2>2, <3>1, ConcatProperties, LenProperties DEF IsBuffer, Begins
    <3> QED
      BY <3>1, <3>2, Settled
  <2> QED
    BY <1>1, <2>1, <2>2, SomeArrive
<1> QED
  BY <1>1, BytesArrive, PTL DEF Spec, Settles

\* Whatever bytes parse_frame accepts, they are the encoding of the frame it fills
\* in: none is dropped, changed or taken from the next frame.
THEOREM ReencodesHolds == Spec => []Reencodes
<1>1. ASSUME TypeOK
      PROVE  Reencodes
  <2> DEFINE p == parse_frame(buf)
             e == Encoded(p.frame, ExtraLength(buf), KeyOf)
             x == (IF p.frame.fin THEN 128 ELSE 0) + p.frame.opcode
  <2>1. SUFFICES ASSUME Parses(buf), ~Oversize(buf)
                 PROVE  /\ p.used <= Len(buf)
                        /\ p.frame \in Frame
                        /\ Tail(e) = Tail(SubSeq(buf, 1, p.used))
                        /\ e[1] \div 128 = buf[1] \div 128 /\ e[1] % 16 = buf[1] % 16
    BY DEF Reencodes
  <2>2. IsBuffer(buf) /\ Len(buf) \in Nat
    BY <1>1, BufferTypes DEF TypeOK, IsBuffer
  <2>3. /\ p.used \in 2 .. Len(buf) /\ p.frame \in Frame
        /\ e = <<x, buf[2]>> \o SubSeq(buf, 3, p.used)
    BY <2>1, <2>2, Reencoded DEF KeyOf
  <2>4. /\ buf[1] \in 0 .. 255 /\ buf[2] \in 0 .. 255
        /\ p.frame.fin = (buf[1] >= 128) /\ p.frame.opcode = buf[1] % 16
    BY <2>1, <2>2, HeaderTypes DEF Parses, parse_frame, ByteVal
  <2>5. /\ x \in 0 .. 255
        /\ x \div 128 = buf[1] \div 128 /\ x % 16 = buf[1] % 16
    <3>1. x = (IF buf[1] >= 128 THEN 128 ELSE 0) + (buf[1] % 16)
      BY <2>4
    <3> HIDE DEF x
    <3> QED
      BY <2>4, <3>1, Bits
  <2> HIDE DEF p, e, x
  <2>6. e[1] = x /\ Tail(e) = <<buf[2]>> \o SubSeq(buf, 3, p.used)
    <3>1. SubSeq(buf, 3, p.used) \in Seq(ByteVal)
      BY <2>2, <2>3, PartTypes DEF IsBuffer
    <3>2. /\ <<x>> \in Seq(ByteVal) /\ <<buf[2]>> \in Seq(ByteVal)
          /\ <<x, buf[2]>> = <<x>> \o <<buf[2]>>
      BY <2>4, <2>5 DEF ByteVal
    <3>3. e = <<x>> \o (<<buf[2]>> \o SubSeq(buf, 3, p.used))
      BY <2>3, <3>1, <3>2, ConcatAssociative, SMTT(30)
    <3>4. <<buf[2]>> \o SubSeq(buf, 3, p.used) \in Seq(ByteVal)
      BY <3>1, <3>2, ConcatProperties
    <3> QED
      BY <3>2, <3>3, <3>4, FirstOf
  <2>7. Tail(SubSeq(buf, 1, p.used)) = <<buf[2]>> \o SubSeq(buf, 3, p.used)
    <3>1. /\ 1 \in 1 .. Len(buf) /\ 2 \in 1 .. Len(buf)
          /\ p.used \in 1 .. Len(buf) /\ p.used \in 2 .. Len(buf)
      BY <2>2, <2>3
    <3>2. Tail(SubSeq(buf, 1, p.used)) = SubSeq(buf, 1 + 1, p.used)
      BY <2>2, <3>1, HeadTailOfSubSeq DEF IsBuffer
    <3>3. SubSeq(buf, 2, p.used) = <<buf[2]>> \o SubSeq(buf, 2 + 1, p.used)
      BY <2>2, <3>1, SubSeqRecursiveFirst DEF IsBuffer
    <3>4. 1 + 1 = 2 /\ 2 + 1 = 3
      OBVIOUS
    <3> QED
      BY <3>2, <3>3, <3>4
  <2>8. p.used <= Len(buf)
    BY <2>2, <2>3
  <2>9. e[1] \div 128 = buf[1] \div 128 /\ e[1] % 16 = buf[1] % 16
    BY <2>5, <2>6
  <2> QED
    BY <2>3, <2>6, <2>7, <2>8, <2>9
<1> QED
  BY <1>1, BytesArrive, PTL

-----------------------------------------------------------------------------
(* parse_frame reads what build_frame and other peers write, for all        *)
(* frames, keys and bytes behind them.                                      *)

\* The length of a payload in a form that can hold it.
Fits(n, form) ==
  /\ form \in Forms
  /\ form = 0 => n <= 125
  /\ form = 2 => n <= 65535

\* A frame, and a form and a key to write it in.
IsEncoding(f, form, key) ==
  /\ f \in Frame /\ Len(f.payload) <= OversizeLimit
  /\ Fits(Len(f.payload), form) /\ key \in MaskKeys

\* Part s stands behind the first n bytes of d.
Stands(d, n, s) == \A i \in 1 .. Len(s) : d[n + i] = s[i]

LEMMA StandsIn ==
  ASSUME NEW a, IsBuffer(a), NEW s, IsBuffer(s)
  PROVE  /\ IsBuffer(a \o s) /\ Len(a \o s) = Len(a) + Len(s)
         /\ Begins(a, a \o s) /\ Stands(a \o s, Len(a), s)
<1>1. /\ IsBuffer(a \o s) /\ Len(a \o s) = Len(a) + Len(s)
      /\ \A i \in 1 .. Len(a) + Len(s) :
           (a \o s)[i] = IF i <= Len(a) THEN a[i] ELSE s[i - Len(a)]
  BY ConcatProperties DEF IsBuffer
<1>2. Len(a) \in Nat /\ Len(s) \in Nat
  BY BufferTypes
<1> QED
  BY <1>1, <1>2 DEF Begins, Stands

\* What stands in a buffer stands in a longer one, and is a part of it.
LEMMA StandsLonger ==
  ASSUME NEW a, IsBuffer(a), NEW b, Begins(a, b), NEW n \in Nat, NEW s, IsBuffer(s),
         Stands(a, n, s), n + Len(s) <= Len(a)
  PROVE  Stands(b, n, s)
<1>1. Len(a) \in Nat /\ Len(s) \in Nat
  BY BufferTypes
<1> QED
  BY <1>1 DEF Stands, Begins

LEMMA StandsPart ==
  ASSUME NEW d, IsBuffer(d), NEW n \in Nat, NEW s, IsBuffer(s), Stands(d, n, s),
         n + Len(s) <= Len(d)
  PROVE  SubSeq(d, n + 1, n + Len(s)) = s
<1>1. Len(d) \in Nat /\ Len(s) \in Nat /\ n + 1 \in Nat /\ n + Len(s) \in Nat /\ n + 1 >= 1
  BY BufferTypes
<1> DEFINE p == SubSeq(d, n + 1, n + Len(s))
<1>2. /\ IsBuffer(p)
      /\ Len(p) = IF n + 1 <= n + Len(s) THEN (n + Len(s)) - (n + 1) + 1 ELSE 0
      /\ \A i \in 1 .. (n + Len(s)) - (n + 1) + 1 : p[i] = d[n + 1 + i - 1]
  BY <1>1, PartTypes
<1> HIDE DEF p
<1>3. Len(p) = Len(s) /\ \A i \in 1 .. Len(s) : p[i] = d[n + i]
  BY <1>1, <1>2
<1>4. \A i \in 1 .. Len(s) : p[i] = s[i]
  BY <1>3 DEF Stands
<1>5. p = s
  BY <1>2, <1>3, <1>4, SeqEqual DEF IsBuffer
<1> QED
  BY <1>5 DEF p

-----------------------------------------------------------------------------
(* The parts of an encoding.                                               *)

\* be64toh and ntohs read the length htobe64 and htons have written.
LEMMA Value2Restores ==
  ASSUME NEW n \in Nat, n \div 256 \in 0 .. 255, NEW d, Stands(d, 2, Bytes2(n))
  PROVE  Value2(d) = n
<1>1. d[3] = Bytes2(n)[1] /\ d[4] = Bytes2(n)[2]
  <2>1. Len(Bytes2(n)) = 2
    BY BytesTypes
  <2> QED
    BY <2>1 DEF Stands
<1>2. \A x \in 0 .. 255 : x % 256 = x
  OBVIOUS
<1>3. (n \div 256) % 256 = n \div 256
  BY <1>2, Zenon
<1>4. Bytes2(n)[1] = n \div 256 /\ Bytes2(n)[2] = n % 256
  BY <1>3 DEF Bytes2
<1> QED
  BY <1>1, <1>4, ThenRestores, Zenon DEF Value2

LEMMA Value8Restores ==
  ASSUME NEW n \in Nat, n <= OversizeLimit, NEW d, Stands(d, 2, Bytes8(n))
  PROVE  Value8(d) = n
<1>1. \A i \in 1 .. 8 : d[2 + i] = Shifted(n)[i] % 256
  <2>1. Len(Bytes8(n)) = 8
    BY BytesTypes
  <2> QED
    BY <2>1 DEF Stands, Bytes8
<1> DEFINE a == n \div 256  b == a \div 256  c == b \div 256  e == c \div 256
           f == e \div 256  g == f \div 256  h == g \div 256
<1>2. n \in Nat /\ n <= 65536
  BY SMT DEF OversizeLimit
<1>3. a \in Nat /\ a <= 256 /\ Then(a, n % 256) = n
  BY <1>2, ThenRestores, SMT
<1>4. b \in Nat /\ b <= 1 /\ Then(b, a % 256) = a
  BY <1>3, ThenRestores
<1>5. b % 256 = b /\ c = 0
  BY <1>4
<1>6. e = 0 /\ f = 0 /\ g = 0 /\ h = 0
  BY <1>5
<1>7. Shifted(n) = <<h, g, f, e, c, b, a, n>>
  BY DEF Shifted
<1> HIDE DEF a, b, c, e, f, g, h
<1>8. /\ d[3] = 0 /\ d[4] = 0 /\ d[5] = 0 /\ d[6] = 0 /\ d[7] = 0
      /\ d[8] = b /\ d[9] = a % 256 /\ d[10] = n % 256
  <2>1. /\ d[2+1] = 0 % 256 /\ d[2+2] = 0 % 256 /\ d[2+3] = 0 % 256 /\ d[2+4] = 0 % 256
        /\ d[2+5] = 0 % 256 /\ d[2+6] = b % 256 /\ d[2+7] = a % 256 /\ d[2+8] = n % 256
    BY <1>1, <1>5, <1>6, <1>7
  <2> QED
    BY <2>1, <1>5
<1>9. Then(0, 0) = 0 /\ Then(0, b) = b
  BY <1>4 DEF Then
<1>10. Value4(d) = 0
  BY <1>8, <1>9 DEF Value4, Value2
<1> QED
  BY <1>3, <1>4, <1>8, <1>9, <1>10 DEF Value8

\* htons holds what fits two bytes.
LEMMA HighByte == ASSUME NEW n \in Nat, n <= 65535 PROVE n \div 256 \in 0 .. 255
BY SMT

LEMMA LengthField ==
  ASSUME NEW n \in Nat, NEW form, Fits(n, form)
  PROVE  /\ form \in {0, 2, 8} /\ Announced(n, form) \in 0 .. 127
         /\ form = 2 => n \div 256 \in 0 .. 255
         /\ IsBuffer(Extended(n, form)) /\ Len(Extended(n, form)) = form
<1>1. form = 0 \/ form = 2 \/ form = 8
  BY DEF Fits, Forms
<1>2. CASE form = 0
  <2>1. n \in 0 .. 125
    BY <1>2, SMT DEF Fits
  <2>2. Announced(n, form) = n /\ Extended(n, form) = <<>>
    BY <1>2 DEF Announced, Extended
  <2>3. IsBuffer(<<>>) /\ Len(<<>>) = 0
    BY EmptySeq DEF IsBuffer
  <2>4. n \in 0 .. 127 /\ form \in {0, 2, 8} /\ form # 2
    BY <1>2, <2>1
  <2> QED
    BY <1>2, <2>2, <2>3, <2>4, Zenon
<1>3. CASE form = 2
  <2>1. n <= 65535
    BY <1>3, SMT DEF Fits
  <2>2. n \div 256 \in 0 .. 255
    BY <2>1, HighByte, SMT
  <2>3. Announced(n, form) = 126 /\ Extended(n, form) = Bytes2(n)
    BY <1>3 DEF Announced, Extended
  <2> QED
    BY <1>3, <2>2, <2>3, BytesTypes
<1>4. CASE form = 8
  <2>2. Announced(n, form) = 127 /\ Extended(n, form) = Bytes8(n)
    BY <1>4 DEF Announced, Extended
  <2> QED
    BY <1>4, <2>2, BytesTypes
<1> QED
  BY <1>1, <1>2, <1>3, <1>4, Zenon

\* The key and the payload under it.
LEMMA KeyAndBody ==
  ASSUME NEW f, NEW form, NEW key, IsEncoding(f, form, key)
  PROVE  /\ IsBuffer(f.payload) /\ IsBuffer(key)
         /\ Len(key) = IF key = <<>> THEN 0 ELSE 4
         /\ IsBuffer(Body(f.payload, key)) /\ Len(Body(f.payload, key)) = Len(f.payload)
         /\ key # <<>> => Masked(Body(f.payload, key), key) = f.payload
<1>1. IsBuffer(f.payload)
  BY DEF IsEncoding, Frame, IsBuffer
<1>2. CASE key = <<>>
  BY <1>1, <1>2, EmptySeq DEF Body, IsBuffer
<1>3. CASE key # <<>>
  <2>1. key \in [1 .. 4 -> ByteVal]
    BY <1>3 DEF IsEncoding, MaskKeys
  <2>2. IsBuffer(key)
    BY <2>1, SeqDef DEF IsBuffer
  <2>3. Len(key) = 4
    BY <2>1, <2>2, LenProperties DEF IsBuffer
  <2> QED
    BY <1>1, <1>3, <2>2, <2>3, MaskedTwice DEF Body
<1> QED
  BY <1>2, <1>3

\* The first two bytes of an encoding.
FirstByte(f) == (IF f.fin THEN 128 ELSE 0) + f.opcode
SecondByte(f, form, key) ==
  (IF key = <<>> THEN 0 ELSE 128) + Announced(Len(f.payload), form)

LEMMA TwoFirst ==
  ASSUME NEW f, NEW form, NEW key, IsEncoding(f, form, key)
  PROVE  /\ FirstByte(f) \in 0 .. 255
         /\ (FirstByte(f) >= 128) = f.fin /\ FirstByte(f) % 16 = f.opcode
         /\ SecondByte(f, form, key) \in 0 .. 255
         /\ (SecondByte(f, form, key) >= 128) = (key # <<>>)
         /\ SecondByte(f, form, key) % 128 = Announced(Len(f.payload), form)
<1>1. f.fin \in BOOLEAN /\ f.opcode \in 0 .. 15 /\ Len(f.payload) \in Nat
  BY LenProperties DEF IsEncoding, Frame
<1>2. Announced(Len(f.payload), form) \in 0 .. 127
  BY <1>1, LengthField DEF IsEncoding
<1>3. \A x \in 0 .. 15 : /\ 128 + x \in 0 .. 255 /\ 128 + x >= 128 /\ (128 + x) % 16 = x
                         /\ x \in 0 .. 255 /\ ~(x >= 128) /\ x % 16 = x
  OBVIOUS
<1>4. \A x \in 0 .. 127 : /\ 128 + x \in 0 .. 255 /\ 128 + x >= 128 /\ (128 + x) % 128 = x
                          /\ x \in 0 .. 255 /\ ~(x >= 128) /\ x % 128 = x
  OBVIOUS
<1>5. /\ FirstByte(f) \in 0 .. 255
      /\ (FirstByte(f) >= 128) = f.fin /\ FirstByte(f) % 16 = f.opcode
  <2>1. CASE f.fin
    BY <1>1, <1>3, <2>1 DEF FirstByte
  <2>2. CASE ~f.fin
    <3>1. FirstByte(f) = f.opcode
      BY <1>1, <2>2 DEF FirstByte
    <3> QED
      BY <1>1, <1>3, <2>2, <3>1
  <2> QED
    BY <2>1, <2>2
<1>6. /\ SecondByte(f, form, key) \in 0 .. 255
      /\ (SecondByte(f, form, key) >= 128) = (key # <<>>)
      /\ SecondByte(f, form, key) % 128 = Announced(Len(f.payload), form)
  <2>1. CASE key = <<>>
    <3> DEFINE a == Announced(Len(f.payload), form)
               x == SecondByte(f, form, key)
    <3>1. x = 0 + a
      BY <2>1, Zenon DEF SecondByte
    <3>2. a \in 0 .. 127
      BY <1>2
    <3> HIDE DEF a, x
    <3>3. x = a
      BY <3>1, <3>2
    <3>4. x \in 0 .. 255 /\ ~(x >= 128) /\ x % 128 = a
      BY <1>4, <3>2, <3>3
    <3>5. (x >= 128) = (key # <<>>)
      BY <2>1, <3>4
    <3> QED
      BY <3>4, <3>5, Zenon DEF a, x
  <2>2. CASE key # <<>>
    BY <1>2, <1>4, <2>2 DEF SecondByte
  <2> QED
    BY <2>1, <2>2
<1> QED
  BY <1>5, <1>6

\* Where the parts of an encoding stand.
LEMMA Layout ==
  ASSUME NEW f, NEW form, NEW key, IsEncoding(f, form, key)
  PROVE  LET n == Len(f.payload)
             k == Len(key)
             e == Encoded(f, form, key)
         IN  /\ IsBuffer(e) /\ Len(e) = 2 + form + k + n
             /\ n \in Nat /\ k \in Nat /\ form \in Nat
             /\ e[1] = FirstByte(f) /\ e[2] = SecondByte(f, form, key)
             /\ Stands(e, 2, Extended(n, form))
             /\ Stands(e, 2 + form, key)
             /\ Stands(e, 2 + form + k, Body(f.payload, key))
<1> DEFINE n == Len(f.payload)
           k == Len(key)
           h == <<FirstByte(f), SecondByte(f, form, key)>>
           x == Extended(n, form)
           y == Body(f.payload, key)
           e == Encoded(f, form, key)
<1>1. IsBuffer(key) /\ IsBuffer(y) /\ Len(y) = n /\ k \in Nat /\ n \in Nat
  BY KeyAndBody, BufferTypes
<1>2. IsBuffer(x) /\ Len(x) = form /\ form \in Nat
  <2>1. Fits(n, form)
    BY DEF IsEncoding
  <2> QED
    BY <1>1, <2>1, LengthField
<1>3. IsBuffer(h) /\ Len(h) = 2 /\ h[1] = FirstByte(f) /\ h[2] = SecondByte(f, form, key)
  BY TwoFirst DEF IsBuffer, ByteVal
<1>4. e = h \o x \o key \o y
  BY DEF Encoded, FirstByte, SecondByte
<1> HIDE DEF n, k, h, x, y, e
<1>5. /\ IsBuffer(h \o x) /\ Len(h \o x) = 2 + form
      /\ Begins(h, h \o x) /\ Stands(h \o x, 2, x)
  BY <1>2, <1>3, StandsIn
<1>6. /\ IsBuffer(h \o x \o key) /\ Len(h \o x \o key) = 2 + form + k
      /\ Begins(h \o x, h \o x \o key) /\ Stands(h \o x \o key, 2 + form, key)
  BY <1>1, <1>5, StandsIn DEF k
<1>7. /\ IsBuffer(e) /\ Len(e) = 2 + form + k + n
      /\ Begins(h \o x \o key, e) /\ Stands(e, 2 + form + k, y)
  BY <1>1, <1>4, <1>6, StandsIn
<1>8. Begins(h \o x, e) /\ Begins(h, e)
  BY <1>1, <1>2, <1>3, <1>5, <1>6, <1>7 DEF Begins
<1>9. e[1] = FirstByte(f) /\ e[2] = SecondByte(f, form, key)
  BY <1>3, <1>8 DEF Begins
<1>10. Stands(e, 2, x)
  <2>1. 2 \in Nat /\ 2 + Len(x) <= Len(h \o x)
    BY <1>2, <1>5
  <2> QED
    BY <1>2, <1>5, <1>8, <2>1, StandsLonger
<1>11. Stands(e, 2 + form, key)
  <2>1. 2 + form \in Nat /\ (2 + form) + Len(key) <= Len(h \o x \o key)
    BY <1>1, <1>2, <1>6 DEF k
  <2> QED
    BY <1>1, <1>6, <1>7, <2>1, StandsLonger
<1> QED
  BY <1>1, <1>2, <1>7, <1>9, <1>10, <1>11 DEF n, k, x, y, e

\* They stand there in every buffer that begins with it.
LEMMA LayoutOf ==
  ASSUME NEW f, NEW form, NEW key, IsEncoding(f, form, key),
         NEW b, IsBuffer(b), Begins(Encoded(f, form, key), b)
  PROVE  LET n == Len(f.payload)
             k == Len(key)
             e == Encoded(f, form, key)
         IN  /\ Len(e) = 2 + form + k + n /\ Len(e) <= Len(b)
             /\ n \in Nat /\ k \in Nat /\ form \in Nat
             /\ b[1] = FirstByte(f) /\ b[2] = SecondByte(f, form, key)
             /\ Stands(b, 2, Extended(n, form))
             /\ Stands(b, 2 + form, key)
             /\ Stands(b, 2 + form + k, Body(f.payload, key))
<1> DEFINE n == Len(f.payload)
           k == Len(key)
           x == Extended(n, form)
           y == Body(f.payload, key)
           e == Encoded(f, form, key)
<1>1. /\ IsBuffer(e) /\ Len(e) = 2 + form + k + n
      /\ n \in Nat /\ k \in Nat /\ form \in Nat
      /\ e[1] = FirstByte(f) /\ e[2] = SecondByte(f, form, key)
      /\ Stands(e, 2, x) /\ Stands(e, 2 + form, key) /\ Stands(e, 2 + form + k, y)
  BY Layout, Zenon
<1>2. IsBuffer(key) /\ IsBuffer(y) /\ Len(y) = n
  BY KeyAndBody
<1>3. IsBuffer(x) /\ Len(x) = form
  <2>1. Fits(n, form)
    BY DEF IsEncoding
  <2> QED
    BY <1>1, <2>1, LengthField
<1>4. Begins(e, b)
  OBVIOUS
<1>5. Len(key) = k
  OBVIOUS
<1> HIDE DEF n, k, x, y, e
<1>6. /\ Len(e) <= Len(b)
      /\ b[1] = FirstByte(f) /\ b[2] = SecondByte(f, form, key)
  BY <1>1, <1>4 DEF Begins
<1>7. /\ 2 \in Nat /\ 2 + Len(x) <= Len(e)
      /\ 2 + form \in Nat /\ (2 + form) + Len(key) <= Len(e)
      /\ 2 + form + k \in Nat /\ (2 + form + k) + Len(y) <= Len(e)
  BY <1>1, <1>2, <1>3, <1>5
<1>8. Stands(b, 2, x) /\ Stands(b, 2 + form, key) /\ Stands(b, 2 + form + k, y)
  BY <1>1, <1>2, <1>3, <1>4, <1>7, StandsLonger
<1> QED
  BY <1>1, <1>6, <1>8, Zenon DEF n, k, x, y, e

\* parse_frame finds the header that was written.
LEMMA HeaderRead ==
  ASSUME NEW f, NEW form, NEW key, IsEncoding(f, form, key),
         NEW b, IsBuffer(b), Begins(Encoded(f, form, key), b)
  PROVE  LET off == 2 + form + Len(key)
         IN  /\ HasMask(b) = (key # <<>>)
             /\ ExtraLength(b) = form /\ Offset(b) = off /\ HasHeader(b)
             /\ plen(b) = Len(f.payload) /\ ~Oversize(b)
             /\ key # <<>> => MaskKey(b) = key
             /\ SubSeq(b, off + 1, off + Len(f.payload)) = Body(f.payload, key)
<1> DEFINE n == Len(f.payload)
           k == Len(key)
           y == Body(f.payload, key)
           off == 2 + form + k
<1>1. /\ n \in Nat /\ k \in Nat /\ form \in Nat /\ Len(b) \in Nat
      /\ off + n <= Len(b)
      /\ b[1] = FirstByte(f) /\ b[2] = SecondByte(f, form, key)
      /\ Stands(b, 2, Extended(n, form)) /\ Stands(b, 2 + form, key) /\ Stands(b, off, y)
  BY LayoutOf, BufferTypes, Zenon
<1>2. HasMask(b) = (key # <<>>) /\ Field(b) = Announced(n, form)
  BY <1>1, TwoFirst DEF HasMask, Field
<1>3. Fits(n, form) /\ n <= OversizeLimit
  BY DEF IsEncoding
<1>4. /\ IsBuffer(key) /\ (k = IF key = <<>> THEN 0 ELSE 4)
      /\ IsBuffer(y) /\ Len(y) = n
  BY KeyAndBody
<1> HIDE DEF n, k, y
<1>5. ExtraLength(b) = form /\ plen(b) = n
  <2>1. CASE form = 0
    <3>1. Field(b) = n /\ n <= 125
      BY <1>2, <1>3, <2>1 DEF Announced, Fits
    <3> QED
      BY <1>1, <2>1, <3>1 DEF ExtraLength, plen
  <2>2. CASE form = 2
    <3>1. Field(b) = 126 /\ Extended(n, form) = Bytes2(n)
      BY <1>2, <2>2 DEF Announced, Extended
    <3>2. n \div 256 \in 0 .. 255
      BY <1>1, <1>3, <2>2, LengthField
    <3>3. Value2(b) = n
      BY <1>1, <3>1, <3>2, Value2Restores
    <3> QED
      BY <2>2, <3>1, <3>3 DEF ExtraLength, plen
  <2>3. CASE form = 8
    <3>1. Field(b) = 127 /\ Extended(n, form) = Bytes8(n)
      BY <1>2, <2>3 DEF Announced, Extended
    <3>2. Value8(b) = n
      BY <1>1, <1>3, <3>1, Value8Restores
    <3> QED
      BY <2>3, <3>1, <3>2 DEF ExtraLength, plen
  <2> QED
    BY <1>3, <2>1, <2>2, <2>3 DEF Fits, Forms
<1>6. KeyLength(b) = k
  BY <1>2, <1>4 DEF KeyLength
<1>7. Offset(b) = off
  BY <1>1, <1>5, <1>6 DEF Offset
<1>8. HasHeader(b)
  BY <1>1, <1>7 DEF HasHeader
<1>9. ~Oversize(b)
  <2>1. OversizeLimit \in Nat
    BY DEF OversizeLimit
  <2> QED
    BY <1>1, <1>3, <1>5, <2>1 DEF Oversize
<1>10. ASSUME key # <<>>
       PROVE  MaskKey(b) = key
  <2>1. k = 4
    BY <1>4, <1>10
  <2>2. 2 + form \in Nat /\ (2 + form) + k <= Len(b)
    BY <1>1
  <2>3. SubSeq(b, (2 + form) + 1, (2 + form) + k) = key
    BY <1>1, <1>4, <2>2, StandsPart DEF k
  <2>4. (2 + form) + 1 = off - 3 /\ (2 + form) + k = off
    BY <1>1, <2>1
  <2> QED
    BY <1>7, <2>3, <2>4 DEF MaskKey
<1>11. SubSeq(b, off + 1, off + n) = y
  <2>1. off \in Nat /\ off + Len(y) <= Len(b)
    BY <1>1, <1>4
  <2> HIDE DEF off
  <2>2. SubSeq(b, off + 1, off + Len(y)) = y
    BY <1>1, <1>4, <2>1, StandsPart
  <2> QED
    BY <1>4, <2>2
<1> QED
  BY <1>2, <1>5, <1>7, <1>8, <1>9, <1>10, <1>11 DEF n, k, y

-----------------------------------------------------------------------------
(* Whole encodings.                                                        *)

\* An encoding parses to its frame, whatever follows it.
LEMMA EncodingParsed ==
  ASSUME NEW f, NEW form, NEW key, IsEncoding(f, form, key),
         NEW b, IsBuffer(b), Begins(Encoded(f, form, key), b)
  PROVE  /\ Parses(b) /\ ~Oversize(b)
         /\ parse_frame(b) = [frame |-> f, used |-> Len(Encoded(f, form, key))]
<1> DEFINE n == Len(f.payload)
           off == 2 + form + Len(key)
           e == Encoded(f, form, key)
<1>1. /\ Len(e) = off + n /\ Len(e) <= Len(b) /\ b[1] = FirstByte(f)
  BY LayoutOf, Zenon
<1>2. /\ HasMask(b) = (key # <<>>) /\ Offset(b) = off /\ HasHeader(b)
      /\ plen(b) = n /\ ~Oversize(b)
      /\ key # <<>> => MaskKey(b) = key
      /\ SubSeq(b, off + 1, off + n) = Body(f.payload, key)
  BY HeaderRead
<1>3. Parses(b)
  BY <1>1, <1>2 DEF Parses, Whole
<1>4. PayloadOf(b) = f.payload
  <2>1. CASE key = <<>>
    BY <1>2, <2>1, Zenon DEF PayloadOf, Body
  <2>2. CASE key # <<>>
    BY <1>2, <2>2, KeyAndBody, Zenon DEF PayloadOf
  <2> QED
    BY <2>1, <2>2
<1>5. Used(b) = Len(e)
  BY <1>1, <1>2, Zenon DEF Used
<1>6. (b[1] >= 128) = f.fin /\ b[1] % 16 = f.opcode
  BY <1>1, TwoFirst
<1>7. f = [fin |-> f.fin, opcode |-> f.opcode, payload |-> f.payload]
  BY DEF IsEncoding, Frame
<1> QED
  BY <1>2, <1>3, <1>4, <1>5, <1>6, <1>7, Zenon DEF parse_frame

\* No part of it does.
LEMMA PartUnparsed ==
  ASSUME NEW f, NEW form, NEW key, IsEncoding(f, form, key),
         NEW n \in Nat, n < Len(Encoded(f, form, key))
  PROVE  ~Parses(SubSeq(Encoded(f, form, key), 1, n))
<1> DEFINE e == Encoded(f, form, key)
           a == SubSeq(e, 1, n)
<1>1. IsBuffer(e) /\ Len(e) \in Nat
  BY Layout, BufferTypes
<1>2. Parses(e) /\ ~Oversize(e) /\ parse_frame(e).used = Len(e)
  BY <1>1, EncodingParsed DEF Begins
<1> HIDE DEF e
<1>3. IsBuffer(a) /\ Len(a) = n /\ \A i \in 1 .. n : a[i] = e[i]
  BY <1>1, PartTypes DEF e
<1>4. Begins(a, e)
  BY <1>1, <1>3 DEF Begins, e
<1>5. SUFFICES ASSUME Parses(a)
               PROVE  FALSE
  BY DEF a, e
<1> HIDE DEF a
<1>6. ~Oversize(a) /\ parse_frame(e) = parse_frame(a)
  BY <1>1, <1>2, <1>3, <1>4, <1>5, Settled
<1>7. parse_frame(a).used \in 2 .. n
  BY <1>3, <1>5, <1>6, Reencoded
<1> QED
  BY <1>1, <1>2, <1>6, <1>7 DEF e

\* build_frame writes a length in the shortest form that can hold it.
LEMMA ShortestForm ==
  ASSUME NEW n \in Nat
  PROVE  \E form : /\ Fits(n, form)
                   /\ LengthBytes(n) = <<Announced(n, form)>> \o Extended(n, form)
<1>1. Short(n) => ~TwoBytes(n)
  BY SMT DEF Short, TwoBytes
<1>2. CASE Short(n)
  <2>1. Fits(n, 0)
    BY <1>2, SMT DEF Fits, Forms, Short
  <2>2. LengthBytes(n) = <<n>>
    BY <1>1, <1>2, Zenon DEF LengthBytes
  <2>3. Announced(n, 0) = n /\ Extended(n, 0) = <<>>
    BY SMT DEF Announced, Extended
  <2>4. <<n>> \o <<>> = <<n>>
    BY ConcatEmptySeq, SMT
  <2> QED
    BY <2>1, <2>2, <2>3, <2>4, Zenon
<1>3. CASE TwoBytes(n)
  <2>1. Fits(n, 2)
    BY <1>3, SMT DEF Fits, Forms, TwoBytes
  <2>2. LengthBytes(n) = <<126>> \o Bytes2(n)
    BY <1>1, <1>3, Zenon DEF LengthBytes
  <2>3. Announced(n, 2) = 126 /\ Extended(n, 2) = Bytes2(n)
    BY SMT DEF Announced, Extended
  <2> QED
    BY <2>1, <2>2, <2>3, SMT
<1>4. CASE ~Short(n) /\ ~TwoBytes(n)
  <2>1. Fits(n, 8)
    BY SMT DEF Fits, Forms
  <2>2. LengthBytes(n) = <<127>> \o Bytes8(n)
    BY <1>4, Zenon DEF LengthBytes
  <2>3. Announced(n, 8) = 127 /\ Extended(n, 8) = Bytes8(n)
    BY SMT DEF Announced, Extended
  <2> QED
    BY <2>1, <2>2, <2>3, SMT
<1> QED
  BY <1>2, <1>3, <1>4, Zenon

\* build_frame writes the length so, and no key.
LEMMA BuiltEncoded ==
  ASSUME NEW f, Readable(f)
  PROVE  \E form : IsEncoding(f, form, <<>>) /\ build_frame(f) = Encoded(f, form, <<>>)
<1> DEFINE n == Len(f.payload)
           x == FirstByte(f)
<1>1. n \in Nat /\ n <= OversizeLimit /\ f \in Frame /\ IsBuffer(f.payload)
  BY LenProperties DEF Readable, Frame, IsBuffer
<1>2. <<>> \in MaskKeys
  BY DEF MaskKeys
<1>3. (IF f.fin THEN 128 ELSE 0) + (f.opcode % 16) = x
  <2>1. \A o \in 0 .. 15 : o % 16 = o
    OBVIOUS
  <2>2. f.opcode \in 0 .. 15
    BY <1>1 DEF Frame
  <2> QED
    BY <2>1, <2>2, Zenon DEF FirstByte
<1>4. ASSUME NEW form, Fits(n, form), LengthBytes(n) = <<Announced(n, form)>> \o Extended(n, form)
      PROVE  IsEncoding(f, form, <<>>) /\ build_frame(f) = Encoded(f, form, <<>>)
  <2> DEFINE a == Announced(n, form)
             v == Extended(n, form)
  <2>1. IsEncoding(f, form, <<>>)
    BY <1>1, <1>2, <1>4 DEF IsEncoding
  <2>2. IsBuffer(v) /\ a \in 0 .. 127
    BY <1>1, <1>4, LengthField
  <2>3. x \in ByteVal
    BY <2>1, TwoFirst DEF ByteVal
  <2>4. build_frame(f) = <<x>> \o (<<a>> \o v) \o f.payload
    BY <1>3, <1>4, Zenon DEF build_frame
  <2>5. Encoded(f, form, <<>>) = <<x, 0 + a>> \o v \o <<>> \o f.payload
    BY Zenon DEF Encoded, Body, FirstByte
  <2> HIDE DEF x, a, v
  <2>6. 0 + a = a /\ <<x>> \in Seq(ByteVal) /\ <<a>> \in Seq(ByteVal) /\ <<x, a>> = <<x>> \o <<a>>
    BY <2>2, <2>3 DEF ByteVal
  <2>7. v \in Seq(ByteVal)
    BY <2>2 DEF IsBuffer
  <2>8. <<x>> \o (<<a>> \o v) = <<x, a>> \o v /\ <<x, a>> \o v \in Seq(ByteVal)
    BY <2>6, <2>7, ConcatAssociative, ConcatProperties
  <2>9. <<x, a>> \o v \o <<>> = <<x, a>> \o v
    BY <2>8, ConcatEmptySeq
  <2> QED
    BY <2>1, <2>4, <2>5, <2>6, <2>8, <2>9, Zenon
<1> QED
  BY <1>1, <1>4, ShortestForm, Zenon

\* What a frame is written as parses to it in front of any bytes.
LEMMA Restored ==
  ASSUME NEW f, NEW form, NEW key, IsEncoding(f, form, key), NEW r, IsBuffer(r)
  PROVE  LET e == Encoded(f, form, key)
         IN  /\ Parses(e \o r)
             /\ parse_frame(e \o r) = [frame |-> f, used |-> Len(e)]
             /\ \A n \in Cuts : n < Len(e) => ~Parses(SubSeq(e, 1, n))
<1> DEFINE e == Encoded(f, form, key)
<1>1. IsBuffer(e)
  BY Layout, Zenon
<1>2. IsBuffer(e \o r) /\ Begins(e, e \o r)
  BY <1>1, StandsIn, Zenon
<1>3. Parses(e \o r) /\ parse_frame(e \o r) = [frame |-> f, used |-> Len(e)]
  BY <1>2, EncodingParsed, Zenon
<1>4. \A n \in Cuts : n < Len(e) => ~Parses(SubSeq(e, 1, n))
  BY SegmentsAssumption, PartUnparsed
<1> QED
  BY <1>3, <1>4, Zenon

LEMMA BuiltRestored ==
  ASSUME NEW f, Readable(f), NEW r, IsBuffer(r)
  PROVE  LET e == build_frame(f)
         IN  /\ Parses(e \o r)
             /\ parse_frame(e \o r) = [frame |-> f, used |-> Len(e)]
             /\ \A n \in Cuts : n < Len(e) => ~Parses(SubSeq(e, 1, n))
<1>1. PICK form : IsEncoding(f, form, <<>>) /\ build_frame(f) = Encoded(f, form, <<>>)
  BY BuiltEncoded, Zenon
<1> QED
  BY <1>1, Restored, Zenon

-----------------------------------------------------------------------------
(* The specification.                                                      *)

\* Whatever frame another peer sends, with its length in any form that can hold
\* it and under any key, parse_frame reads it, from what comes behind it, and no
\* part of it.
THEOREM PeersAreParsedHolds == Spec => []PeersAreParsed
<1>1. ASSUME TypeOK
      PROVE  PeersAreParsed
  <2>1. IsBuffer(buf)
    BY <1>1 DEF TypeOK, IsBuffer
  <2>2. ASSUME NEW e \in Encodings
        PROVE  IsEncoding(e.frame, e.form, e.key)
    <3>1. /\ Readable(e.frame) /\ e.key \in MaskKeys
          /\ Fits(Len(e.frame.payload), e.form)
      BY SamplesAssumption, SMT DEF Fits
    <3> QED
      BY <3>1, Zenon DEF IsEncoding, Readable
  <2> QED
    BY <2>1, <2>2, Restored, Zenon DEF PeersAreParsed
<1> QED
  BY <1>1, BytesArrive, PTL DEF Spec

\* Whatever frame build_frame writes, parse_frame reads it from what comes behind
\* it, and no part of it.
THEOREM BuiltIsParsedHolds == Spec => []BuiltIsParsed
<1>1. ASSUME TypeOK
      PROVE  BuiltIsParsed
  <2>1. IsBuffer(buf)
    BY <1>1 DEF TypeOK, IsBuffer
  <2>2. \A f \in Samples : Readable(f)
    BY SamplesAssumption, SMT
  <2> QED
    BY <2>1, <2>2, BuiltRestored, Zenon DEF BuiltIsParsed
<1> QED
  BY <1>1, BytesArrive, PTL DEF Spec

\* The server's echoes, pongs and close codes reach a client that reads them with
\* parse_frame.
THEOREM RepliesAreParsedHolds == Spec => []RepliesAreParsed
<1>1. ASSUME TypeOK, NEW f \in Samples
      PROVE  /\ EchoRead(f) /\ PongRead(f)
             /\ Len(f.payload) + 2 <= OversizeLimit => CodesRead(f.payload)
  <2>1. IsBuffer(buf)
    BY <1>1 DEF TypeOK, IsBuffer
  <2>2. IsBuffer(f.payload) /\ Len(f.payload) \in Nat /\ Len(f.payload) <= OversizeLimit
    <3>1. Readable(f)
      BY SamplesAssumption, SMT
    <3> QED
      BY <3>1, LenProperties DEF Readable, Frame, IsBuffer
  <2>3. ASSUME NEW op \in 0 .. 15, NEW s, IsBuffer(s), Len(s) <= OversizeLimit
        PROVE  Read(build_frame(FrameOf(op, TRUE, s))) = FrameOf(op, TRUE, s)
    <3> DEFINE g == FrameOf(op, TRUE, s)
    <3>1. Readable(g)
      BY <2>3 DEF Readable, FrameOf, Frame, IsBuffer
    <3> HIDE DEF g
    <3>2. parse_frame(build_frame(g) \o buf) = [frame |-> g, used |-> Len(build_frame(g))]
      BY <2>1, <3>1, BuiltRestored, Zenon
    <3>3. Read(build_frame(g)) = g
      BY <3>2 DEF Read
    <3> QED
      BY <3>3, Zenon DEF g
  <2>4. /\ Opcode.OP_TEXT \in 0 .. 15 /\ Opcode.OP_BINARY \in 0 .. 15
        /\ Opcode.OP_PONG \in 0 .. 15 /\ Opcode.OP_CLOSE \in 0 .. 15
    BY DEF Opcode
  <2>5. EchoRead(f) /\ PongRead(f)
    BY <2>2, <2>3, <2>4, Zenon DEF EchoRead, PongRead, build_text, build_binary, build_pong
  <2>6. ASSUME Len(f.payload) + 2 <= OversizeLimit, NEW code \in CloseCodes
        PROVE  CloseCode(Read(build_close(code, f.payload))) = code
    <3> DEFINE s == Bytes2(code) \o f.payload
    <3>1. code \in Nat /\ Bytes2(code)[1] * 256 + Bytes2(code)[2] = code
      BY SMT DEF CloseCodes, Bytes2
    <3>2. IsBuffer(Bytes2(code)) /\ Len(Bytes2(code)) = 2
      BY <3>1, BytesTypes
    <3>3. IsBuffer(s) /\ Len(s) = Len(Bytes2(code)) + Len(f.payload) /\ Begins(Bytes2(code), s)
      BY <2>2, <3>2, StandsIn, Zenon
    <3>4. build_close(code, f.payload) = build_frame(FrameOf(Opcode.OP_CLOSE, TRUE, s))
      BY Zenon DEF build_close
    <3> HIDE DEF s
    <3>5. s[1] = Bytes2(code)[1] /\ s[2] = Bytes2(code)[2]
      BY <3>2, <3>3 DEF Begins
    <3>6. Len(s) <= OversizeLimit
      BY <2>2, <2>6, <3>2, <3>3, SMT DEF OversizeLimit
    <3>7. Read(build_close(code, f.payload)) = FrameOf(Opcode.OP_CLOSE, TRUE, s)
      BY <2>3, <2>4, <3>3, <3>4, <3>6, Zenon
    <3>8. FrameOf(Opcode.OP_CLOSE, TRUE, s).payload = s
      BY DEF FrameOf
    <3> QED
      BY <3>1, <3>5, <3>7, <3>8, Zenon DEF CloseCode
  <2> QED
    BY <2>5, <2>6, Zenon DEF CodesRead
<1>2. TypeOK => RepliesAreParsed
  BY <1>1, Zenon DEF RepliesAreParsed
<1> QED
  BY <1>2, BytesArrive, PTL DEF Spec
=============================================================================
