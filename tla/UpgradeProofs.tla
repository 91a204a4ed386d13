--------------------------- MODULE UpgradeProofs ---------------------------
(***************************************************************************)
(* Proofs that SHA-1's padding and Base64 are right for all messages.      *)
(***************************************************************************)
EXTENDS Upgrade, SequenceTheorems, TLAPS

-----------------------------------------------------------------------------
(* Base64.                                                                 *)

\* The alphabet has no character twice, and = is none of it.
LEMMA SextetOf ==
  ASSUME NEW i \in 0 .. 63
  PROVE  T[i + 1] # "=" /\ Sextet(T[i + 1]) = i
<1>1. T[i + 1] # "="
  BY DEF T
<1>2. ASSUME NEW j \in 0 .. 63, T[j + 1] = T[i + 1]
      PROVE  j = i
  BY <1>2 DEF T
<1> QED
  BY <1>1, <1>2 DEF Sextet

Byte == 0 .. 255

\* The characters base64_encode may give.
Letter == {T[i] : i \in 1 .. 64} \cup {"="}

\* Three bytes are 24 bits, and Octets takes them apart again.
Word24 == {v \in Nat : v < 16777216}

Bits(a, b, c) == a * 65536 + b * 256 + c

LEMMA OctetsOfBits ==
  ASSUME NEW a \in Byte, NEW b \in Byte, NEW c \in Byte
  PROVE  Bits(a, b, c) \in Word24 /\ Octets(Bits(a, b, c)) = <<a, b, c>>
<1>1. Bits(a, b, c) \in Word24
  BY SMT DEF Bits, Byte, Word24
<1>2. Bits(a, b, c) \div 65536 = a
  BY SMT DEF Bits, Byte
<1>3. (Bits(a, b, c) \div 256) % 256 = b
  <2>1. Bits(a, b, c) \div 256 = a * 256 + b
    BY SMT DEF Bits, Byte
  <2> QED
    BY <2>1, SMT DEF Byte
<1>4. Bits(a, b, c) % 256 = c
  BY SMT DEF Bits, Byte
<1> QED
  BY <1>1, <1>2, <1>3, <1>4, SMT DEF Octets

\* Four characters of the alphabet are the same 24 bits, and where the last ones
\* are 0, = stands for them as well.
LEMMA SextetsOfQuad ==
  ASSUME NEW v \in Word24
  PROVE  /\ \A k \in 1 .. 4 : Quad(v)[k] \in Letter /\ Quad(v)[k] # "="
         /\ ((Sextet(Quad(v)[1]) * 64 + Sextet(Quad(v)[2])) * 64 + Sextet(Quad(v)[3])) * 64
              + Sextet(Quad(v)[4]) = v
         /\ v % 64 = 0 => Sextet(Quad(v)[4]) = 0
         /\ v % 4096 = 0 => Sextet(Quad(v)[3]) = 0 /\ Sextet(Quad(v)[4]) = 0
<1> DEFINE w == (v \div 262144) % 64
           x == (v \div 4096) % 64
           y == (v \div 64) % 64
           z == v % 64
<1>1. w \in 0 .. 63 /\ x \in 0 .. 63 /\ y \in 0 .. 63 /\ z \in 0 .. 63
  BY SMT DEF Word24
<1>2. ((w * 64 + x) * 64 + y) * 64 + z = v
  BY SMT DEF Word24
<1>3. Quad(v) = <<T[w + 1], T[x + 1], T[y + 1], T[z + 1]>>
  BY SMT DEF Quad
<1>4. (v % 64 = 0 => z = 0) /\ (v % 4096 = 0 => y = 0 /\ z = 0)
  BY SMT DEF Word24
<1>5. \A i \in 0 .. 63 : T[i + 1] \in Letter /\ T[i + 1] # "=" /\ Sextet(T[i + 1]) = i
  <2>1. \A i \in 0 .. 63 : i + 1 \in 1 .. 64
    BY SMT
  <2> QED
    BY <2>1, SextetOf DEF Letter
<1> HIDE DEF w, x, y, z
<1>6. /\ Quad(v)[1] = T[w + 1] /\ Quad(v)[2] = T[x + 1]
      /\ Quad(v)[3] = T[y + 1] /\ Quad(v)[4] = T[z + 1]
  BY <1>3
<1>7. \A k \in 1 .. 4 : Quad(v)[k] \in Letter /\ Quad(v)[k] # "="
  BY <1>1, <1>5, <1>6
<1>8. /\ Sextet(Quad(v)[1]) = w /\ Sextet(Quad(v)[2]) = x
      /\ Sextet(Quad(v)[3]) = y /\ Sextet(Quad(v)[4]) = z
  BY <1>1, <1>5, <1>6
<1> QED
  BY <1>2, <1>4, <1>7, <1>8

\* Byte i of p, with zeros behind p; the bits of three of them; and how many
\* threes hold n bytes.
At(p, i) == IF i <= Len(p) THEN p[i] ELSE 0
Three(p, g) == Bits(At(p, 3*g + 1), At(p, 3*g + 2), At(p, 3*g + 3))
Groups(n) == (n + 2) \div 3

LEMMA ThreeType ==
  ASSUME NEW p \in Seq(Byte), NEW g \in Nat
  PROVE  /\ \A i \in 1 .. 3 : At(p, 3*g + i) \in Byte
         /\ Three(p, g) \in Word24
         /\ Octets(Three(p, g)) = <<At(p, 3*g + 1), At(p, 3*g + 2), At(p, 3*g + 3)>>
<1>1. \A i \in 1 .. 3 : At(p, 3*g + i) \in Byte
  <2>1. Len(p) \in Nat /\ \A i \in 1 .. Len(p) : p[i] \in Byte
    BY LenProperties, ElementOfSeq
  <2>2. 0 \in Byte /\ \A i \in 1 .. 3 : 3*g + i \in Nat /\ 3*g + i >= 1
    BY DEF Byte
  <2> QED
    BY <2>1, <2>2 DEF At
<1>2. At(p, 3*g + 1) \in Byte /\ At(p, 3*g + 2) \in Byte /\ At(p, 3*g + 3) \in Byte
  BY <1>1
<1> QED
  BY <1>1, <1>2, OctetsOfBits DEF Three

\* Where element i of a sequence of groups of three, four or sixty-four stands.
LEMMA InThrees ==
  ASSUME NEW i \in Nat, i >= 1
  PROVE  \E g \in Nat, k \in 1 .. 3 :
           g = (i - 1) \div 3 /\ k = ((i - 1) % 3) + 1 /\ i = 3*g + k
<1>1. /\ (i - 1) \div 3 \in Nat /\ ((i - 1) % 3) + 1 \in 1 .. 3
      /\ i = 3 * ((i - 1) \div 3) + (((i - 1) % 3) + 1)
  BY SMT
<1> QED
  BY <1>1

LEMMA InFours ==
  ASSUME NEW i \in Nat, i >= 1
  PROVE  \E g \in Nat, k \in 1 .. 4 :
           g = (i - 1) \div 4 /\ k = ((i - 1) % 4) + 1 /\ i = 4*g + k
<1>1. /\ (i - 1) \div 4 \in Nat /\ ((i - 1) % 4) + 1 \in 1 .. 4
      /\ i = 4 * ((i - 1) \div 4) + (((i - 1) % 4) + 1)
  BY SMT
<1> QED
  BY <1>1

LEMMA OfFours ==
  ASSUME NEW g \in Nat, NEW k \in 1 .. 4
  PROVE  (4*g + k - 1) \div 4 = g /\ ((4*g + k - 1) % 4) + 1 = k
<1>1. PICK j \in 0 .. 3 : j = k - 1
  BY SMT
<1>2. (4*g + j) \div 4 = g /\ (4*g + j) % 4 = j
  BY SMT
<1> QED
  BY <1>1, <1>2, SMT

\* The groups of three that p has.
Wholes(p, q) ==
  [i \in 1 .. 4*q |->
     Quad(p[3*((i - 1) \div 4) + 1] * 65536 + p[3*((i - 1) \div 4) + 2] * 256
            + p[3*((i - 1) \div 4) + 3])[((i - 1) % 4) + 1]]

LEMMA WholesAre ==
  ASSUME NEW p \in Seq(Byte), NEW q \in Nat, 3*q <= Len(p)
  PROVE  /\ Wholes(p, q) \in Seq(Letter) /\ Len(Wholes(p, q)) = 4*q
         /\ \A g \in 0 .. q - 1, k \in 1 .. 4 : Wholes(p, q)[4*g + k] = Quad(Three(p, g))[k]
<1>1. Len(p) \in Nat
  BY LenProperties
<1>2. ASSUME NEW g \in Nat, g < q
      PROVE  p[3*g + 1] * 65536 + p[3*g + 2] * 256 + p[3*g + 3] = Three(p, g)
  <2>1. 3*g + 1 <= Len(p) /\ 3*g + 2 <= Len(p) /\ 3*g + 3 <= Len(p)
    BY <1>1, <1>2, SMT
  <2> QED
    BY <2>1, SMT DEF Three, At, Bits
<1>3. ASSUME NEW i \in 1 .. 4*q
      PROVE  /\ (i - 1) \div 4 \in Nat /\ (i - 1) \div 4 < q /\ ((i - 1) % 4) + 1 \in 1 .. 4
             /\ Wholes(p, q)[i] = Quad(Three(p, (i - 1) \div 4))[((i - 1) % 4) + 1]
             /\ Wholes(p, q)[i] \in Letter
  <2>1. PICK g \in Nat, k \in 1 .. 4 : /\ g = (i - 1) \div 4 /\ k = ((i - 1) % 4) + 1
                                       /\ i = 4*g + k
    <3>1. i \in Nat /\ i >= 1
      BY SMT
    <3> QED
      BY <3>1, InFours
  <2>2. g < q
    BY <2>1, SMT
  <2>3. p[3*g + 1] * 65536 + p[3*g + 2] * 256 + p[3*g + 3] = Three(p, g)
    BY <1>2, <2>2
  <2>4. Wholes(p, q)[i] = Quad(p[3*g + 1] * 65536 + p[3*g + 2] * 256 + p[3*g + 3])[k]
    BY <2>1, SMT DEF Wholes
  <2>5. Quad(Three(p, g))[k] \in Letter
    BY ThreeType, SextetsOfQuad
  <2>6. Wholes(p, q)[i] = Quad(Three(p, g))[k]
    BY <2>3, <2>4
  <2> QED
    BY <2>1, <2>2, <2>5, <2>6
<1>4. Wholes(p, q) \in Seq(Letter) /\ Len(Wholes(p, q)) = 4*q
  <2>1. Wholes(p, q) \in [1 .. 4*q -> Letter] /\ 4*q \in Nat
    BY <1>3, SMT DEF Wholes
  <2> QED
    BY <2>1, SMT
<1>5. ASSUME NEW g \in 0 .. q - 1, NEW k \in 1 .. 4
      PROVE  Wholes(p, q)[4*g + k] = Quad(Three(p, g))[k]
  <2>1. PICK i \in 1 .. 4*q : i = 4*g + k
    BY SMT
  <2>2. g \in Nat
    BY SMT
  <2>3. (i - 1) \div 4 = g /\ ((i - 1) % 4) + 1 = k
    BY <2>1, <2>2, OfFours
  <2>4. Wholes(p, q)[i] = Quad(Three(p, (i - 1) \div 4))[((i - 1) % 4) + 1]
    BY <1>3
  <2> QED
    BY <2>1, <2>3, <2>4
<1> QED
  BY <1>4, <1>5

LEMMA ByteIsNat == \A x \in Byte : x \in Nat
BY DEF Byte

\* Part of some bytes.
LEMMA BytesType ==
  ASSUME NEW p \in Seq(Byte)
  PROVE  Len(p) \in Nat /\ \A i \in 1 .. Len(p) : p[i] \in Byte /\ p[i] \in Nat
<1>1. Len(p) \in Nat /\ \A i \in 1 .. Len(p) : p[i] \in Byte
  BY LenProperties, ElementOfSeq
<1> QED
  BY <1>1, ByteIsNat

LEMMA PartOf ==
  ASSUME NEW p \in Seq(Byte), NEW m \in Nat, m >= 1, NEW n \in Nat, n <= Len(p), m <= n + 1
  PROVE  /\ SubSeq(p, m, n) \in Seq(Byte) /\ Len(SubSeq(p, m, n)) = n + 1 - m
         /\ \A i \in 1 .. n + 1 - m : SubSeq(p, m, n)[i] = p[m - 1 + i]
<1>1. m \in Int /\ n \in Int /\ \A i \in m .. n : p[i] \in Byte
  BY BytesType
<1>2. /\ SubSeq(p, m, n) \in Seq(Byte)
      /\ Len(SubSeq(p, m, n)) = (IF m <= n THEN n - m + 1 ELSE 0)
      /\ \A i \in 1 .. n - m + 1 : SubSeq(p, m, n)[i] = p[m + i - 1]
  BY <1>1, SubSeqProperties
<1>3. n - m + 1 = n + 1 - m /\ \A i \in 1 .. n + 1 - m : m + i - 1 = m - 1 + i
  OBVIOUS
<1> QED
  BY <1>2, <1>3

LEMMA TailCases ==
  ASSUME NEW l
  PROVE  /\ Len(l) = 0 => Tail_(l) = <<>>
         /\ Len(l) = 1 => Tail_(l) = << Quad(l[1] * 65536)[1], Quad(l[1] * 65536)[2], "=", "=" >>
         /\ Len(l) = 2 => Tail_(l) = << Quad(l[1] * 65536 + l[2] * 256)[1],
                                        Quad(l[1] * 65536 + l[2] * 256)[2],
                                        Quad(l[1] * 65536 + l[2] * 256)[3], "=" >>
BY SMT DEF Tail_

LEMMA FourLetters ==
  ASSUME NEW a \in Letter, NEW b \in Letter, NEW c \in Letter, NEW d \in Letter,
         NEW s, s = <<a, b, c, d>>
  PROVE  /\ s \in Seq(Letter) /\ Len(s) = 4
         /\ s[1] = a /\ s[2] = b /\ s[3] = c /\ s[4] = d
BY SMT

\* What is left of p behind them.
Rest(p, q) == Tail_(SubSeq(p, 3*q + 1, Len(p)))

LEMMA RestIs ==
  ASSUME NEW p \in Seq(Byte), NEW q \in Nat, NEW r \in 0 .. 2, Len(p) = 3*q + r,
         NEW s, s = Rest(p, q)
  PROVE  /\ s \in Seq(Letter) /\ Len(s) = (IF r = 0 THEN 0 ELSE 4)
         /\ r # 0 => \A k \in 1 .. 4 : s[k] = IF k <= r + 1 THEN Quad(Three(p, q))[k] ELSE "="
<1> DEFINE l == SubSeq(p, 3*q + 1, Len(p))
<1>1. Len(l) = r /\ \A i \in 1 .. r : l[i] = p[3*q + i]
  <2>1. /\ 3*q + 1 \in Nat /\ 3*q + 1 >= 1 /\ Len(p) \in Nat /\ 3*q + 1 <= Len(p) + 1
        /\ Len(p) + 1 - (3*q + 1) = r /\ \A i \in 1 .. r : 3*q + 1 - 1 + i = 3*q + i
    BY SMT
  <2>2. /\ Len(l) = Len(p) + 1 - (3*q + 1)
        /\ \A i \in 1 .. Len(p) + 1 - (3*q + 1) : l[i] = p[3*q + 1 - 1 + i]
    BY <2>1, PartOf
  <2> QED
    BY <2>1, <2>2
<1>2. r = 1 => p[3*q + 1] * 65536 = Three(p, q)
  <2>1. CASE r = 1
    <3>1. At(p, 3*q + 1) = p[3*q + 1] /\ At(p, 3*q + 2) = 0 /\ At(p, 3*q + 3) = 0
      BY <2>1, SMT DEF At
    <3>2. 3*q + 1 \in 1 .. Len(p)
      BY <2>1, SMT
    <3>3. p[3*q + 1] \in Nat
      BY <3>2, BytesType
    <3> QED
      BY <3>1, <3>3, SMT DEF Three, Bits
  <2> QED
    BY <2>1
<1>3. r = 2 => p[3*q + 1] * 65536 + p[3*q + 2] * 256 = Three(p, q)
  <2>1. CASE r = 2
    <3>1. /\ At(p, 3*q + 1) = p[3*q + 1] /\ At(p, 3*q + 2) = p[3*q + 2]
          /\ At(p, 3*q + 3) = 0
      BY <2>1, SMT DEF At
    <3>2. 3*q + 1 \in 1 .. Len(p) /\ 3*q + 2 \in 1 .. Len(p)
      BY <2>1, SMT
    <3>3. p[3*q + 1] \in Nat /\ p[3*q + 2] \in Nat
      BY <3>2, BytesType
    <3> QED
      BY <3>1, <3>3, SMT DEF Three, Bits
  <2> QED
    BY <2>1
<1>4. PICK a \in Letter, b \in Letter, c \in Letter :
        /\ Quad(Three(p, q))[1] = a /\ Quad(Three(p, q))[2] = b /\ Quad(Three(p, q))[3] = c
  <2>1. \A k \in 1 .. 4 : Quad(Three(p, q))[k] \in Letter
    BY ThreeType, SextetsOfQuad
  <2> QED
    BY <2>1
<1>5. "=" \in Letter
  BY DEF Letter
<1>6. s = Tail_(l)
  BY DEF Rest
<1> HIDE DEF l
<1>7. CASE r = 0
  <2>1. s = <<>>
    BY <1>1, <1>6, <1>7, TailCases
  <2> QED
    BY <1>7, <2>1, EmptySeq
<1>8. CASE r = 1
  <2>1. l[1] * 65536 = Three(p, q)
    BY <1>1, <1>2, <1>8
  <2>2. s = <<Quad(l[1] * 65536)[1], Quad(l[1] * 65536)[2], "=", "=">>
    BY <1>1, <1>6, <1>8, TailCases
  <2>3. s = <<a, b, "=", "=">>
    BY <1>4, <2>1, <2>2
  <2>4. s \in Seq(Letter) /\ Len(s) = 4 /\ s[1] = a /\ s[2] = b /\ s[3] = "=" /\ s[4] = "="
    BY <1>5, <2>3, FourLetters
  <2>5. \A k \in 1 .. 4 : s[k] = IF k <= 2 THEN Quad(Three(p, q))[k] ELSE "="
    BY <1>4, <2>4
  <2> QED
    BY <1>8, <2>4, <2>5
<1>9. CASE r = 2
  <2> DEFINE v == l[1] * 65536 + l[2] * 256
  <2>1. v = Three(p, q)
    BY <1>1, <1>3, <1>9
  <2>2. s = <<Quad(v)[1], Quad(v)[2], Quad(v)[3], "=">>
    BY <1>1, <1>6, <1>9, TailCases
  <2> HIDE DEF v
  <2>3. s = <<a, b, c, "=">>
    BY <1>4, <2>1, <2>2
  <2>4. s \in Seq(Letter) /\ Len(s) = 4 /\ s[1] = a /\ s[2] = b /\ s[3] = c /\ s[4] = "="
    BY <1>5, <2>3, FourLetters
  <2>5. \A k \in 1 .. 4 : s[k] = IF k <= 3 THEN Quad(Three(p, q))[k] ELSE "="
    BY <1>4, <2>4
  <2> QED
    BY <1>9, <2>4, <2>5
<1> QED
  BY <1>7, <1>8, <1>9

\* All of them: the same 24 bits group by group, but = where p has no byte.
LEMMA Encoded ==
  ASSUME NEW p \in Seq(Byte), NEW s, s = base64_encode(p)
  PROVE  /\ s \in Seq(Letter)
         /\ Len(s) = 4 * Groups(Len(p)) /\ Groups(Len(p)) \in Nat
         /\ \A g \in Nat, k \in 1 .. 4 : g < Groups(Len(p)) =>
              s[4*g + k] = IF 3*g + k <= Len(p) + 1 THEN Quad(Three(p, g))[k] ELSE "="
<1>1. PICK q \in Nat, r \in 0 .. 2 : q = Len(p) \div 3 /\ r = Len(p) % 3 /\ Len(p) = 3*q + r
  <2>1. Len(p) \in Nat
    BY BytesType
  <2> QED
    BY <2>1, SMT
<1>2. Groups(Len(p)) = IF r = 0 THEN q ELSE q + 1
  BY <1>1, SMT DEF Groups
<1>3. /\ Wholes(p, q) \in Seq(Letter) /\ Len(Wholes(p, q)) = 4*q
      /\ \A g \in 0 .. q - 1, k \in 1 .. 4 : Wholes(p, q)[4*g + k] = Quad(Three(p, g))[k]
  <2>1. 3*q <= Len(p)
    BY <1>1, SMT
  <2> QED
    BY <2>1, WholesAre
<1>4. PICK t : t = Rest(p, q)
  OBVIOUS
<1>5. /\ t \in Seq(Letter) /\ Len(t) = (IF r = 0 THEN 0 ELSE 4)
      /\ r # 0 => \A k \in 1 .. 4 : t[k] = IF k <= r + 1 THEN Quad(Three(p, q))[k] ELSE "="
  <2>1. Len(p) = 3*q + r
    BY <1>1
  <2> QED
    BY <1>4, <2>1, RestIs
<1>6. s = Wholes(p, q) \o t
  <2>1. base64_encode(p) = Wholes(p, Len(p) \div 3) \o Rest(p, Len(p) \div 3)
    BY DEF base64_encode, Wholes, Rest
  <2> QED
    BY <1>1, <1>4, <2>1
<1>7. /\ s \in Seq(Letter) /\ Len(s) = 4*q + Len(t)
      /\ \A i \in 1 .. 4*q + Len(t) :
           s[i] = IF i <= 4*q THEN Wholes(p, q)[i] ELSE t[i - 4*q]
  <2>1. PICK w \in Seq(Letter) : w = Wholes(p, q) /\ Len(w) = 4*q
    BY <1>3
  <2>2. PICK u \in Seq(Letter) : u = t
    BY <1>5
  <2>3. /\ w \o u \in Seq(Letter) /\ Len(w \o u) = Len(w) + Len(u)
        /\ \A i \in 1 .. Len(w) + Len(u) :
             (w \o u)[i] = IF i <= Len(w) THEN w[i] ELSE u[i - Len(w)]
    BY ConcatProperties
  <2> QED
    BY <1>6, <2>1, <2>2, <2>3
<1>8. Len(s) = 4 * Groups(Len(p)) /\ Groups(Len(p)) \in Nat
  BY <1>2, <1>3, <1>5, <1>7, SMT
<1>9. ASSUME NEW g \in Nat, NEW k \in 1 .. 4, g < q
      PROVE  /\ s[4*g + k] = Quad(Three(p, g))[k]
             /\ 3*g + k <= Len(p) + 1
  <2>1. PICK i \in 1 .. 4*q + Len(t) : i = 4*g + k /\ i <= 4*q /\ g \in 0 .. q - 1
    BY <1>5, <1>9, SMT
  <2>2. 3*g + k <= Len(p) + 1
    BY <1>1, <1>9, SMT
  <2>3. s[i] = Wholes(p, q)[i]
    BY <1>7, <2>1
  <2> QED
    BY <1>3, <2>1, <2>2, <2>3
<1>10. ASSUME NEW k \in 1 .. 4, r # 0
       PROVE  s[4*q + k] = IF k <= r + 1 THEN Quad(Three(p, q))[k] ELSE "="
  <2>1. 4*q + k \in 1 .. 4*q + Len(t) /\ ~(4*q + k <= 4*q) /\ 4*q + k - 4*q = k
    BY <1>5, <1>10, SMT
  <2>2. s[4*q + k] = t[k]
    BY <1>7, <2>1
  <2> QED
    BY <1>5, <1>10, <2>2
<1>11. ASSUME NEW g \in Nat, NEW k \in 1 .. 4, g < Groups(Len(p))
       PROVE  s[4*g + k] = IF 3*g + k <= Len(p) + 1 THEN Quad(Three(p, g))[k] ELSE "="
  <2>1. CASE g < q
    BY <1>9, <2>1
  <2>2. CASE ~(g < q)
    <3>1. g = q /\ r # 0
      BY <1>2, <1>11, <2>2, SMT
    <3>2. 3*g + k <= Len(p) + 1 <=> k <= r + 1
      BY <1>1, <3>1, SMT
    <3> QED
      BY <1>10, <3>1, <3>2
  <2> QED
    BY <2>1, <2>2
<1> QED
  BY <1>7, <1>8, <1>11

\* Each group is decoded to what it was made of.
LEMMA GroupDecoded ==
  ASSUME NEW p \in Seq(Byte), NEW s, s = base64_encode(p), NEW g \in Nat, g < Groups(Len(p))
  PROVE  Sextets(s, g) = Three(p, g)
<1> DEFINE v == Three(p, g)
           n == Len(p)
<1>1. n \in Nat /\ 3*g < n
  <2>1. n \in Nat
    BY BytesType
  <2> QED
    BY <2>1, SMT DEF Groups
<1>2. \A k \in 1 .. 4 : s[4*g + k] = IF 3*g + k <= n + 1 THEN Quad(v)[k] ELSE "="
  BY Encoded
<1>3. v \in Word24
  BY ThreeType
<1>4. s[4*g + 1] = Quad(v)[1] /\ s[4*g + 2] = Quad(v)[2]
  BY <1>1, <1>2, SMT
<1>5. Sextet("=") = 0
  BY DEF Sextet
<1>6. Sextet(s[4*g + 3]) = Sextet(Quad(v)[3])
  <2>1. CASE 3*g + 3 <= n + 1
    BY <1>2, <2>1
  <2>2. CASE ~(3*g + 3 <= n + 1)
    <3>1. At(p, 3*g + 2) = 0 /\ At(p, 3*g + 3) = 0 /\ At(p, 3*g + 1) \in Nat
      <4>1. ~(3*g + 2 <= n) /\ ~(3*g + 3 <= n)
        BY <1>1, <2>2, SMT
      <4>2. At(p, 3*g + 1) \in Byte
        BY ThreeType
      <4>3. At(p, 3*g + 1) \in Nat
        BY <4>2, ByteIsNat
      <4>4. At(p, 3*g + 2) = 0 /\ At(p, 3*g + 3) = 0
        BY <4>1 DEF At
      <4> QED
        BY <4>3, <4>4
    <3>2. v % 4096 = 0
      BY <3>1, SMT DEF Three, Bits
    <3>3. s[4*g + 3] = "="
      BY <1>2, <2>2
    <3> QED
      BY <1>3, <1>5, <3>2, <3>3, SextetsOfQuad
  <2> QED
    BY <2>1, <2>2
<1>7. Sextet(s[4*g + 4]) = Sextet(Quad(v)[4])
  <2>1. CASE 3*g + 4 <= n + 1
    BY <1>2, <2>1
  <2>2. CASE ~(3*g + 4 <= n + 1)
    <3>1. At(p, 3*g + 3) = 0 /\ At(p, 3*g + 1) \in Nat /\ At(p, 3*g + 2) \in Nat
      <4>1. ~(3*g + 3 <= n)
        BY <1>1, <2>2, SMT
      <4>2. At(p, 3*g + 1) \in Byte /\ At(p, 3*g + 2) \in Byte
        BY ThreeType
      <4>3. At(p, 3*g + 1) \in Nat /\ At(p, 3*g + 2) \in Nat
        BY <4>2, ByteIsNat
      <4>4. At(p, 3*g + 3) = 0
        BY <4>1 DEF At
      <4> QED
        BY <4>3, <4>4
    <3>2. v % 64 = 0
      BY <3>1, SMT DEF Three, Bits
    <3>3. s[4*g + 4] = "="
      BY <1>2, <2>2
    <3> QED
      BY <1>3, <1>5, <3>2, <3>3, SextetsOfQuad
  <2> QED
    BY <2>1, <2>2
<1>8. Sextets(s, g) = ((Sextet(Quad(v)[1]) * 64 + Sextet(Quad(v)[2])) * 64
                        + Sextet(Quad(v)[3])) * 64 + Sextet(Quad(v)[4])
  BY <1>4, <1>6, <1>7 DEF Sextets
<1> QED
  BY <1>3, <1>8, SextetsOfQuad

\* What is decoded, byte by byte.
LEMMA AllDecoded ==
  ASSUME NEW p \in Seq(Byte), NEW s, s = base64_encode(p)
  PROVE  /\ Decoded(s) \in Seq(Byte) /\ Len(Decoded(s)) = 3 * Groups(Len(p))
         /\ \A i \in 1 .. 3 * Groups(Len(p)) : Decoded(s)[i] = At(p, i)
<1>1. PICK m \in Nat : m = Groups(Len(p)) /\ Len(s) = 4*m
  BY Encoded
<1>2. Len(s) \div 4 = m
  BY <1>1, SMT
<1>3. Decoded(s) = [i \in 1 .. 3*m |-> Octets(Sextets(s, (i - 1) \div 3))[((i - 1) % 3) + 1]]
  BY <1>2 DEF Decoded
<1>4. ASSUME NEW i \in 1 .. 3*m
      PROVE  Decoded(s)[i] = At(p, i) /\ At(p, i) \in Byte
  <2>1. PICK g \in Nat, k \in 1 .. 3 : g = (i - 1) \div 3 /\ k = ((i - 1) % 3) + 1 /\ i = 3*g + k
    <3>1. i \in Nat /\ i >= 1
      BY SMT
    <3> QED
      BY <3>1, InThrees
  <2>2. g < Groups(Len(p))
    BY <1>1, <2>1, SMT
  <2>3. Decoded(s)[i] = Octets(Three(p, g))[k]
    BY <1>3, <2>1, <2>2, GroupDecoded
  <2>4. Octets(Three(p, g))[k] = At(p, 3*g + k) /\ At(p, 3*g + k) \in Byte
    <3>1. \A j \in 1 .. 3 : At(p, 3*g + j) \in Byte
      BY ThreeType
    <3>2. Octets(Three(p, g)) = <<At(p, 3*g + 1), At(p, 3*g + 2), At(p, 3*g + 3)>>
      BY ThreeType
    <3>3. k = 1 \/ k = 2 \/ k = 3
      OBVIOUS
    <3> QED
      BY <3>1, <3>2, <3>3
  <2> QED
    BY <2>1, <2>3, <2>4
<1>5. Decoded(s) \in Seq(Byte) /\ Len(Decoded(s)) = 3*m
  <2>1. \A i \in 1 .. 3*m : Octets(Sextets(s, (i - 1) \div 3))[((i - 1) % 3) + 1] \in Byte
    BY <1>3, <1>4
  <2>2. Decoded(s) \in [1 .. 3*m -> Byte] /\ 3*m \in Nat
    BY <1>3, <2>1
  <2> QED
    BY <2>2
<1> QED
  BY <1>1, <1>4, <1>5

\* Base64Decodes of any bytes.
LEMMA BytesDecode ==
  ASSUME NEW p \in Seq(Byte), NEW s, s = base64_encode(p),
         NEW missing, missing = (-Len(p)) % 3
  PROVE  /\ Len(s) % 4 = 0
         /\ Decoded(s) = p \o [i \in 1 .. missing |-> 0]
         /\ {i \in DOMAIN s : s[i] = "="} = Len(s) - missing + 1 .. Len(s)
<1>1. PICK n \in Nat, m \in Nat : n = Len(p) /\ m = Groups(n) /\ Len(s) = 4*m
  BY Encoded, BytesType
<1>2. missing \in 0 .. 2 /\ 3*m = n + missing
  BY <1>1, SMT DEF Groups
<1>3. Len(s) % 4 = 0
  BY <1>1, SMT
<1>4. Decoded(s) = p \o [i \in 1 .. missing |-> 0]
  <2>1. PICK z \in Seq(Byte) : /\ z = [i \in 1 .. missing |-> 0] /\ Len(z) = missing
                               /\ \A i \in 1 .. missing : z[i] = 0
    <3> DEFINE z == [i \in 1 .. missing |-> 0]
    <3>1. z \in [1 .. missing -> Byte] /\ missing \in Nat
      BY <1>2 DEF Byte
    <3>2. z \in Seq(Byte) /\ Len(z) = missing
      BY <3>1
    <3> QED
      BY <3>2
  <2>2. /\ p \o z \in Seq(Byte) /\ Len(p \o z) = n + missing
        /\ \A i \in 1 .. n + missing : (p \o z)[i] = IF i <= n THEN p[i] ELSE z[i - n]
    BY <1>1, <2>1, ConcatProperties
  <2>3. \A i \in 1 .. n + missing : (p \o z)[i] = At(p, i)
    <3>1. \A i \in 1 .. n + missing : ~(i <= n) => i - n \in 1 .. missing
      BY <1>2, SMT
    <3> QED
      BY <1>1, <2>1, <2>2, <3>1 DEF At
  <2>4. /\ Decoded(s) \in Seq(Byte) /\ Len(Decoded(s)) = n + missing
        /\ \A i \in 1 .. n + missing : Decoded(s)[i] = At(p, i)
    BY <1>1, <1>2, AllDecoded
  <2> QED
    BY <2>1, <2>2, <2>3, <2>4, SeqEqual
<1>5. ASSUME NEW i \in 1 .. 4*m
      PROVE  s[i] = "=" <=> i > 4*m - missing
  <2>1. PICK g \in Nat, k \in 1 .. 4 : i = 4*g + k
    <3>1. i \in Nat /\ i >= 1
      BY SMT
    <3> QED
      BY <3>1, InFours
  <2>2. g < m
    BY <2>1, SMT
  <2>3. s[i] = IF 3*g + k <= n + 1 THEN Quad(Three(p, g))[k] ELSE "="
    BY <1>1, <2>1, <2>2, Encoded
  <2>4. Quad(Three(p, g))[k] # "="
    BY ThreeType, SextetsOfQuad
  <2>5. 3*g + k <= n + 1 <=> i <= 4*m - missing
    BY <1>2, <2>1, <2>2, SMT
  <2> QED
    BY <1>2, <2>1, <2>3, <2>4, <2>5, SMT
<1>6. DOMAIN s = 1 .. 4*m
  BY <1>1, Encoded, LenProperties
<1>7. {i \in DOMAIN s : s[i] = "="} = Len(s) - missing + 1 .. Len(s)
  <2>1. {i \in DOMAIN s : s[i] = "="} = {i \in 1 .. 4*m : i > 4*m - missing}
    BY <1>5, <1>6
  <2>2. {i \in 1 .. 4*m : i > 4*m - missing} = 4*m - missing + 1 .. 4*m
    BY <1>2, SMT
  <2> QED
    BY <1>1, <2>1, <2>2
<1> QED
  BY <1>3, <1>4, <1>7

-----------------------------------------------------------------------------
(* The padding of SHA-1.                                                   *)

\* b is the first k blocks of x.
Blocks(b, x, k) ==
  /\ b \in Seq(Seq(Byte)) /\ Len(b) = k /\ 64*k <= Len(x)
  /\ \A j \in 1 .. k : /\ Len(b[j]) = 64
                       /\ \A i \in 1 .. 64 : b[j][i] = x[64*(j - 1) + i]

\* y is what x has behind its first n bytes.
Behind(y, x, n) ==
  /\ y \in Seq(Byte) /\ Len(x) = n + Len(y)
  /\ \A i \in 1 .. Len(y) : x[n + i] = y[i]

\* BlocksOf cuts into blocks.
LEMMA CutUp ==
  ASSUME NEW s \in Seq(Byte), NEW k \in Nat, NEW r \in 0 .. 63, Len(s) = 64*k + r
  PROVE  Blocks(Hash!BlocksOf(s), s, k)
<1> DEFINE b == Hash!BlocksOf(s)
<1>1. Len(s) \div 64 = k
  BY SMT
<1>2. b = [j \in 1 .. k |-> SubSeq(s, (j - 1) * 64 + 1, j * 64)]
  BY <1>1 DEF Hash!BlocksOf, Hash!BlockLen
<1>3. ASSUME NEW j \in 1 .. k
      PROVE  /\ b[j] \in Seq(Byte) /\ Len(b[j]) = 64
             /\ \A i \in 1 .. 64 : b[j][i] = s[64*(j - 1) + i]
  <2>1. PICK m \in Nat, n \in Nat : m = (j - 1) * 64 + 1 /\ n = j * 64
    BY SMT
  <2>2. m >= 1 /\ n <= Len(s) /\ m <= n + 1 /\ n + 1 - m = 64
    BY <2>1, SMT
  <2>3. b[j] = SubSeq(s, m, n)
    BY <1>2, <2>1
  <2>4. /\ SubSeq(s, m, n) \in Seq(Byte) /\ Len(SubSeq(s, m, n)) = n + 1 - m
        /\ \A i \in 1 .. n + 1 - m : SubSeq(s, m, n)[i] = s[m - 1 + i]
    BY <2>2, PartOf
  <2>5. \A i \in 1 .. 64 : m - 1 + i = 64*(j - 1) + i
    BY <2>1, SMT
  <2> QED
    BY <2>2, <2>3, <2>4, <2>5
<1>4. b \in Seq(Seq(Byte)) /\ Len(b) = k
  <2>1. \A j \in 1 .. k : SubSeq(s, (j - 1) * 64 + 1, j * 64) \in Seq(Byte)
    BY <1>2, <1>3
  <2>2. b \in [1 .. k -> Seq(Byte)]
    BY <1>2, <2>1
  <2> QED
    BY <1>2, <2>2
<1>5. 64*k <= Len(s)
  BY SMT
<1> QED
  BY <1>3, <1>4, <1>5 DEF Blocks

\* What is behind a sequence that grows, grows with it.
LEMMA BehindGrows ==
  ASSUME NEW x \in Seq(Byte), NEW n \in Nat, NEW y, Behind(y, x, n), NEW s \in Seq(Byte)
  PROVE  Behind(y \o s, x \o s, n)
<1>1. y \in Seq(Byte) /\ Len(x) = n + Len(y) /\ \A i \in 1 .. Len(y) : x[n + i] = y[i]
  BY DEF Behind
<1>2. /\ x \o s \in Seq(Byte) /\ Len(x \o s) = Len(x) + Len(s)
      /\ \A i \in 1 .. Len(x) + Len(s) :
           (x \o s)[i] = IF i <= Len(x) THEN x[i] ELSE s[i - Len(x)]
  BY ConcatProperties
<1>3. /\ y \o s \in Seq(Byte) /\ Len(y \o s) = Len(y) + Len(s)
      /\ \A i \in 1 .. Len(y) + Len(s) :
           (y \o s)[i] = IF i <= Len(y) THEN y[i] ELSE s[i - Len(y)]
  BY <1>1, ConcatProperties
<1>4. Len(x) \in Nat /\ Len(y) \in Nat /\ Len(s) \in Nat
  BY <1>1, BytesType
<1>5. ASSUME NEW i \in 1 .. Len(y) + Len(s)
      PROVE  (x \o s)[n + i] = (y \o s)[i]
  <2>1. n + i \in 1 .. Len(x) + Len(s)
    BY <1>1, <1>4, SMT
  <2>2. CASE i <= Len(y)
    <3>1. i \in 1 .. Len(y) /\ n + i <= Len(x)
      BY <1>1, <1>4, <2>2, SMT
    <3> QED
      BY <1>1, <1>2, <1>3, <2>1, <2>2, <3>1
  <2>3. CASE ~(i <= Len(y))
    <3>1. ~(n + i <= Len(x)) /\ n + i - Len(x) = i - Len(y)
      BY <1>1, <1>4, <2>3, SMT
    <3>2. (x \o s)[n + i] = s[n + i - Len(x)]
      BY <1>2, <2>1, <3>1
    <3>3. (y \o s)[i] = s[i - Len(y)]
      BY <1>3, <2>3
    <3> QED
      BY <3>1, <3>2, <3>3
  <2> QED
    BY <2>2, <2>3
<1>6. Len(x \o s) = n + Len(y \o s)
  BY <1>1, <1>2, <1>3, <1>4, SMT
<1> QED
  BY <1>3, <1>5, <1>6 DEF Behind

\* The blocks that x had, and those that its rest makes with s, are the blocks of
\* x and s.
LEMMA MoreBlocks ==
  ASSUME NEW x \in Seq(Byte), NEW k \in Nat, NEW b, Blocks(b, x, k),
         NEW y, Behind(y, x, 64*k), NEW s \in Seq(Byte),
         NEW l \in Nat, NEW r \in 0 .. 63, Len(y \o s) = 64*l + r
  PROVE  Blocks(b \o Hash!BlocksOf(y \o s), x \o s, k + l)
<1> DEFINE c == Hash!BlocksOf(y \o s)
           z == x \o s
<1>1. 64*k \in Nat /\ Len(x) \in Nat /\ Len(s) \in Nat
  BY BytesType
<1>2. y \o s \in Seq(Byte) /\ Behind(y \o s, z, 64*k)
  <2>1. y \in Seq(Byte)
    BY DEF Behind
  <2> QED
    BY <1>1, <2>1, BehindGrows, ConcatProperties
<1>3. Blocks(c, y \o s, l)
  BY <1>2, CutUp
<1>4. /\ b \in Seq(Seq(Byte)) /\ Len(b) = k /\ c \in Seq(Seq(Byte)) /\ Len(c) = l
      /\ 64*k <= Len(x) /\ 64*l <= Len(y \o s) /\ Len(z) = 64*k + Len(y \o s)
  BY <1>2, <1>3 DEF Blocks, Behind
<1> HIDE DEF c
<1>5. /\ b \o c \in Seq(Seq(Byte)) /\ Len(b \o c) = k + l
      /\ \A j \in 1 .. k + l : (b \o c)[j] = IF j <= k THEN b[j] ELSE c[j - k]
  <2>1. b \in Seq(Seq(Byte)) /\ c \in Seq(Seq(Byte))
    BY <1>4
  <2>2. /\ b \o c \in Seq(Seq(Byte)) /\ Len(b \o c) = Len(b) + Len(c)
        /\ \A j \in 1 .. Len(b) + Len(c) :
             (b \o c)[j] = IF j <= Len(b) THEN b[j] ELSE c[j - Len(b)]
    BY <2>1, ConcatProperties
  <2> QED
    BY <1>4, <2>2
<1>6. 64*(k + l) <= Len(z)
  BY <1>4, SMT
<1>7. ASSUME NEW j \in 1 .. k + l
      PROVE  /\ Len((b \o c)[j]) = 64
             /\ \A i \in 1 .. 64 : (b \o c)[j][i] = z[64*(j - 1) + i]
  <2>1. CASE j <= k
    <3>1. j \in 1 .. k /\ (b \o c)[j] = b[j]
      BY <1>5, <2>1
    <3>2. Len(b[j]) = 64 /\ \A i \in 1 .. 64 : b[j][i] = x[64*(j - 1) + i]
      BY <3>1 DEF Blocks
    <3>3. \A i \in 1 .. Len(x) : z[i] = x[i]
      BY <1>1, ConcatProperties
    <3>4. \A i \in 1 .. 64 : 64*(j - 1) + i \in 1 .. Len(x)
      BY <1>1, <1>4, <2>1, SMT
    <3> QED
      BY <3>1, <3>2, <3>3, <3>4
  <2>2. CASE ~(j <= k)
    <3>1. PICK h \in 1 .. l : j = k + h /\ j - k = h
      BY <2>2, SMT
    <3>2. (b \o c)[j] = c[h]
      BY <1>5, <2>2, <3>1
    <3>3. Len(c[h]) = 64 /\ \A i \in 1 .. 64 : c[h][i] = (y \o s)[64*(h - 1) + i]
      BY <1>3 DEF Blocks
    <3>4. \A i \in 1 .. Len(y \o s) : z[64*k + i] = (y \o s)[i]
      BY <1>2 DEF Behind
    <3>5. \A i \in 1 .. 64 : /\ 64*(h - 1) + i \in 1 .. Len(y \o s)
                             /\ 64*k + (64*(h - 1) + i) = 64*(j - 1) + i
      BY <1>4, <3>1, SMT
    <3>6. ASSUME NEW i \in 1 .. 64
          PROVE  (b \o c)[j][i] = z[64*(j - 1) + i]
      <4>1. z[64*k + (64*(h - 1) + i)] = (y \o s)[64*(h - 1) + i]
        BY <3>4, <3>5
      <4> QED
        BY <3>2, <3>3, <3>5, <4>1
    <3> QED
      BY <3>2, <3>3, <3>6
  <2> QED
    BY <2>1, <2>2
<1> QED
  BY <1>5, <1>6, <1>7 DEF Blocks, c

\* o is what a Sha1 becomes that is given the bytes x.
Holding(o, x) ==
  \E k \in Nat : /\ Blocks(o.blocks, x, k) /\ Behind(o.buf, x, 64*k) /\ Len(o.buf) < 64
                 /\ o.bits = 8 * Len(x)

LEMMA NewHolds == Holding(Hash!New, <<>>)
<1>1. <<>> \in Seq(Byte) /\ <<>> \in Seq(Seq(Byte)) /\ Len(<<>>) = 0
  BY EmptySeq
<1>2. Blocks(<<>>, <<>>, 0) /\ Behind(<<>>, <<>>, 64*0)
  BY <1>1 DEF Blocks, Behind
<1> QED
  BY <1>1, <1>2 DEF Holding, Hash!New

LEMMA BehindBehind ==
  ASSUME NEW x \in Seq(Byte), NEW n \in Nat, NEW y, Behind(y, x, n),
         NEW m \in Nat, NEW z, Behind(z, y, m)
  PROVE  Behind(z, x, n + m)
<1>1. /\ y \in Seq(Byte) /\ Len(x) = n + Len(y) /\ \A i \in 1 .. Len(y) : x[n + i] = y[i]
      /\ z \in Seq(Byte) /\ Len(y) = m + Len(z) /\ \A i \in 1 .. Len(z) : y[m + i] = z[i]
  BY DEF Behind
<1>2. Len(x) \in Nat /\ Len(y) \in Nat /\ Len(z) \in Nat
  BY <1>1, BytesType
<1>3. ASSUME NEW i \in 1 .. Len(z)
      PROVE  x[n + m + i] = z[i]
  <2>1. PICK j \in 1 .. Len(y) : j = m + i /\ n + m + i = n + j
    BY <1>1, <1>2, SMT
  <2> QED
    BY <1>1, <2>1
<1>4. Len(x) = n + m + Len(z)
  BY <1>1, <1>2, SMT
<1> QED
  BY <1>1, <1>3, <1>4 DEF Behind

\* update() keeps what it has and adds what it gets.
LEMMA UpdateHolds ==
  ASSUME NEW o, NEW x \in Seq(Byte), Holding(o, x), NEW s \in Seq(Byte)
  PROVE  Holding(Hash!update(o, s), x \o s)
<1>0. PICK buf, u : buf = o.buf \o s /\ u = Hash!update(o, s)
  OBVIOUS
<1>1. PICK k \in Nat : /\ Blocks(o.blocks, x, k) /\ Behind(o.buf, x, 64*k)
                       /\ o.bits = 8 * Len(x)
  BY DEF Holding
<1>2. o.buf \in Seq(Byte)
  BY <1>1 DEF Behind
<1>3. /\ buf \in Seq(Byte) /\ Len(buf) \in Nat /\ x \o s \in Seq(Byte)
      /\ Len(x \o s) = Len(x) + Len(s) /\ Len(x) \in Nat /\ Len(s) \in Nat
  BY <1>0, <1>2, ConcatProperties, BytesType
<1>4. PICK l \in Nat, r \in 0 .. 63 : r = Len(buf) % 64 /\ Len(buf) = 64*l + r
  <2>1. PICK n \in Nat : n = Len(buf)
    BY <1>3
  <2>2. n \div 64 \in Nat /\ n % 64 \in 0 .. 63 /\ n = 64*(n \div 64) + (n % 64)
    BY SMT
  <2> QED
    BY <2>1, <2>2
<1>5. /\ u.blocks = o.blocks \o Hash!BlocksOf(buf) /\ u.bits = o.bits + 8 * Len(s)
      /\ u.buf = SubSeq(buf, Len(buf) - (Len(buf) % 64) + 1, Len(buf))
  BY <1>0 DEF Hash!update, Hash!BlockLen
<1>6. Blocks(u.blocks, x \o s, k + l)
  <2>1. Len(o.buf \o s) = 64*l + r
    BY <1>0, <1>4
  <2>2. Blocks(o.blocks \o Hash!BlocksOf(o.buf \o s), x \o s, k + l)
    BY <1>1, <2>1, MoreBlocks
  <2> QED
    BY <1>0, <1>5, <2>2
<1>7. Behind(u.buf, buf, 64*l) /\ Len(u.buf) < 64
  <2>0. 64*l + 1 \in Nat
    OBVIOUS
  <2>1. PICK m \in Nat, n \in Nat : m = 64*l + 1 /\ n = Len(buf)
    BY <1>3, <2>0
  <2>2. /\ m >= 1 /\ n <= Len(buf) /\ m <= n + 1 /\ n + 1 - m = r /\ n = 64*l + r
        /\ m = Len(buf) - r + 1 /\ \A i \in 1 .. r : m - 1 + i = 64*l + i
    BY <1>4, <2>1, SMT
  <2>3. u.buf = SubSeq(buf, m, n)
    BY <1>4, <1>5, <2>1, <2>2
  <2>4. /\ SubSeq(buf, m, n) \in Seq(Byte) /\ Len(SubSeq(buf, m, n)) = n + 1 - m
        /\ \A i \in 1 .. n + 1 - m : SubSeq(buf, m, n)[i] = buf[m - 1 + i]
    BY <1>3, <2>2, PartOf
  <2>5. u.buf \in Seq(Byte) /\ Len(u.buf) = r /\ \A i \in 1 .. r : buf[64*l + i] = u.buf[i]
    BY <2>2, <2>3, <2>4
  <2> QED
    BY <1>4, <2>5 DEF Behind
<1>8. Behind(u.buf, x \o s, 64*(k + l))
  <2>1. 64*k \in Nat /\ 64*l \in Nat /\ 64*k + 64*l = 64*(k + l)
    BY SMT
  <2>2. Behind(buf, x \o s, 64*k)
    BY <1>0, <1>1, <2>1, BehindGrows
  <2>3. Behind(u.buf, x \o s, 64*k + 64*l)
    BY <1>3, <1>7, <2>1, <2>2, BehindBehind
  <2> QED
    BY <2>1, <2>3
<1>9. u.bits = 8 * Len(x \o s)
  BY <1>1, <1>3, <1>5, SMT
<1>10. k + l \in Nat
  OBVIOUS
<1>11. Holding(u, x \o s)
  BY <1>6, <1>7, <1>8, <1>9, <1>10 DEF Holding
<1> QED
  BY <1>0, <1>11

\* The length in 8 bytes.
Count == {n \in Nat : n < 2147483648}

LEMMA Bytes8Is ==
  ASSUME NEW n \in Count
  PROVE  /\ Hash!Bytes8(n) \in Seq(Byte) /\ Len(Hash!Bytes8(n)) = 8
         /\ \A i \in 1 .. 4 : Hash!Bytes8(n)[i] = 0
         /\ ((Hash!Bytes8(n)[5] * 256 + Hash!Bytes8(n)[6]) * 256 + Hash!Bytes8(n)[7]) * 256
              + Hash!Bytes8(n)[8] = n
<1> DEFINE a == (n \div 16777216) % 256
           b == (n \div 65536) % 256
           c == (n \div 256) % 256
           d == n % 256
<1>0. n \in Nat /\ n < 2147483648
  BY SMT DEF Count
<1>1. a \in Byte /\ b \in Byte /\ c \in Byte /\ d \in Byte /\ 0 \in Byte
  BY <1>0, SMT DEF Byte
<1>2. ((a * 256 + b) * 256 + c) * 256 + d = n
  <2>1. a * 256 + b = n \div 65536
    BY <1>0, SMT
  <2>2. (n \div 65536) * 256 + c = n \div 256
    BY <1>0, SMT
  <2>3. (n \div 256) * 256 + d = n
    BY <1>0, SMT
  <2> QED
    BY <2>1, <2>2, <2>3
<1>3. Hash!Bytes8(n) = <<0, 0, 0, 0, a, b, c, d>>
  BY <1>0, SMT DEF Hash!Bytes8
<1> HIDE DEF a, b, c, d
<1> QED
  BY <1>1, <1>2, <1>3, SMT

\* Two parts of some bytes.
LEMMA PartsOf ==
  ASSUME NEW a \in Seq(Byte), NEW b \in Seq(Byte)
  PROVE  /\ a \o b \in Seq(Byte) /\ Len(a \o b) = Len(a) + Len(b)
         /\ \A i \in 1 .. Len(a) : (a \o b)[i] = a[i]
         /\ \A i \in 1 .. Len(b) : (a \o b)[Len(a) + i] = b[i]
<1>1. /\ a \o b \in Seq(Byte) /\ Len(a \o b) = Len(a) + Len(b)
      /\ \A i \in 1 .. Len(a) + Len(b) : (a \o b)[i] = IF i <= Len(a) THEN a[i] ELSE b[i - Len(a)]
  BY ConcatProperties
<1>2. Len(a) \in Nat /\ Len(b) \in Nat
  BY BytesType
<1>3. \A i \in 1 .. Len(a) : i \in 1 .. Len(a) + Len(b) /\ i <= Len(a)
  BY <1>2, SMT
<1>4. \A i \in 1 .. Len(b) : /\ Len(a) + i \in 1 .. Len(a) + Len(b) /\ ~(Len(a) + i <= Len(a))
                             /\ Len(a) + i - Len(a) = i
  BY <1>2, SMT
<1> QED
  BY <1>1, <1>3, <1>4

\* What finalize() puts behind a message of n bits.
Zeros(z) == [i \in 1 .. z |-> 0]
Pad(z, n) == <<128>> \o (Zeros(z) \o Hash!Bytes8(n))

LEMMA ZerosAre ==
  ASSUME NEW z \in 0 .. 63
  PROVE  Zeros(z) \in Seq(Byte) /\ Len(Zeros(z)) = z /\ \A i \in 1 .. z : Zeros(z)[i] = 0
<1>1. Zeros(z) \in [1 .. z -> Byte] /\ z \in Nat
  BY DEF Zeros, Byte
<1>2. Zeros(z) \in Seq(Byte) /\ Len(Zeros(z)) = z
  BY <1>1
<1>3. \A i \in 1 .. z : Zeros(z)[i] = 0
  BY DEF Zeros
<1> QED
  BY <1>2, <1>3

LEMMA OneIs == <<128>> \in Seq(Byte) /\ Len(<<128>>) = 1 /\ <<128>>[1] = 128
<1>1. 128 \in Byte
  BY DEF Byte
<1> QED
  BY <1>1

IsPad(p, z, n) ==
  /\ p \in Seq(Byte) /\ Len(p) = z + 9
  /\ p[1] = 128 /\ \A i \in 2 .. z + 5 : p[i] = 0
  /\ ((p[z + 6] * 256 + p[z + 7]) * 256 + p[z + 8]) * 256 + p[z + 9] = n

LEMMA PadIs ==
  ASSUME NEW z \in 0 .. 63, NEW n \in Count, NEW p, p = Pad(z, n)
  PROVE  IsPad(p, z, n)
<1>1. PICK f \in Seq(Byte) : f = Hash!Bytes8(n) /\ Len(f) = 8 /\ \A i \in 1 .. 4 : f[i] = 0
  BY Bytes8Is
<1>2. ((f[5] * 256 + f[6]) * 256 + f[7]) * 256 + f[8] = n
  BY <1>1, Bytes8Is
<1>3. PICK o \in Seq(Byte), t \in Seq(Byte) :
        t = o \o f /\ o = Zeros(z) /\ Len(o) = z /\ \A i \in 1 .. z : o[i] = 0
  BY ZerosAre, PartsOf
<1>4. /\ Len(t) = z + 8 /\ \A i \in 1 .. z : t[i] = 0
      /\ \A i \in 1 .. 8 : t[z + i] = f[i]
  <2>1. /\ Len(t) = Len(o) + Len(f) /\ \A i \in 1 .. Len(o) : t[i] = o[i]
        /\ \A i \in 1 .. Len(f) : t[Len(o) + i] = f[i]
    BY <1>3, PartsOf
  <2> QED
    BY <1>1, <1>3, <2>1
<1>5. /\ p \in Seq(Byte) /\ Len(p) = 1 + (z + 8) /\ p[1] = 128
      /\ \A i \in 1 .. z + 8 : p[1 + i] = t[i]
  <2>1. p = <<128>> \o t
    BY <1>1, <1>3 DEF Pad
  <2>2. /\ p \in Seq(Byte) /\ Len(p) = Len(<<128>>) + Len(t)
        /\ \A i \in 1 .. Len(<<128>>) : p[i] = <<128>>[i]
        /\ \A i \in 1 .. Len(t) : p[Len(<<128>>) + i] = t[i]
    BY <2>1, OneIs, PartsOf
  <2> QED
    BY <1>4, <2>2, OneIs
<1>6. ASSUME NEW i \in 2 .. z + 5
      PROVE  p[i] = 0
  <2>1. PICK j \in 1 .. z + 8 : i = 1 + j /\ j <= z + 4
    BY SMT
  <2>2. p[i] = t[j]
    BY <1>5, <2>1
  <2>3. CASE j <= z
    <3>1. j \in 1 .. z
      BY <2>3
    <3> QED
      BY <1>4, <2>2, <3>1
  <2>4. CASE ~(j <= z)
    <3>1. PICK h \in 1 .. 4 : j = z + h /\ h \in 1 .. 8
      BY <2>1, <2>4, SMT
    <3> QED
      BY <1>1, <1>4, <2>2, <3>1
  <2> QED
    BY <2>3, <2>4
<1>7. ASSUME NEW k \in 5 .. 8, NEW i, i = z + 1 + k
      PROVE  p[i] = f[k]
  <2>1. PICK j \in 1 .. z + 8 : j = z + k /\ i = 1 + j
    BY <1>7, SMT
  <2>2. p[i] = t[j]
    BY <1>5, <2>1
  <2>3. k \in 1 .. 8
    OBVIOUS
  <2> QED
    BY <1>4, <2>1, <2>2, <2>3
<1>8. Len(p) = z + 9
  BY <1>5, SMT
<1>9. p[z + 6] = f[5] /\ p[z + 7] = f[6] /\ p[z + 8] = f[7] /\ p[z + 9] = f[8]
  <2>1. z + 6 = z + 1 + 5 /\ z + 7 = z + 1 + 6 /\ z + 8 = z + 1 + 7 /\ z + 9 = z + 1 + 8
    BY SMT
  <2> QED
    BY <1>7, <2>1
<1> QED
  BY <1>2, <1>5, <1>6, <1>8, <1>9 DEF IsPad

LEMMA PadType ==
  ASSUME NEW z \in 0 .. 63, NEW n \in Count
  PROVE  Pad(z, n) \in Seq(Byte) /\ Len(Pad(z, n)) = z + 9
<1>1. IsPad(Pad(z, n), z, n)
  BY PadIs
<1> QED
  BY <1>1 DEF IsPad

\* Sequences of bytes go together in any grouping.
LEMMA BytesAssociate ==
  ASSUME NEW a \in Seq(Byte), NEW b \in Seq(Byte), NEW c \in Seq(Byte), NEW x, x = a \o b
  PROVE  x \o c = a \o (b \o c)
BY ConcatAssociative

LEMMA BytesTogether == \A a, b \in Seq(Byte) : a \o b \in Seq(Byte)
BY ConcatProperties

LEMMA PadBehind ==
  ASSUME NEW b \in Seq(Byte), NEW z \in 0 .. 63, NEW n \in Count
  PROVE  ((b \o <<128>>) \o Zeros(z)) \o Hash!Bytes8(n) = b \o Pad(z, n)
<1>1. PICK e \in Seq(Byte) : e = <<128>>
  BY OneIs
<1>2. PICK s \in Seq(Byte) : s = Zeros(z)
  BY ZerosAre
<1>3. PICK f \in Seq(Byte) : f = Hash!Bytes8(n)
  BY Bytes8Is
<1>4. PICK g \in Seq(Byte) : g = b \o e
  BY BytesTogether
<1>5. PICK t \in Seq(Byte) : t = s \o f
  BY BytesTogether
<1>6. g \o t = b \o (e \o t)
  BY <1>4, BytesAssociate, SMTT(40)
<1>7. PICK u \in Seq(Byte) : u = g \o s
  BY BytesTogether
<1>8. u \o f = g \o (s \o f)
  BY <1>7, BytesAssociate, SMTT(40)
<1>9. Pad(z, n) = e \o t
  BY <1>1, <1>2, <1>3, <1>5, Zenon DEF Pad
<1>10. ((b \o e) \o s) \o f = b \o Pad(z, n)
  BY <1>4, <1>5, <1>6, <1>7, <1>8, <1>9, Zenon
<1> QED
  BY <1>1, <1>2, <1>3, <1>10, Zenon

LEMMA Below64 == \A m \in Nat : m < 64 => m \in 0 .. 63
OBVIOUS

\* finalize() fills up behind what it has.
LEMMA FinalizeIs ==
  ASSUME NEW o, o.buf \in Seq(Byte), Len(o.buf) < 64, NEW n \in Count, o.bits = n
  PROVE  \E z \in 0 .. 63, l \in Nat :
           /\ Hash!finalize(o) = o.blocks \o Hash!BlocksOf(o.buf \o Pad(z, n))
           /\ Len(o.buf \o Pad(z, n)) = 64*l + 0
<1>1. PICK b \in Seq(Byte) : b = o.buf
  OBVIOUS
<1>2. PICK c \in 0 .. 63 : c = Len(b)
  <2>1. PICK m \in Nat : m = Len(b) /\ m < 64
    BY <1>1, BytesType
  <2>2. m \in 0 .. 63
    BY <2>1, Below64
  <2> QED
    BY <2>1, <2>2
<1>3. PICK z \in 0 .. 63, l \in Nat : z = (64 - 8 - (c + 1)) % 64 /\ c + (z + 9) = 64*l
  <2>1. CASE c <= 55
    <3>1. (64 - 8 - (c + 1)) % 64 = 55 - c
      BY <2>1, SMT
    <3>2. 55 - c \in 0 .. 63 /\ c + ((55 - c) + 9) = 64*1
      BY <2>1, SMT
    <3> QED
      BY <3>1, <3>2
  <2>2. CASE ~(c <= 55)
    <3>1. (64 - 8 - (c + 1)) % 64 = 119 - c
      <4>1. PICK d \in 1 .. 8 : c = 55 + d
        BY <2>2, SMT
      <4>2. 64 - 8 - (c + 1) = -d /\ (-d) % 64 = 64 - d /\ 119 - c = 64 - d
        BY <4>1, SMT
      <4> QED
        BY <4>2
    <3>2. 119 - c \in 0 .. 63 /\ c + ((119 - c) + 9) = 64*2
      BY <2>2, SMT
    <3> QED
      BY <3>1, <3>2
  <2> QED
    BY <2>1, <2>2
<1>4. PICK e \in Seq(Byte), s \in Seq(Byte), f \in Seq(Byte) :
        e = <<128>> /\ s = Zeros(z) /\ f = Hash!Bytes8(n)
  <2>1. Hash!Bytes8(n) \in Seq(Byte)
    BY Bytes8Is
  <2> QED
    BY <2>1, OneIs, ZerosAre
<1>5. Append(b, 128) = b \o e
  <2>1. 128 \in Byte
    BY DEF Byte
  <2>2. Append(b, 128) = b \o <<128>>
    BY <2>1, AppendIsConcat
  <2> QED
    BY <1>4, <2>2
<1>6. b \o e \in Seq(Byte) /\ Len(b \o e) = c + 1
  BY <1>2, <1>4, OneIs, PartsOf
<1>7. Hash!Filled(b \o e) = (b \o e) \o s
  <2>1. Hash!Filled(b \o e) = (b \o e) \o Zeros((64 - 8 - Len(b \o e)) % 64)
    BY DEF Hash!Filled, Hash!BlockLen, Zeros
  <2> QED
    BY <1>3, <1>4, <1>6, <2>1
<1>8. Hash!finalize(o) = o.blocks \o Hash!BlocksOf(((b \o e) \o s) \o f)
  <2>1. Hash!finalize(o)
          = o.blocks \o Hash!BlocksOf(Hash!Filled(Append(o.buf, 128)) \o Hash!Bytes8(o.bits))
    BY DEF Hash!finalize
  <2>2. Hash!Filled(Append(o.buf, 128)) = (b \o e) \o s
    BY <1>1, <1>5, <1>7
  <2>3. Hash!Bytes8(o.bits) = f
    BY <1>4
  <2> QED
    BY <2>1, <2>2, <2>3
<1>9. ((b \o e) \o s) \o f = b \o Pad(z, n)
  <2>1. ((b \o <<128>>) \o Zeros(z)) \o Hash!Bytes8(n) = b \o Pad(z, n)
    BY PadBehind, Zenon
  <2>2. e = <<128>> /\ s = Zeros(z) /\ f = Hash!Bytes8(n)
    BY <1>4
  <2> QED
    BY <2>1, <2>2, Zenon
<1>10. Len(b \o Pad(z, n)) = 64*l + 0
  <2>0. PICK p : p = Pad(z, n)
    OBVIOUS
  <2>1. p \in Seq(Byte) /\ Len(p) = z + 9
    BY <2>0, PadType
  <2>2. Len(b \o p) = Len(b) + Len(p)
    BY <2>1, PartsOf
  <2>3. Len(b \o p) = c + (z + 9)
    BY <1>2, <2>1, <2>2
  <2>4. 64*l = 64*l + 0
    BY SMT
  <2> QED
    BY <1>3, <2>0, <2>3, <2>4
<1> QED
  BY <1>1, <1>8, <1>9, <1>10

\* So the blocks are the message and what the standard has behind it.
LEMMA FinalizeBlocks ==
  ASSUME NEW m \in Seq(Byte), 8 * Len(m) \in Count, NEW o, Holding(o, m)
  PROVE  \E z \in 0 .. 63, h \in Nat :
           /\ Blocks(Hash!finalize(o), m \o Pad(z, 8 * Len(m)), h)
           /\ 64*h = Len(m) + (z + 9)
<1>1. PICK k \in Nat : /\ Blocks(o.blocks, m, k) /\ Behind(o.buf, m, 64*k)
                       /\ Len(o.buf) < 64 /\ o.bits = 8 * Len(m)
  BY DEF Holding
<1>2. o.buf \in Seq(Byte) /\ Len(m) = 64*k + Len(o.buf)
  BY <1>1 DEF Behind
<1>3. PICK n \in Count : n = 8 * Len(m)
  OBVIOUS
<1>4. PICK z \in 0 .. 63, l \in Nat :
        /\ Hash!finalize(o) = o.blocks \o Hash!BlocksOf(o.buf \o Pad(z, n))
        /\ Len(o.buf \o Pad(z, n)) = 64*l + 0
  <2>1. o.buf \in Seq(Byte) /\ Len(o.buf) < 64 /\ o.bits = n
    BY <1>1, <1>2, <1>3
  <2>2. \E z \in 0 .. 63, l \in Nat :
          /\ Hash!finalize(o) = o.blocks \o Hash!BlocksOf(o.buf \o Pad(z, n))
          /\ Len(o.buf \o Pad(z, n)) = 64*l + 0
    BY <2>1, FinalizeIs
  <2> QED
    BY <2>2
<1>5. Pad(z, n) \in Seq(Byte) /\ Len(Pad(z, n)) = z + 9
  BY PadType
<1>6. 0 \in 0 .. 63
  OBVIOUS
<1>7. Blocks(o.blocks \o Hash!BlocksOf(o.buf \o Pad(z, n)), m \o Pad(z, n), k + l)
  BY <1>1, <1>4, <1>5, <1>6, MoreBlocks
<1>8. 64*(k + l) = Len(m) + (z + 9)
  <2>1. Len(o.buf \o Pad(z, n)) = Len(o.buf) + Len(Pad(z, n))
    BY <1>2, <1>5, PartsOf
  <2>2. Len(o.buf) \in Nat /\ Len(m) \in Nat
    BY <1>2, BytesType
  <2>3. 64*l + 0 = Len(o.buf) + (z + 9)
    BY <1>4, <1>5, <2>1
  <2>4. PICK c \in Nat, d \in Nat : c = Len(o.buf) /\ d = Len(m)
    BY <2>2
  <2>5. d = 64*k + c /\ 64*l + 0 = c + (z + 9)
    BY <1>2, <2>3, <2>4
  <2>6. 64*(k + l) = d + (z + 9)
    BY <2>5, SMT
  <2> QED
    BY <2>4, <2>6
<1>9. k + l \in Nat
  OBVIOUS
<1> QED
  BY <1>3, <1>4, <1>7, <1>8, <1>9

LEMMA InBlocks ==
  ASSUME NEW h \in Nat, NEW i \in 1 .. 64*h
  PROVE  /\ (i - 1) \div 64 + 1 \in 1 .. h /\ ((i - 1) % 64) + 1 \in 1 .. 64
         /\ 64*((i - 1) \div 64 + 1 - 1) + (((i - 1) % 64) + 1) = i
<1>1. PICK y \in Nat : y = i - 1 /\ y < 64*h /\ y + 1 = i
  BY SMT
<1>2. /\ y \div 64 + 1 \in 1 .. h /\ (y % 64) + 1 \in 1 .. 64
      /\ 64*(y \div 64 + 1 - 1) + ((y % 64) + 1) = y + 1
  BY <1>1, SMT
<1> QED
  BY <1>1, <1>2

LEMMA FinalizePads ==
  ASSUME NEW m \in Seq(Byte), 8 * Len(m) \in Count, NEW o, Holding(o, m)
  PROVE  Pads(Hash!finalize(o), m)
<1>1. PICK z \in 0 .. 63, h \in Nat :
        /\ Blocks(Hash!finalize(o), m \o Pad(z, 8 * Len(m)), h)
        /\ 64*h = Len(m) + (z + 9)
  BY FinalizeBlocks
<1>0. PICK n \in Nat : n = Len(m) /\ 8*n \in Count
  BY BytesType
<1>2. PICK b, p : b = Hash!finalize(o) /\ p = Pad(z, 8*n)
  OBVIOUS
<1>3. /\ p \in Seq(Byte) /\ Len(p) = z + 9 /\ p[1] = 128 /\ \A i \in 2 .. z + 5 : p[i] = 0
      /\ ((p[z + 6] * 256 + p[z + 7]) * 256 + p[z + 8]) * 256 + p[z + 9] = 8*n
  <2>1. IsPad(p, z, 8*n)
    BY <1>0, <1>2, PadIs
  <2> QED
    BY <2>1 DEF IsPad
<1>4. PICK x \in Seq(Byte) : x = m \o p /\ Blocks(b, x, h)
  BY <1>0, <1>1, <1>2, <1>3, PartsOf
<1>5. (\A i \in 1 .. n : x[i] = m[i]) /\ \A i \in 1 .. z + 9 : x[n + i] = p[i]
  BY <1>0, <1>3, <1>4, PartsOf
<1>6. /\ b \in Seq(Seq(Byte)) /\ Len(b) = h
      /\ \A j \in 1 .. h : Len(b[j]) = 64 /\ \A i \in 1 .. 64 : b[j][i] = x[64*(j - 1) + i]
  BY <1>4 DEF Blocks
<1>7. ASSUME NEW i \in 1 .. 64*h
      PROVE  b[(i - 1) \div 64 + 1][((i - 1) % 64) + 1] = x[i]
  <2>1. PICK j \in 1 .. h, w \in 1 .. 64 :
          j = (i - 1) \div 64 + 1 /\ w = ((i - 1) % 64) + 1 /\ 64*(j - 1) + w = i
    BY InBlocks
  <2>2. b[j][w] = x[64*(j - 1) + w]
    BY <1>6
  <2> QED
    BY <2>1, <2>2
<1>8. DOMAIN b = 1 .. h
  BY <1>6, LenProperties
<1>9. 64*h = n + (z + 9)
  BY <1>0, <1>1
<1> DEFINE t(i) == b[(i - 1) \div 64 + 1][((i - 1) % 64) + 1]
<1>10. \A i \in 1 .. 64*h : t(i) = x[i]
  BY <1>7
<1> HIDE DEF t
<1>11. \A i \in 1 .. n : t(i) = m[i]
  <2>1. \A i \in 1 .. n : i \in 1 .. 64*h
    BY <1>9, SMT
  <2> QED
    BY <1>5, <1>10, <2>1
<1>12. ASSUME NEW j \in 1 .. z + 9, NEW i, i = n + j
       PROVE  t(i) = p[j]
  <2>1. i \in 1 .. 64*h
    BY <1>9, <1>12, SMT
  <2> QED
    BY <1>5, <1>10, <1>12, <2>1
<1>13. t(n + 1) = 128
  <2>1. 1 \in 1 .. z + 9
    BY SMT
  <2> QED
    BY <1>3, <1>12, <2>1
<1>14. ASSUME NEW i \in n + 2 .. 64*h - 4
       PROVE  t(i) = 0
  <2>1. PICK j \in 2 .. z + 5 : i = n + j /\ j \in 1 .. z + 9
    BY <1>9, SMT
  <2>2. t(i) = p[j]
    BY <1>12, <2>1
  <2> QED
    BY <1>3, <2>1, <2>2
<1>15. ((t(64*h - 3) * 256 + t(64*h - 2)) * 256 + t(64*h - 1)) * 256 + t(64*h) = 8*n
  <2>1. /\ 64*h - 3 = n + (z + 6) /\ 64*h - 2 = n + (z + 7) /\ 64*h - 1 = n + (z + 8)
        /\ 64*h = n + (z + 9)
        /\ z + 6 \in 1 .. z + 9 /\ z + 7 \in 1 .. z + 9 /\ z + 8 \in 1 .. z + 9
        /\ z + 9 \in 1 .. z + 9
    BY <1>9, SMT
  <2>2. t(64*h - 3) = p[z + 6]
    BY <1>12, <2>1
  <2>3. t(64*h - 2) = p[z + 7]
    BY <1>12, <2>1
  <2>4. t(64*h - 1) = p[z + 8]
    BY <1>12, <2>1
  <2>5. t(64*h) = p[z + 9]
    BY <1>12, <2>1
  <2> QED
    BY <1>3, <2>2, <2>3, <2>4, <2>5
<1>16. 64*h \in n + 9 .. n + 72
  BY <1>9, SMT
<1>17. Pads(b, m) <=>
         /\ 64 * Len(b) \in Len(m) + 9 .. Len(m) + 72 /\ \A j \in DOMAIN b : Len(b[j]) = 64
         /\ \A i \in 1 .. Len(m) : t(i) = m[i]
         /\ t(Len(m) + 1) = 128
         /\ \A i \in Len(m) + 2 .. 64 * Len(b) - 4 : t(i) = 0
         /\ ((t(64 * Len(b) - 3) * 256 + t(64 * Len(b) - 2)) * 256 + t(64 * Len(b) - 1)) * 256
              + t(64 * Len(b)) = 8 * Len(m)
  BY DEF Pads, t
<1>18. Pads(b, m) <=>
         /\ 64*h \in n + 9 .. n + 72 /\ \A j \in DOMAIN b : Len(b[j]) = 64
         /\ \A i \in 1 .. n : t(i) = m[i]
         /\ t(n + 1) = 128
         /\ \A i \in n + 2 .. 64*h - 4 : t(i) = 0
         /\ ((t(64*h - 3) * 256 + t(64*h - 2)) * 256 + t(64*h - 1)) * 256 + t(64*h) = 8*n
  BY <1>0, <1>6, <1>17
<1>19. \A j \in DOMAIN b : Len(b[j]) = 64
  BY <1>6, <1>8
<1>20. Pads(b, m)
  BY <1>11, <1>13, <1>14, <1>15, <1>16, <1>18, <1>19
<1> QED
  BY <1>2, <1>20

-----------------------------------------------------------------------------
(* Upgrade.                                                                *)

\* What a client means does not change.
THEOREM AskedHolds == USpec => [](asked \in Asked)
<1>1. UInit => asked \in Asked
  BY DEF UInit
<1>2. asked \in Asked /\ [UNext]_uvars => (asked \in Asked)'
  BY DEF UNext, uvars
<1> QED
  BY <1>1, <1>2, PTL DEF USpec

\* Padded, for all keys that Asked may have, and any GUID.
LEMMA AskedPadded ==
  ASSUME asked \in Asked
  PROVE  Padded
<1>1. PICK m \in Seq(Byte) : m = asked.nonce \o GUID /\ 8 * Len(m) \in Count
  <2>1. GUID \in Seq(Byte) /\ asked.nonce \in Seq(Byte)
    BY UpgradeAssumption DEF Byte
  <2>2. Len(asked.nonce) + Len(GUID) < 268435456
    BY UpgradeAssumption, SMT
  <2>3. /\ asked.nonce \o GUID \in Seq(Byte)
        /\ Len(asked.nonce \o GUID) = Len(asked.nonce) + Len(GUID)
        /\ Len(asked.nonce \o GUID) \in Nat
    BY <2>1, PartsOf, BytesType, SMT
  <2>4. 8 * Len(asked.nonce \o GUID) \in Count
    BY <2>2, <2>3, SMT DEF Count
  <2> QED
    BY <2>3, <2>4
<1>2. ASSUME NEW k \in 0 .. Len(m)
      PROVE  Pads(Hash!finalize(Hash!update(Hash!update(Hash!New, SubSeq(m, 1, k)),
                                            SubSeq(m, k + 1, Len(m)))), m)
  <2>1. Len(m) \in Nat
    BY BytesType
  <2>2. PICK a \in Seq(Byte), b \in Seq(Byte) :
          a = SubSeq(m, 1, k) /\ b = SubSeq(m, k + 1, Len(m)) /\ a \o b = m
    <3>1. /\ 1 \in Nat /\ 1 >= 1 /\ k \in Nat /\ k <= Len(m) /\ 1 <= k + 1
          /\ k + 1 \in Nat /\ k + 1 >= 1 /\ k + 1 <= Len(m) + 1 /\ Len(m) <= Len(m)
      BY <2>1, SMT
    <3>2. /\ SubSeq(m, 1, k) \in Seq(Byte) /\ Len(SubSeq(m, 1, k)) = k + 1 - 1
          /\ \A i \in 1 .. k + 1 - 1 : SubSeq(m, 1, k)[i] = m[1 - 1 + i]
      BY <3>1, PartOf
    <3>3. /\ SubSeq(m, k + 1, Len(m)) \in Seq(Byte)
          /\ Len(SubSeq(m, k + 1, Len(m))) = Len(m) + 1 - (k + 1)
          /\ \A i \in 1 .. Len(m) + 1 - (k + 1) : SubSeq(m, k + 1, Len(m))[i] = m[k + 1 - 1 + i]
      BY <2>1, <3>1, PartOf
    <3>4. 1 \in 1 .. Len(m) + 1 /\ k \in 1 - 1 .. Len(m) /\ Len(m) \in k .. Len(m)
      BY <2>1, SMT
    <3>5. SubSeq(m, 1, k) \o SubSeq(m, k + 1, Len(m)) = SubSeq(m, 1, Len(m))
      BY <3>4, ConcatAdjacentSubSeq
    <3>6. SubSeq(m, 1, Len(m)) = m
      BY SubSeqFull
    <3> QED
      BY <3>2, <3>3, <3>5, <3>6
  <2>3. <<>> \in Seq(Byte) /\ <<>> \o a = a
    BY EmptySeq, ConcatEmptySeq
  <2>4. Holding(Hash!update(Hash!New, a), a)
    BY <2>3, NewHolds, UpdateHolds
  <2>5. Holding(Hash!update(Hash!update(Hash!New, a), b), m)
    BY <2>2, <2>4, UpdateHolds
  <2> QED
    BY <1>1, <2>2, <2>5, FinalizePads
<1> QED
  BY <1>1, <1>2 DEF Padded

\* Whatever bytes the key has and however many, and however the key and the GUID are
\* divided among calls of update(): the blocks are the message padded as FIPS 180-4
\* says.
THEOREM PaddedHolds == USpec => []Padded
<1>1. asked \in Asked => Padded
  BY AskedPadded
<1> QED
  BY <1>1, AskedHolds, PTL

\* Whatever bytes are encoded and however many: decoding gives them back, and = stands
\* for the bytes that lack and nothing else.
THEOREM Base64DecodesHolds == USpec => []Base64Decodes
<1>1. asked \in Asked => Base64Decodes
  <2>1. asked \in Asked => asked.nonce \in Seq(Byte)
    BY UpgradeAssumption DEF Byte
  <2> QED
    BY <2>1, BytesDecode DEF Base64Decodes
<1> QED
  BY <1>1, AskedHolds, PTL

=============================================================================
