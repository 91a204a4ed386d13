-------------------------------- MODULE Sha1 --------------------------------
(***************************************************************************)
(* The class Sha1 of include/webserver/sha1.hpp.  A 32-bit word is the set *)
(* of the positions of its ones, so that &, | and ^ are set operations;    *)
(* sums are taken of its two halves, as TLC's integers have 32 bits.       *)
(***************************************************************************)
EXTENDS SequencesExt

BlockLen == 64   \* bytes

Positions == 0 .. 31

Ones(n) == {i \in 0 .. 15 : (n \div 2^i) % 2 = 1}

\* The word of two halves, and the halves of a word.
Word(high, low) == Ones(low) \cup {i + 16 : i \in Ones(high)}
Low(w)  == SumSet({2^i : i \in w \cap 0 .. 15})
High(w) == SumSet({2^(i - 16) : i \in w \cap 16 .. 31})

\* Slip: the bits go the other way.
Rol_Right(w, n) == {(i - n) % 32 : i \in w}

_rol(w, n) == {(i + n) % 32 : i \in w}

Xor(v, w) == (v \ w) \cup (w \ v)

\* Addition modulo 2^32.
Plus(words) ==
  LET low  == FoldLeft(LAMBDA n, w : n + Low(w), 0, words)
      high == FoldLeft(LAMBDA n, w : n + High(w), low \div 65536, words)
  IN  Word(high % 65536, low % 65536)

H == [a |-> Word(\h6745, \h2301), b |-> Word(\hEFCD, \hAB89), c |-> Word(\h98BA, \hDCFE),
      d |-> Word(\h1032, \h5476), e |-> Word(\hC3D2, \hE1F0)]

\* f and k in the first, second, third and fourth 20 rounds.
Choice(n, b, c, d) ==
  CASE n = 1 -> (b \cap c) \cup ((Positions \ b) \cap d)
    [] n = 3 -> (b \cap c) \cup (b \cap d) \cup (c \cap d)
    [] OTHER -> Xor(Xor(b, c), d)

K == << Word(\h5A82, \h7999), Word(\h6ED9, \hEBA1), Word(\h8F1B, \hBCDC), Word(\hCA62, \hC1D6) >>

\* The first 16 words of w are the block's.
Schedule(block) ==
  LET first == [i \in 1 .. 16 |-> Word(block[4*i - 3] * 256 + block[4*i - 2],
                                       block[4*i - 1] * 256 + block[4*i])]
      Next_(w, n) == Append(w, _rol(Xor(Xor(w[n - 3], w[n - 8]), Xor(w[n - 14], w[n - 16])), 1))
  IN  FoldLeft(Next_, first, [j \in 1 .. 64 |-> 16 + j])

_block(h, block) ==
  LET w == Schedule(block)
      \* a to e before and after 20 rounds, and 20 more
      Rounds(vs, n) ==
        LET v[i \in 0 .. 20] ==
              IF i = 0 THEN Last(vs)
              ELSE LET p == v[i - 1]
                   IN  [b |-> p.a, c |-> _rol(p.b, 30), d |-> p.c, e |-> p.d,
                        a |-> Plus(<<_rol(p.a, 5), Choice(n, p.b, p.c, p.d), p.e,
                                     K[n], w[20 * n - 20 + i]>>)]
        IN  Append(vs, v[20])
      r == Last(FoldLeft(Rounds, <<h>>, <<1, 2, 3, 4>>))
  IN  [a |-> Plus(<<h.a, r.a>>), b |-> Plus(<<h.b, r.b>>), c |-> Plus(<<h.c, r.c>>),
       d |-> Plus(<<h.d, r.d>>), e |-> Plus(<<h.e, r.e>>)]

-----------------------------------------------------------------------------
(* The buffer.  Of the object's history what counts is the blocks _block   *)
(* has been called on; h0_ to h4_ follow from them.                        *)

New == [blocks |-> <<>>, bits |-> 0, buf |-> <<>>]

BlocksOf(s) ==
  [i \in 1 .. Len(s) \div BlockLen |-> SubSeq(s, (i - 1) * BlockLen + 1, i * BlockLen)]

update(o, s) ==
  LET buf == o.buf \o s
  IN  [blocks |-> o.blocks \o BlocksOf(buf),
       bits   |-> o.bits + 8 * Len(s),
       buf    |-> SubSeq(buf, Len(buf) - (Len(buf) % BlockLen) + 1, Len(buf))]

\* bits_ in 8 bytes; here it is below 2^31.
Bytes8(n) ==
  <<0, 0, 0, 0, (n \div 16777216) % 256, (n \div 65536) % 256, (n \div 256) % 256, n % 256>>

\* Slip: a byte too few is kept free for the length.
Filled_Late(t) == t \o [i \in 1 .. (BlockLen - 7 - Len(t)) % BlockLen |-> 0]

\* 0x00 until 8 bytes are left in the last block.
Filled(t) == t \o [i \in 1 .. (BlockLen - 8 - Len(t)) % BlockLen |-> 0]

\* The blocks after finalize().
finalize(o) == o.blocks \o BlocksOf(Filled(Append(o.buf, 128)) \o Bytes8(o.bits))

\* _put32 of h0_ to h4_.
Digest(blocks) ==
  LET h == FoldLeft(_block, H, blocks)
      Bytes(w) == <<High(w) \div 256, High(w) % 256, Low(w) \div 256, Low(w) % 256>>
  IN  Bytes(h.a) \o Bytes(h.b) \o Bytes(h.c) \o Bytes(h.d) \o Bytes(h.e)

sha1_bytes(s) == Digest(finalize(update(New, s)))

=============================================================================
