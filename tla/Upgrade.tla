------------------------------ MODULE Upgrade ------------------------------
(***************************************************************************)
(* Opening handshakes: a client means something by its request and spells  *)
(* it in one of the ways HTTP allows; perform_handshake gets the request   *)
(* in any segments and has to find out what was meant, and to answer with  *)
(* the accept value of the key, whatever the key's length.                 *)
(***************************************************************************)
EXTENDS Handshake, Base64

Hash == INSTANCE Sha1

CONSTANTS
  Asked,    \* what clients mean and how they spell it
  spell,    \* the spellings of the words that have several
  GUID,     \* WS_GUID, in bytes
  Sample,   \* the key RFC 6455 gives as an example, and what it
  Published \* says the server answers

\* Keys are bytes, and with GUID fewer than 2^28 of them: rbuf holds 32 KiB.
ASSUME UpgradeAssumption ==
  /\ GUID \in Seq(0 .. 255)
  /\ \A a \in Asked : a.nonce \in Seq(0 .. 255) /\ Len(a.nonce) + Len(GUID) < 268435456

VARIABLE asked

uvars == <<hvars, asked>>

-----------------------------------------------------------------------------
(* The spelling of a request.  It is a first line of words, and fields of  *)
(* a name and a list of words; an empty line stands after shown of them.   *)

Spelt(w) == IF w \in DOMAIN spell THEN spell[w][asked.letters] ELSE w

\* The parts with sep between them.
Joined(parts, sep) ==
  FlattenSeq([i \in DOMAIN parts |-> IF i = 1 THEN parts[i] ELSE sep \o parts[i]])

Field(f) ==
  LET items == [i \in DOMAIN f.list |-> <<Spelt(f.list[i])>>]
  IN  <<Spelt(f.name)>> \o asked.tight \o <<":">> \o asked.blank
        \o Joined(items, asked.tight \o <<",">> \o asked.blank) \o asked.blank

FirstLine == Joined([i \in DOMAIN asked.line |-> <<Spelt(asked.line[i])>>], <<SP>> \o asked.blank)

FieldLines == [i \in DOMAIN asked.fields |-> Field(asked.fields[i])]

Text ==
  LET shown  == SubSeq(FieldLines, 1, asked.shown)
      hidden == SubSeq(FieldLines, asked.shown + 1, Len(FieldLines))
      lines  == <<FirstLine>> \o asked.other \o shown
                  \o (IF hidden = <<>> THEN <<>> ELSE << <<>> >> \o hidden)
  IN  Joined(lines, asked.eol) \o <<CR, LF, CR, LF>> \o asked.rest

UInit == asked \in Asked /\ HInit(Text)

UNext == HNext /\ UNCHANGED asked

USpec == UInit /\ [][UNext]_uvars

-----------------------------------------------------------------------------
(* What was meant.                                                         *)

\* The values of a field, a later one instead of an earlier.
ValuesOf(name) ==
  LET found == {i \in 1 .. asked.shown : asked.fields[i].name = name}
  IN  IF found = {} THEN {} ELSE {asked.fields[Max(found)].list}

MeansUpgrade ==
  /\ Len(asked.line) >= 3 /\ asked.line[1] = "get" /\ asked.line[3] = "http/1.1"
  /\ ValuesOf("sec-websocket-key") # {}

MeansAllOfIt ==
  /\ MeansUpgrade
  /\ \E l \in ValuesOf("upgrade") : Contains(l, "websocket")
  /\ \E l \in ValuesOf("connection") : Contains(l, "upgrade")
  /\ <<"13">> \in ValuesOf("sec-websocket-version")

Due ==
  LET yes == Answer(TRUE, "101", CHOOSE l \in ValuesOf("sec-websocket-key") : TRUE)
  IN  [member     |-> IF MeansUpgrade THEN yes ELSE Silent,
       standalone |-> IF MeansAllOfIt THEN yes ELSE Answer(FALSE, "400", <<>>)]

\* Case, order, blanks, line ends, other fields, what follows the blank line, and
\* the segments it all comes in make no difference to what perform_handshake
\* answers to a client that stays, as long as rbuf has room; where the request
\* itself has none it is refused; and no client is upgraded that did not mean it,
\* or with a key it did not give.
Understood ==
  answers # <<>> =>
    /\ peer = "up" /\ Len(Text) <= HsLimit => answers = Due
    /\ Min(BlankLines(Text)) + 3 > HsLimit => answers = None
    /\ \A p \in {"member", "standalone"} : answers[p].ret => answers[p] = Due[p]

-----------------------------------------------------------------------------
(* The accept value.                                                       *)

\* The bytes of a value: the key's are the nonce's.
Bytes(v) == FlattenSeq([i \in DOMAIN v |-> IF v[i] = "KEY" THEN asked.nonce ELSE <<0>>])

Accept(key) == base64_encode(Hash!sha1_bytes(Bytes(key) \o GUID))

Switched == answers # <<>> /\ answers.member.sent = "101"

\* The message in the blocks, then 1, zeros, and its length: FIPS 180-4, 5.1.1.
Pads(blocks, m) ==
  LET n    == Len(m)
      all  == 64 * Len(blocks)
      t(i) == blocks[(i - 1) \div 64 + 1][((i - 1) % 64) + 1]
  IN  /\ all \in n + 9 .. n + 72 /\ \A b \in DOMAIN blocks : Len(blocks[b]) = 64
      /\ \A i \in 1 .. n : t(i) = m[i]
      /\ t(n + 1) = 128
      /\ \A i \in n + 2 .. all - 4 : t(i) = 0
      /\ ((t(all - 3) * 256 + t(all - 2)) * 256 + t(all - 1)) * 256 + t(all) = 8 * n

\* Whatever the length of the key, and however what is hashed is divided among
\* calls of update(), _block gets the message padded as the standard has it.
Padded ==
  Switched =>
    LET m == asked.nonce \o GUID
    IN  \A k \in 0 .. Len(m) :
          LET first == Hash!update(Hash!New, SubSeq(m, 1, k))
          IN  Pads(Hash!finalize(Hash!update(first, SubSeq(m, k + 1, Len(m)))), m)

\* tests/test_handshake.cpp:18-20: the example of RFC 6455 gets the answer given
\* there.
AcceptMatches ==
  Switched /\ Bytes(answers.member.key) = Sample => Accept(answers.member.key) = Published

\* What is encoded in s, with the bits that are left over.
Sextet(x) == IF x = "=" THEN 0 ELSE CHOOSE i \in 0 .. 63 : T[i + 1] = x

\* The 24 bits of the group of four behind 4*g.
Sextets(s, g) ==
  ((Sextet(s[4*g + 1]) * 64 + Sextet(s[4*g + 2])) * 64 + Sextet(s[4*g + 3])) * 64
    + Sextet(s[4*g + 4])

Octets(v) == <<v \div 65536, (v \div 256) % 256, v % 256>>

Decoded(s) ==
  [i \in 1 .. 3 * (Len(s) \div 4) |-> Octets(Sextets(s, (i - 1) \div 3))[((i - 1) % 3) + 1]]

\* base64_encode can be undone for bytes of any number: groups of four, = in place
\* of each byte that lacks, and no bit of it set.
Base64Decodes ==
  LET s == base64_encode(asked.nonce)
      n == Len(asked.nonce)
      missing == (-n) % 3
  IN  /\ Len(s) % 4 = 0
      /\ Decoded(s) = asked.nonce \o [i \in 1 .. missing |-> 0]
      /\ {i \in DOMAIN s : s[i] = "="} = Len(s) - missing + 1 .. Len(s)

=============================================================================
