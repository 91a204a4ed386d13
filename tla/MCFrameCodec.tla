---------------------------- MODULE MCFrameCodec ----------------------------
(***************************************************************************)
(* Constant values for model checking the frame codec with TLC.            *)
(***************************************************************************)
EXTENDS FrameCodecProperties, Bitwise

XorByte(a, b) == a ^^ b

\* One byte at a time: those of every header, then enough of others for lengths
\* in each of the three forms, masking keys and payloads, and the next frame.  127
\* and 255, which announce eight bytes of length, come with the first five of
\* them, so that lengths stay within TLC's integers; the last three make lengths
\* on both sides of OversizeLimit.
ByteSegments(n) ==
  CASE n = 0       -> {<<b>> : b \in {0, 1, 130, 254}}
    [] n = 1       -> {<<b>> : b \in {0, 1, 2, 126, 129, 130, 254}}
                        \cup {<<b, 0, 0, 0, 0, 0>> : b \in {127, 255}}
    [] n \in 2 .. 6 -> {<<b>> : b \in {0, 2, 130}}
    [] n \in 7 .. 9 -> {<<b>> : b \in {0, 1}}
    [] OTHER       -> {<<0>>, <<1, 2, 130, 255>>}

\* Payloads on either side of each change of length form.
Pattern(n) == [i \in 1 .. n |-> i % 256]

Binary(n) == [fin |-> TRUE, opcode |-> 2, payload |-> Pattern(n)]

FrameSamples ==
  {Binary(n) : n \in {0, 1, 125, 126, 127, 65535, 65536}}
    \cup {[fin |-> FALSE, opcode |-> 1, payload |-> <<>>],
          [fin |-> TRUE, opcode |-> 15, payload |-> <<255, 0>>]}

As(f, form, key) == [frame |-> f, form |-> form, key |-> key]
SomeKey == <<1, 2, 130, 255>>

FrameEncodings ==
  {As(Binary(n), 0, SomeKey) : n \in {0, 1, 7, 125}}
    \cup {As(Binary(n), form, k) : n \in {0, 5, 126}, form \in {2, 8}, k \in {<<>>, SomeKey}}
    \cup {As(Binary(65535), 2, <<>>), As(Binary(65536), 8, <<>>)}

\* Any cut in the header, and the last bytes of the samples' payloads.
FrameCuts == (0 .. 20) \cup (125 .. 140) \cup (65530 .. 65560)

=============================================================================
