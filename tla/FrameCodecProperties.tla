------------------------ MODULE FrameCodecProperties ------------------------
(***************************************************************************)
(* What build_frame and parse_frame promise each other and their callers.  *)
(* buf is what has arrived of a byte stream: any bytes, in any segments.   *)
(* recv hands such a prefix to parse_frame, whole frame or not.            *)
(***************************************************************************)
EXTENDS FrameCodec

CONSTANTS
  Segments(_),  \* what may arrive at once behind so many bytes, nonempty
  MaxBytes,     \* bound: nothing arrives after this many bytes
  MaxRest,      \* bound: bytes looked at behind a sample
  Samples,      \* frames build_frame encodes
  Encodings,    \* frames other peers encode, with the form and the key they use
  Cuts          \* where the encoding of a sample may be cut

ASSUME SegmentsAssumption ==
  /\ MaxBytes \in Nat /\ MaxRest \in Nat
  /\ \A n \in 0 .. MaxBytes : Segments(n) \subseteq Seq(ByteVal)
  /\ Cuts \subseteq Nat

\* Frames parse_frame reads whole, the payload in a form that can hold it.
Readable(f) == f \in Frame /\ Len(f.payload) <= OversizeLimit

ASSUME SamplesAssumption ==
  /\ \A f \in Samples : Readable(f)
  /\ \A e \in Encodings :
       /\ Readable(e.frame) /\ e.form \in Forms /\ e.key \in MaskKeys
       /\ e.form = 0 => Len(e.frame.payload) <= 125
       /\ e.form = 2 => Len(e.frame.payload) <= 65535

VARIABLE buf

Init == buf = <<>>

Arrive == Len(buf) < MaxBytes /\ \E s \in Segments(Len(buf)) : buf' = buf \o s

Spec == Init /\ [][Arrive]_buf

TypeOK == buf \in Seq(ByteVal)

-----------------------------------------------------------------------------
\* The masking key of the header at the front of buf.
KeyOf == IF HasMask(buf) THEN MaskKey(buf) ELSE <<>>

\* Whatever bytes parse_frame accepts, they are the encoding of the frame it
\* fills in: no byte of it is dropped, changed or taken from the next frame.
\* Only the three reserved bits of the first byte are not looked at, nor, above
\* OversizeLimit, the payload.
Reencodes ==
  Parses(buf) /\ ~Oversize(buf) =>
    LET p == parse_frame(buf)
        e == Encoded(p.frame, ExtraLength(buf), KeyOf)
    IN  /\ p.used <= Len(buf)
        /\ p.frame \in Frame
        /\ Tail(e) = Tail(SubSeq(buf, 1, p.used))
        /\ e[1] \div 128 = buf[1] \div 128 /\ e[1] % 16 = buf[1] % 16

\* parse_frame does not change its mind: once it has accepted a frame, bytes
\* that arrive later alter neither the frame nor where it ends, and a frame
\* found oversize stays so.
Settles ==
  [][Parses(buf) =>
       /\ Parses(buf')
       /\ Oversize(buf') = Oversize(buf)
       /\ ~Oversize(buf) => parse_frame(buf') = parse_frame(buf)]_buf

\* What build_frame makes of a frame parses to that frame, whatever follows it
\* in the buffer, and no part of it does before the last byte has arrived.
BuiltIsParsed ==
  Len(buf) <= MaxRest => \A f \in Samples :
    LET b == build_frame(f)
    IN  /\ Parses(b \o buf)
        /\ parse_frame(b \o buf) = [frame |-> f, used |-> Len(b)]
        /\ \A n \in Cuts : n < Len(b) => ~Parses(SubSeq(b, 1, n))

\* What a client reads of a reply, and the code in it, where read_close_code of
\* tests/test_oversize_payload.cpp looks for it.
Read(reply)  == parse_frame(reply \o buf).frame
CloseCode(f) == f.payload[1] * 256 + f.payload[2]
CloseCodes   == {1000, 1002, 1009}

EchoRead(f) ==
  /\ Read(build_text(f.payload, TRUE)) = FrameOf(Opcode.OP_TEXT, TRUE, f.payload)
  /\ Read(build_binary(f.payload, TRUE)) = FrameOf(Opcode.OP_BINARY, TRUE, f.payload)

PongRead(f) == Read(build_pong(f)) = FrameOf(Opcode.OP_PONG, TRUE, f.payload)

CodesRead(reason) ==
  \A code \in CloseCodes : CloseCode(Read(build_close(code, reason))) = code

\* The replies the server builds reach a client that reads them with parse_frame:
\* an echo and a pong bring the payload back, and a close frame brings the code.
RepliesAreParsed ==
  Len(buf) <= MaxRest => \A f \in Samples :
    /\ EchoRead(f) /\ PongRead(f)
    /\ Len(f.payload) + 2 <= OversizeLimit => CodesRead(f.payload)

\* What any other peer may send parses as well: a length in a longer form than it
\* needs, or a masked payload under any key.
PeersAreParsed ==
  Len(buf) <= MaxRest => \A e \in Encodings :
    LET b == Encoded(e.frame, e.form, e.key)
    IN  /\ Parses(b \o buf)
        /\ parse_frame(b \o buf) = [frame |-> e.frame, used |-> Len(b)]
        /\ \A n \in Cuts : n < Len(b) => ~Parses(SubSeq(b, 1, n))

=============================================================================
