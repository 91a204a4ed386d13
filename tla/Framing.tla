------------------------------ MODULE Framing -------------------------------
(***************************************************************************)
(* What crosses a connection of handshake-cpp, and what parse_frame makes  *)
(* of it.                                                                  *)
(*                                                                         *)
(* TCP carries bytes and knows no frames.  A byte is abstracted to a Unit  *)
(* that says which item of which connection it belongs to and where in     *)
(* that item it stands, so that a property can tell a byte delivered in    *)
(* its place from one that was lost, moved or invented.  An item is the    *)
(* opening HTTP request or a frame; both are HeaderLen units followed by   *)
(* len more.                                                               *)
(***************************************************************************)
EXTENDS Integers, Sequences

CONSTANTS
  Conns,       \* the connections, each used by one client once
  Kinds,       \* the frames clients send, records of FrameKind
  Requests,    \* the requests clients open with, records of RequestKind
  ParseLimit,  \* 65536: above it parse_frame needs the header only
  Zero         \* the zero byte of payload.resize(plen,0), sent by nobody

HeaderLen == 2 \* the two fixed header bytes; longer headers are FrameCodec's

Opcodes == {"cont", "text", "binary", "close", "ping", "pong", "reserved"}

FrameKind   == [op : Opcodes, fin : BOOLEAN, len : Nat]
RequestKind == [op : {"accepted", "rejected"}, len : Nat]

Unit  == [conn : Conns, item : Nat, pos : Nat, kind : FrameKind \cup RequestKind]
Byte  == Unit \cup {Zero}
Frame == [op : Opcodes, fin : BOOLEAN, data : Seq(Byte)]

ASSUME FramingAssumption ==
  /\ Kinds \subseteq FrameKind
  /\ Requests \subseteq RequestKind
  /\ ParseLimit \in Nat
  /\ Zero \notin Unit

\* What client c puts on the wire for its n-th item: header, then the rest.
Wire(c, n, kind) ==
  [i \in 1 .. HeaderLen + kind.len |->
     [conn |-> c, item |-> n, pos |-> i, kind |-> kind]]

\* The first n units of s, or all of s when it is shorter, and what is left.
Take(s, n) == SubSeq(s, 1, IF Len(s) < n THEN Len(s) ELSE n)
Drop(s, n) == SubSeq(s, n + 1, Len(s))

-----------------------------------------------------------------------------
(***************************************************************************)
(* parse_frame takes whatever stands at the front of the buffer for a      *)
(* header.  At the first unit of a frame it reads that frame's header;     *)
(* anywhere else it reads payload bytes as a header and may find any of    *)
(* Kinds there.                                                            *)
(***************************************************************************)
HeadersAt(buf) ==
  IF buf[1].pos = 1 /\ buf[1].kind \in Kinds THEN {buf[1].kind} ELSE Kinds

\* Does parse_frame return true on buf, when the header at its front is h?  A
\* frame above ParseLimit needs none of its payload in the buffer.
Complete(buf, h) ==
  /\ Len(buf) >= HeaderLen
  /\ \/ h.len > ParseLimit
     \/ Len(buf) >= HeaderLen + h.len

\* Slip: a payload of exactly the limit is not copied.
Payload_AtLimit(buf, h) ==
  IF h.len >= ParseLimit
  THEN [i \in 1 .. h.len |-> Zero]
  ELSE SubSeq(buf, HeaderLen + 1, HeaderLen + h.len)

\* The payload parse_frame hands out: the bytes received, or as many zeros.
Payload(buf, h) ==
  IF h.len > ParseLimit
  THEN [i \in 1 .. h.len |-> Zero]
  ELSE SubSeq(buf, HeaderLen + 1, HeaderLen + h.len)

\* The frame parse_frame fills in.
Parsed(buf, h) == [op |-> h.op, fin |-> h.fin, data |-> Payload(buf, h)]

=============================================================================
