---------------------------- MODULE ServerProofs ----------------------------
(***************************************************************************)
(* Proofs that Server's invariants hold for every value of the constants.  *)
(***************************************************************************)
EXTENDS ServerInvariants, SequenceTheorems, TLAPS

-----------------------------------------------------------------------------
(* Types of the operators of Framing.                                      *)

\* What recv hands out is a sequence of what was in the kernel, and so is what
\* it leaves there.
LEMMA TakeDropType ==
  ASSUME NEW S, NEW s \in Seq(S), NEW n \in Nat
  PROVE  Take(s, n) \in Seq(S) /\ Drop(s, n) \in Seq(S)
  BY DEF Take, Drop

\* A client puts units on the wire.
LEMMA WireType ==
  ASSUME NEW c \in Conns, NEW n \in Nat, NEW kind \in Kinds \cup Requests
  PROVE  Wire(c, n, kind) \in Seq(Unit)
<1> DEFINE m == HeaderLen + kind.len
<1>1. kind \in FrameKind \cup RequestKind /\ m \in Nat
  BY FramingAssumption DEF FrameKind, RequestKind, HeaderLen
<1>2. \A i \in 1 .. m : [conn |-> c, item |-> n, pos |-> i, kind |-> kind] \in Unit
  BY <1>1 DEF Unit
<1>3. Wire(c, n, kind) \in [1 .. m -> Unit]
  BY <1>2 DEF Wire
<1> QED
  BY <1>1, <1>3, SeqDef

\* parse_frame fills in a frame, of bytes it was given or of zeros.
LEMMA ParsedType ==
  ASSUME NEW buf \in Seq(Unit), NEW h \in Kinds, Complete(buf, h)
  PROVE  Parsed(buf, h) \in Frame /\ Payload(buf, h) \in Seq(Byte)
<1>1. h \in FrameKind /\ ParseLimit \in Nat
  BY FramingAssumption
<1>2. h.op \in Opcodes /\ h.fin \in BOOLEAN /\ h.len \in Nat
  BY <1>1 DEF FrameKind
<1>3. Payload(buf, h) \in Seq(Byte)
  <2>1. CASE h.len > ParseLimit
    <3>1. [i \in 1 .. h.len |-> Zero] \in [1 .. h.len -> Byte]
      BY DEF Byte
    <3> QED
      BY <2>1, <3>1, <1>2, SeqDef DEF Payload
  <2>2. CASE ~(h.len > ParseLimit)
    <3>1. Len(buf) >= HeaderLen + h.len
      BY <2>2 DEF Complete
    <3>2. \A i \in HeaderLen + 1 .. HeaderLen + h.len : buf[i] \in Byte
      BY <3>1, <1>2 DEF Byte, HeaderLen
    <3> QED
      BY <2>2, <3>2, <1>2, SubSeqProperties DEF Payload, HeaderLen
  <2> QED
    BY <2>1, <2>2
<1> QED
  BY <1>2, <1>3 DEF Parsed, Frame

\* What is observed of a connection is a sequence of events.
LEMMA EventTypes ==
  /\ \A ev \in {"open", "close"} : Mark(ev) \in Event
  /\ \A op \in Opcodes, d \in Seq(Byte) : OnMessage(op, d) \in Event
  /\ \A e \in {"send", "lost"}, r \in Reply : Written(e, r) \in Event
  BY DEF Record, Mark, OnMessage, Written, Event, Frame, Reply, Codes, Opcodes

\* The replies the server makes are replies.
LEMMA ReplyTypes ==
  /\ \A op \in Opcodes, d \in Seq(Byte) : Echo(op, d) \in Reply
  /\ \A d \in Seq(Byte) : Pong(d) \in Reply
  /\ \A n \in Codes : CloseWith(n) \in Reply
  /\ Switching \in Reply /\ NoReply \in Reply
  BY DEF Echo, Pong, CloseWith, Switching, NoReply, Reply, Codes, Opcodes

-----------------------------------------------------------------------------
(* Type correctness.                                                       *)

\* The initial values have their types.
LEMMA TypeInit == Init => TypeOK
<1> SUFFICES ASSUME Init PROVE TypeOK
  OBVIOUS
<1>1. SocketTypes
  BY ServerAssumption DEF Init, SocketTypes
<1>2. MemberTypes
  <2>1. ParseLimit \in Int /\ 16 \in Nat /\ FALSE \in BOOLEAN
    BY FramingAssumption
  <2>2. handshaken \in [Fds -> BOOLEAN] /\ frag_buffer \in [Fds -> Seq(Byte)]
    BY DEF Init
  <2>3. frag_opcode \in [Fds -> {"cont", "text", "binary"}]
    BY DEF Init
  <2> QED
    BY <2>1, <2>2, <2>3 DEF Init, MemberTypes
<1>3. LocalTypes
  BY ReplyTypes DEF Init, LocalTypes
<1>4. HistoryTypes
  BY DEF Init, HistoryTypes
<1> QED
  BY <1>1, <1>2, <1>3, <1>4 DEF TypeOK

\* No step of a client or of the network changes a type.
LEMMA TypeClient ==
  ASSUME TypeOK, NEW c \in Conns, Client(c)
  PROVE  TypeOK'
<1>1. MemberTypes' /\ LocalTypes' /\ HistoryTypes'
  <2>1. UNCHANGED <<config, fdset, maps, locals, history>>
    BY DEF Client, Connect, SendRequest, SendFrame, SendItem, Deliver, Read, Finish, Reset
  <2> QED
    BY <2>1 DEF TypeOK, MemberTypes, LocalTypes, HistoryTypes, config, fdset, maps, locals, history
<1> SUFFICES SocketTypes'
  BY <1>1 DEF TypeOK
<1>2. SocketTypes
  BY DEF TypeOK
<1>3. ASSUME NEW kind \in Kinds \cup Requests, SendItem(c, kind), sent[c] <= MaxFrames
      PROVE  SocketTypes'
  <2>1. Wire(c, sent[c], kind) \in Seq(Unit)
    BY <1>2, ServerAssumption, WireType DEF SocketTypes
  <2> QED
    BY <1>2, <1>3, <2>1, ServerAssumption DEF SendItem, SocketTypes
<1>4. CASE Connect(c)
  BY <1>2, <1>4 DEF Connect, SocketTypes
<1>5. CASE SendRequest(c)
  BY <1>3, <1>5, ServerAssumption DEF SendRequest
<1>6. CASE SendFrame(c)
  BY <1>3, <1>6, ServerAssumption DEF SendFrame
<1>7. CASE Deliver(c)
  <2>1. PICK n \in 1 .. Len(todo[c]) :
          /\ inp' = [inp EXCEPT ![c] = @ \o Take(todo[c], n)]
          /\ todo' = [todo EXCEPT ![c] = Drop(@, n)]
    BY <1>7 DEF Deliver
  <2>2. Take(todo[c], n) \in Seq(Unit) /\ Drop(todo[c], n) \in Seq(Unit)
    BY <1>2, TakeDropType DEF SocketTypes
  <2>3. inp[c] \o Take(todo[c], n) \in Seq(Unit)
    BY <1>2, <2>2, ConcatProperties DEF SocketTypes
  <2> QED
    BY <1>2, <1>7, <2>1, <2>2, <2>3 DEF Deliver, SocketTypes
<1>8. CASE Read(c)
  BY <1>2, <1>8, ServerAssumption DEF Read, SocketTypes
<1>9. CASE Finish(c)
  BY <1>2, <1>9 DEF Finish, SocketTypes
<1>10. CASE Reset(c)
  <2>1. cst' \in [Conns -> {"new", "up", "fin", "rst", "pipe", "closed"}]
    BY <1>2, <1>10 DEF Reset, SocketTypes
  <2>2. todo' \in [Conns -> Seq(Unit)]
    BY <1>2, <1>10 DEF Reset, SocketTypes
  <2>3. inp' \in [Conns -> Seq(Unit)]
    <3>1. inp' = inp \/ inp' = [inp EXCEPT ![c] = <<>>]
      BY <1>10 DEF Reset
    <3>2. inp \in [Conns -> Seq(Unit)] /\ <<>> \in Seq(Unit)
      BY <1>2 DEF SocketTypes
    <3> QED
      BY <3>1, <3>2
  <2> QED
    BY <1>2, <1>10, <2>1, <2>2, <2>3 DEF Reset, SocketTypes
<1> QED
  BY <1>4, <1>5, <1>6, <1>7, <1>8, <1>9, <1>10 DEF Client

\* Nor does what the application does with descriptors and setters.
LEMMA TypeApplication ==
  ASSUME TypeOK, Application
  PROVE  TypeOK'
<1> USE DEF TypeOK, HistoryTypes, sockets, config, fdset, maps, locals, history
<1>1. ASSUME NEW n \in Backlogs, SetBacklog(n) PROVE TypeOK'
  BY <1>1, ServerAssumption DEF SetBacklog, SocketTypes, MemberTypes, LocalTypes
<1>2. ASSUME NEW n \in MaxPayloads, SetMaxPayload(n) PROVE TypeOK'
  BY <1>2, ServerAssumption DEF SetMaxPayload, SocketTypes, MemberTypes, LocalTypes
<1>3. CASE SetStop
  BY <1>3 DEF SetStop, SocketTypes, MemberTypes, LocalTypes
<1>4. CASE AppOpen
  BY <1>4 DEF AppOpen, SocketTypes, MemberTypes, LocalTypes
<1>5. ASSUME NEW fd \in Fds, AppClose(fd) PROVE TypeOK'
  BY <1>5 DEF AppClose, SocketTypes, MemberTypes, LocalTypes
<1> QED
  BY <1>1, <1>2, <1>3, <1>4, <1>5 DEF Application

\* Setting up the listener gives lfd and fdmax a descriptor, or leaves them.
LEMMA TypeRun ==
  ASSUME TypeOK, Run
  PROVE  TypeOK'
<1>1. owner' \in [Fds -> Conns \cup {Free, App, Listener}]
  BY DEF TypeOK, SocketTypes, Run, Listening, NextFds, FreeFds
<1>2. lfd' \in Fds \cup {-1} /\ master' \in SUBSET Fds /\ fdmax' \in Fds \cup {-1}
  BY DEF TypeOK, MemberTypes, Run, Listening, NextFds, FreeFds
<1>3. pc' \in {"loop", "stopped"}
  BY DEF Run, Listening
<1>4. UNCHANGED <<acceptq, cst, todo, inp, unread, sent, config, maps,
                  readfds, cur, rbuf, reply, seen, history>>
  BY DEF Run, Listening
<1> QED
  BY <1>1, <1>2, <1>3, <1>4
  DEF TypeOK, SocketTypes, MemberTypes, LocalTypes, HistoryTypes, config, maps, history

\* select reports descriptors of master.
LEMMA TypeSelect ==
  ASSUME TypeOK, Select
  PROVE  TypeOK'
<1>1. readfds' \in SUBSET Fds /\ pc' = "scan"
  BY DEF TypeOK, MemberTypes, Select, SelectAlso, Watched
<1>2. seen' \in [Fds -> Conns \cup {Free, App, Listener}]
  BY DEF TypeOK, SocketTypes, Select, SelectAlso
<1>3. UNCHANGED <<sockets, config, fdset, maps, cur, rbuf, reply, history>>
  BY DEF Select, SelectAlso
<1> QED
  BY <1>1, <1>2, <1>3
  DEF TypeOK, SocketTypes, MemberTypes, LocalTypes, HistoryTypes, sockets, config, fdset, maps, history

\* Both ways out of the loop close a descriptor and go nowhere else.
LEMMA TypeLeave ==
  ASSUME TypeOK, Leave
  PROVE  TypeOK'
<1>1. owner' \in [Fds -> Conns \cup {Free, App, Listener}] /\ acceptq' = <<>>
  BY DEF TypeOK, SocketTypes, Leave
<1>2. /\ cst' \in [Conns -> {"new", "up", "fin", "rst", "pipe", "closed"}]
      /\ inp' \in [Conns -> Seq(Unit)]
      /\ todo' \in [Conns -> Seq(Unit)]
  BY DEF TypeOK, SocketTypes, Leave
<1>3. UNCHANGED <<unread, sent, config, fdset, maps, readfds, cur, rbuf, reply, seen, history>>
  BY DEF Leave
<1>4. pc' = "stopped"
  BY DEF Leave
<1> QED
  BY <1>1, <1>2, <1>3, <1>4
  DEF TypeOK, SocketTypes, MemberTypes, LocalTypes, HistoryTypes, config, fdset, maps, history

\* accept gives a connection one of the free descriptors, or fails.
LEMMA TypeAccept ==
  ASSUME TypeOK, Accept
  PROVE  TypeOK'
<1>1. /\ readfds' \in SUBSET Fds
      /\ seen' \in [Fds -> Conns \cup {Free, App, Listener}]
      /\ pc' \in {"loop", "scan"}
  BY DEF TypeOK, LocalTypes, Accept, Visit, Resume
<1>2. CASE FreeFds = {} /\ UNCHANGED <<owner, acceptq, master, fdmax, handshaken>>
  BY <1>1, <1>2
  DEF TypeOK, SocketTypes, MemberTypes, LocalTypes, HistoryTypes, config, history, Accept
<1>3. CASE ~(FreeFds = {} /\ UNCHANGED <<owner, acceptq, master, fdmax, handshaken>>)
  <2>1. PICK cfd \in NextFds :
          /\ owner' = [owner EXCEPT ![cfd] = Head(acceptq)]
          /\ acceptq' = Tail(acceptq)
          /\ master' = master \cup {cfd}
          /\ fdmax' = Higher(cfd, fdmax)
          /\ handshaken' = [handshaken EXCEPT ![cfd] = FALSE]
    BY <1>3 DEF Accept
  <2>2. cfd \in Fds
    BY DEF NextFds, FreeFds
  <2>3. Head(acceptq) \in Conns /\ Tail(acceptq) \in Seq(Conns)
    BY HeadTailProperties DEF TypeOK, SocketTypes, Accept
  <2>4. fdmax' \in Fds \cup {-1}
    BY <2>1, <2>2 DEF TypeOK, MemberTypes, Higher
  <2> QED
    BY <1>1, <2>1, <2>2, <2>3, <2>4, ZenonT(40)
    DEF TypeOK, SocketTypes, MemberTypes, LocalTypes, HistoryTypes, config, history, Accept
<1> QED
  BY <1>2, <1>3

\* The thread serves accepted connections only.
LEMMA ServedFd ==
  ASSUME Inv, NEW fd \in Fds
  PROVE  /\ pc = "scan" /\ fd \in readfds /\ fd # lfd => owner[fd] \in Conns
         /\ pc \in {"hs", "send", "dead"} /\ fd = cur => owner[fd] \in Conns
<1>1. CASE pc = "scan" /\ fd \in readfds /\ fd # lfd
  <2>1. Running /\ fd \in master
    BY <1>1 DEF Inv, ThreadState, Running
  <2>2. owner[fd] \in Conns \cup {Listener} /\ owner[fd] # Listener
    BY <1>1, <2>1 DEF Inv, FdTables, ThreadState
  <2> QED
    BY <1>1, <2>2
<1>2. CASE ~(pc = "scan" /\ fd \in readfds /\ fd # lfd)
  BY <1>2 DEF Inv, ThreadState
<1> QED
  BY <1>1, <1>2

\* As much of Inv as the type of a step and the connection it is about need.
Attended ==
  /\ TypeOK
  /\ \A fd \in Fds : owner[fd] \notin Conns =>
       ~handshaken[fd] /\ frag_buffer[fd] = <<>> /\ frag_opcode[fd] = "cont"
  /\ Running => lfd \in Fds /\ owner[lfd] = Listener
  /\ pc \in {"hs", "send", "dead"} => cur \in Fds /\ owner[cur] \in Conns

LEMMA InvAttended == Inv => Attended
  BY DEF Inv, TypeOK, MemberTypes, FdTables, ThreadState, Attended

\* cleanup_client keeps the types of whatever its caller has observed.
LEMMA TypeCleanup ==
  ASSUME TypeOK, NEW fd \in Fds, owner[fd] \in Conns,
         NEW evs \in Seq(Event), CleanupClient(fd, evs),
         unread' \in [Conns -> 0 .. SendCap], LocalTypes'
  PROVE  TypeOK'
<1>1. UNCHANGED <<acceptq, sent, config, lfd, fdmax>>
  BY DEF CleanupClient
<1>2. /\ owner' = [owner EXCEPT ![fd] = Free]
      /\ master' = master \ {fd}
      /\ cst' = [cst EXCEPT ![owner[fd]] = "closed"]
      /\ inp' = [inp EXCEPT ![owner[fd]] = <<>>]
      /\ todo' = [todo EXCEPT ![owner[fd]] = <<>>]
  BY DEF CleanupClient, CloseFd, ClearFd
<1>3. SocketTypes'
  BY <1>1, <1>2 DEF TypeOK, SocketTypes
<1>4. /\ handshaken' \in [Fds -> BOOLEAN]
      /\ frag_buffer' \in [Fds -> Seq(Byte)]
      /\ frag_opcode' \in [Fds -> {"cont", "text", "binary"}]
  BY DEF TypeOK, MemberTypes, CleanupClient, EraseMaps, Store
<1>5. MemberTypes'
  BY <1>1, <1>2, <1>4 DEF TypeOK, MemberTypes, config
<1>6. HistoryTypes'
  <2>1. Append(evs, Mark("close")) \in Seq(Event)
    BY EventTypes, AppendProperties
  <2>2. said[owner[fd]] \o Append(evs, Mark("close")) \in Seq(Event)
    BY <2>1, ConcatProperties DEF TypeOK, HistoryTypes
  <2> QED
    BY <2>2 DEF TypeOK, HistoryTypes, CleanupClient
<1> QED
  BY <1>3, <1>5, <1>6 DEF TypeOK

\* The request read so far is a sequence of units, whatever recv returns.
LEMMA TypeHandshake ==
  ASSUME Attended, NEW fd \in Fds, HandshakeEof(fd) \/ HandshakeRecv(fd)
  PROVE  TypeOK'
<1>1. TypeOK /\ owner[fd] \in Conns
  BY DEF Attended, HandshakeEof, HandshakeRecv, InHandshake
<1>2. /\ readfds' \in SUBSET Fds
      /\ seen' \in [Fds -> Conns \cup {Free, App, Listener}]
  BY <1>1 DEF TypeOK, LocalTypes, HandshakeEof, HandshakeRecv, InHandshake, Visit
<1>3. ASSUME HandshakeFails(fd) PROVE TypeOK'
  <2>1. LocalTypes'
    BY <1>1, <1>2, <1>3 DEF TypeOK, LocalTypes, HandshakeFails, Resume
  <2>2. unread' \in [Conns -> 0 .. SendCap]
    BY <1>1, <1>3 DEF TypeOK, SocketTypes, HandshakeFails
  <2>3. CleanupClient(fd, <<>>) /\ <<>> \in Seq(Event)
    BY <1>3 DEF HandshakeFails
  <2> QED
    BY <1>1, <2>1, <2>2, <2>3, TypeCleanup
<1>4. CASE HandshakeEof(fd)
  BY <1>3, <1>4 DEF HandshakeEof
<1>5. CASE HandshakeRecv(fd)
  <2> DEFINE buf == rbuf \o Take(inp[owner[fd]], HsChunk)
  <2>1. Take(inp[owner[fd]], HsChunk) \in Seq(Unit) /\ Drop(inp[owner[fd]], HsChunk) \in Seq(Unit)
    BY <1>1, TakeDropType, ServerAssumption DEF TypeOK, SocketTypes
  <2>2. buf \in Seq(Unit)
    BY <1>1, <2>1, ConcatProperties DEF TypeOK, LocalTypes
  <2>3. CASE ~HandshakeFails(fd)
    <3>1. /\ Consume(owner[fd], HsChunk)
          /\ \/ Call(fd, Switching) /\ rbuf' = <<>>
             \/ pc' = "hs" /\ cur' = fd /\ rbuf' = buf /\ UNCHANGED reply
          /\ UNCHANGED <<owner, acceptq, cst, todo, unread, sent,
                         config, fdset, maps, history>>
      BY <1>5, <2>3 DEF HandshakeRecv
    <3>2. SocketTypes'
      BY <1>1, <2>1, <3>1 DEF TypeOK, SocketTypes, Consume
    <3>3. MemberTypes' /\ HistoryTypes'
      BY <1>1, <3>1 DEF TypeOK, MemberTypes, HistoryTypes, config, fdset, maps, history
    <3>4. LocalTypes'
      <4>1. Switching \in Reply /\ <<>> \in Seq(Unit) /\ reply \in Reply
        BY <1>1, ReplyTypes DEF TypeOK, LocalTypes
      <4>2. /\ pc' \in {"send", "hs"} /\ cur' = fd
            /\ reply' \in Reply /\ rbuf' \in Seq(Unit)
        BY <2>2, <3>1, <4>1 DEF Call
      <4> QED
        BY <1>2, <4>2 DEF LocalTypes
    <3> QED
      BY <3>2, <3>3, <3>4 DEF TypeOK
  <2> QED
    BY <1>3, <2>3
<1> QED
  BY <1>4, <1>5

\* A history extended by events is a history, and so is one extended by a frame.
LEMMA TypeObserve ==
  ASSUME TypeOK, NEW fd \in Fds, owner[fd] \in Conns,
         NEW evs \in Seq(Event), Observe(fd, evs)
  PROVE  said' \in [Conns -> Seq(Event)]
<1>1. said[owner[fd]] \o evs \in Seq(Event)
  BY ConcatProperties DEF TypeOK, HistoryTypes
<1> QED
  BY <1>1 DEF TypeOK, HistoryTypes, Observe

LEMMA TypeHears ==
  ASSUME TypeOK, NEW fd \in Fds, owner[fd] \in Conns, NEW f \in Frame, Hears(fd, f)
  PROVE  heard' \in [Conns -> Seq(Frame)]
<1>1. Append(heard[owner[fd]], f) \in Seq(Frame)
  BY AppendProperties DEF TypeOK, HistoryTypes
<1> QED
  BY <1>1 DEF TypeOK, HistoryTypes, Hears

\* recv of handle_frame: what it returns and what it leaves alone.
LEMMA TypeRecvFrame ==
  ASSUME Attended, NEW fd \in Fds, NEW h \in Kinds, RecvFrame(fd, h)
  PROVE  /\ owner[fd] \in Conns
         /\ SocketTypes'
         /\ FrameBuffer(fd) \in Seq(Unit)
         /\ readfds' \in SUBSET Fds
         /\ seen' \in [Fds -> Conns \cup {Free, App, Listener}]
         /\ rbuf' \in Seq(Unit)
         /\ UNCHANGED <<config, fdset, handshaken>>
<1>1. TypeOK /\ owner[fd] \in Conns
  BY DEF Attended, RecvFrame
<1>2. /\ Take(inp[owner[fd]], RecvMax) \in Seq(Unit)
      /\ Drop(inp[owner[fd]], RecvMax) \in Seq(Unit)
  BY <1>1, TakeDropType, ServerAssumption DEF TypeOK, SocketTypes
<1>3. /\ Consume(owner[fd], RecvMax)
      /\ UNCHANGED <<owner, acceptq, cst, todo, unread, sent, config, fdset, handshaken, rbuf>>
      /\ Visit(fd)
  BY DEF RecvFrame
<1>4. SocketTypes'
  BY <1>1, <1>2, <1>3 DEF TypeOK, SocketTypes, Consume
<1> QED
  BY <1>1, <1>2, <1>3, <1>4 DEF TypeOK, LocalTypes, Visit, FrameBuffer

\* Every branch of handle_frame keeps the types of buffers, replies and histories.
LEMMA TypeHandleFrame ==
  ASSUME Attended, NEW fd \in Fds, HandleFrame(fd)
  PROVE  TypeOK'
<1>1. TypeOK
  BY DEF Attended
<1>2. CASE FrameEof(fd)
  <2>1. owner[fd] \in Conns
    BY <1>2 DEF Attended, FrameEof
  <2>2. LocalTypes'
    BY <1>1, <1>2 DEF TypeOK, LocalTypes, FrameEof, Visit, Resume
  <2>3. unread' \in [Conns -> 0 .. SendCap]
    BY <1>1, <1>2 DEF TypeOK, SocketTypes, FrameEof
  <2>4. CleanupClient(fd, <<>>) /\ <<>> \in Seq(Event)
    BY <1>2 DEF FrameEof
  <2> QED
    BY <1>1, <2>1, <2>2, <2>3, <2>4, TypeCleanup
<1>3. ASSUME NEW h \in Kinds, RecvFrame(fd, h), HistoryTypes',
             \/ \E r \in Reply : Call(fd, r)
             \/ pc' \in {"loop", "scan"} /\ UNCHANGED <<cur, reply>>,
             \/ UNCHANGED <<frag_buffer, frag_opcode>>
             \/ \E op \in {"cont", "text", "binary"}, d \in Seq(Byte) : Store(fd, op, d)
      PROVE  TypeOK'
  <2>1. LocalTypes'
    BY <1>1, <1>3, TypeRecvFrame DEF TypeOK, LocalTypes, Call
  <2>2. /\ frag_buffer' \in [Fds -> Seq(Byte)]
        /\ frag_opcode' \in [Fds -> {"cont", "text", "binary"}]
    BY <1>1, <1>3 DEF TypeOK, MemberTypes, Store
  <2>3. MemberTypes'
    BY <1>1, <1>3, <2>2, TypeRecvFrame DEF TypeOK, MemberTypes, config, fdset
  <2> QED
    BY <1>3, <2>1, <2>3, TypeRecvFrame DEF TypeOK
<1>4. ASSUME NEW h \in Kinds, RecvFrame(fd, h), Complete(FrameBuffer(fd), h)
      PROVE  /\ Parsed(FrameBuffer(fd), h) \in Frame
             /\ Parsed(FrameBuffer(fd), h).data \in Seq(Byte)
             /\ Parsed(FrameBuffer(fd), h).op = h.op
             /\ Payload(FrameBuffer(fd), h) \in Seq(Byte)
  <2>1. FrameBuffer(fd) \in Seq(Unit)
    BY <1>4, TypeRecvFrame
  <2>2. Parsed(FrameBuffer(fd), h) \in Frame /\ Payload(FrameBuffer(fd), h) \in Seq(Byte)
    BY <1>4, <2>1, ParsedType
  <2> QED
    BY <2>2 DEF Parsed, Frame
<1>5. ASSUME NEW h \in Kinds, RecvFrame(fd, h), Complete(FrameBuffer(fd), h),
             Hears(fd, Parsed(FrameBuffer(fd), h)),
             (said' = said) \/ \E evs \in Seq(Event) : Observe(fd, evs)
      PROVE  HistoryTypes'
  <2>1. heard' \in [Conns -> Seq(Frame)]
    BY <1>1, <1>4, <1>5, TypeRecvFrame, TypeHears
  <2>2. said' \in [Conns -> Seq(Event)]
    BY <1>1, <1>5, TypeRecvFrame, TypeObserve DEF TypeOK, HistoryTypes
  <2> QED
    BY <2>1, <2>2 DEF HistoryTypes
<1>6. ASSUME NEW h \in Kinds, ProtocolError(fd, h) PROVE TypeOK'
  <2>1. CloseWith(1002) \in Reply
    BY ReplyTypes DEF Codes
  <2>2. HistoryTypes'
    BY <1>1, <1>6 DEF TypeOK, HistoryTypes, ProtocolError, history
  <2> QED
    BY <1>3, <1>6, <2>1, <2>2 DEF ProtocolError
<1>7. ASSUME NEW h \in Kinds, PayloadTooBig(fd, h) PROVE TypeOK'
  <2>1. CloseWith(1009) \in Reply
    BY ReplyTypes DEF Codes
  <2>2. HistoryTypes'
    BY <1>5, <1>7 DEF PayloadTooBig
  <2> QED
    BY <1>3, <1>7, <2>1, <2>2 DEF PayloadTooBig
<1>8. ASSUME NEW h \in Kinds, WholeMessage(fd, h) PROVE TypeOK'
  <2> DEFINE f == Parsed(FrameBuffer(fd), h)
  <2>1. /\ RecvFrame(fd, h) /\ Complete(FrameBuffer(fd), h) /\ h.op \in {"text", "binary"}
        /\ Hears(fd, f)
    BY <1>8 DEF WholeMessage, FrameRead
  <2>2. f.op \in Opcodes /\ f.data \in Seq(Byte)
    BY <1>4, <2>1 DEF Opcodes
  <2>3. <<OnMessage(f.op, f.data)>> \in Seq(Event) /\ Echo(f.op, f.data) \in Reply
    BY <2>2, EventTypes, ReplyTypes
  <2>4. HistoryTypes'
    BY <1>5, <1>8, <2>1, <2>3 DEF WholeMessage
  <2> QED
    BY <1>3, <1>8, <2>1, <2>3, <2>4 DEF WholeMessage
<1>9. ASSUME NEW h \in Kinds, FirstFragment(fd, h) PROVE TypeOK'
  <2> DEFINE f == Parsed(FrameBuffer(fd), h)
  <2>1. /\ RecvFrame(fd, h) /\ Complete(FrameBuffer(fd), h) /\ h.op \in {"text", "binary"}
        /\ Hears(fd, f)
    BY <1>9 DEF FirstFragment, FrameRead
  <2>2. f.op \in {"cont", "text", "binary"} /\ f.data \in Seq(Byte)
    BY <1>4, <2>1
  <2>3. Store(fd, f.op, f.data) /\ said' = said
    BY <1>9 DEF FirstFragment
  <2>4. pc' \in {"loop", "scan"} /\ UNCHANGED <<cur, reply>>
    BY <1>9 DEF FirstFragment, Resume
  <2>5. HistoryTypes'
    BY <1>5, <2>1, <2>3
  <2> QED
    BY <1>3, <2>1, <2>2, <2>3, <2>4, <2>5
<1>10. ASSUME NEW h \in Kinds, Continuation(fd, h) PROVE TypeOK'
  <2> DEFINE f    == Parsed(FrameBuffer(fd), h)
             bufv == frag_buffer[fd] \o f.data
             base == frag_opcode[fd]
             msg  == IF h.fin /\ base # "cont" THEN <<OnMessage(base, bufv)>> ELSE <<>>
  <2>1. RecvFrame(fd, h) /\ Complete(FrameBuffer(fd), h) /\ Hears(fd, f)
    BY <1>10 DEF Continuation, FrameRead
  <2>2. f.data \in Seq(Byte)
    BY <1>4, <2>1
  <2>3. base \in {"cont", "text", "binary"} /\ frag_buffer[fd] \in Seq(Byte)
    BY <1>1 DEF TypeOK, MemberTypes
  <2>4. bufv \in Seq(Byte) /\ base \in Opcodes
    BY <2>2, <2>3, ConcatProperties DEF Opcodes
  <2>5. OnMessage(base, bufv) \in Event /\ Echo(base, bufv) \in Reply
    BY <2>4, EventTypes, ReplyTypes
  <2>6. msg \in Seq(Event)
    BY <2>5
  <2>8. /\ Observe(fd, msg)
        /\ Assembled(fd, h.fin, base, bufv)
        /\ IF msg # <<>>
           THEN Call(fd, Echo(base, bufv))
           ELSE pc' = Resume(readfds') /\ UNCHANGED <<cur, reply>>
    BY <1>10 DEF Continuation
  <2>9. HistoryTypes'
    BY <1>5, <2>1, <2>6, <2>8
  <2>10. \E op \in {"cont", "text", "binary"}, d \in Seq(Byte) : Store(fd, op, d)
    <3>1. Store(fd, "cont", <<>>) \/ Store(fd, base, bufv)
      BY <2>8 DEF Assembled
    <3>2. <<>> \in Seq(Byte)
      OBVIOUS
    <3> QED
      BY <2>3, <2>4, <3>1, <3>2
  <2>11. \/ \E r \in Reply : Call(fd, r)
         \/ pc' \in {"loop", "scan"} /\ UNCHANGED <<cur, reply>>
    BY <2>5, <2>8 DEF Resume
  <2> QED
    BY <1>3, <2>1, <2>9, <2>10, <2>11
<1>11. ASSUME NEW h \in Kinds, Ping(fd, h) PROVE TypeOK'
  <2>1. /\ RecvFrame(fd, h) /\ Complete(FrameBuffer(fd), h)
        /\ Hears(fd, Parsed(FrameBuffer(fd), h))
    BY <1>11 DEF Ping, FrameRead
  <2>2. Pong(Payload(FrameBuffer(fd), h)) \in Reply
    BY <1>4, <2>1, ReplyTypes
  <2>3. HistoryTypes'
    BY <1>5, <1>11, <2>1 DEF Ping
  <2> QED
    BY <1>3, <1>11, <2>1, <2>2, <2>3 DEF Ping
<1>12. ASSUME NEW h \in Kinds, CloseOrUnknown(fd, h) PROVE TypeOK'
  <2>1. /\ RecvFrame(fd, h) /\ Complete(FrameBuffer(fd), h)
        /\ Hears(fd, Parsed(FrameBuffer(fd), h))
    BY <1>12 DEF CloseOrUnknown, FrameRead
  <2>2. CloseWith(IF h.op = "close" THEN 1000 ELSE 1002) \in Reply
    BY ReplyTypes DEF Codes
  <2>3. HistoryTypes'
    BY <1>5, <1>12, <2>1 DEF CloseOrUnknown
  <2> QED
    BY <1>3, <1>12, <2>1, <2>2, <2>3 DEF CloseOrUnknown
<1> QED
  BY <1>2, <1>6, <1>7, <1>8, <1>9, <1>10, <1>11, <1>12 DEF HandleFrame

\* What follows a send keeps them, whether it succeeds, fails or raises SIGPIPE.
LEMMA TypeSend ==
  ASSUME Attended, Send
  PROVE  TypeOK'
<1>1. TypeOK /\ pc = "send" /\ cur \in Fds /\ owner[cur] \in Conns
  BY DEF Attended, Send, Opened, NotOpened, SigPipe, Replied, Closed, SendReturns
<1>2. reply \in Reply
  BY <1>1 DEF TypeOK, LocalTypes
<1>3. ASSUME NEW e \in {"send", "lost"}, SendReturns(e)
      PROVE  /\ unread' \in [Conns -> 0 .. SendCap]
             /\ LocalTypes'
             /\ Written(e, reply) \in Event
  <2>1. unread' \in [Conns -> 0 .. SendCap]
    <3>1. unread \in [Conns -> 0 .. SendCap] /\ SendCap \in Nat
      BY <1>1, ServerAssumption DEF TypeOK, SocketTypes
    <3>2. \/ UNCHANGED unread
          \/ /\ unread[owner[cur]] < SendCap
             /\ unread' = [unread EXCEPT ![owner[cur]] = @ + 1]
      BY <1>3 DEF SendReturns
    <3> QED
      BY <1>1, <3>1, <3>2
  <2>2. LocalTypes'
    <3>1. pc' \in {"loop", "scan"} /\ cur' = -1 /\ reply' \in Reply
      BY <1>3, ReplyTypes DEF SendReturns, Resume
    <3> QED
      BY <1>1, <1>3, <3>1 DEF TypeOK, LocalTypes, SendReturns
  <2> QED
    BY <1>2, <2>1, <2>2, EventTypes
<1>4. ASSUME NEW e \in {"send", "lost"}, SendReturns(e), CleanupClient(cur, <<Written(e, reply)>>)
      PROVE  TypeOK'
  <2>1. <<Written(e, reply)>> \in Seq(Event)
    BY <1>3, <1>4
  <2> QED
    BY <1>1, <1>3, <1>4, <2>1, TypeCleanup
<1>5. CASE Opened
  <2>1. <<Written("send", reply), Mark("open")>> \in Seq(Event)
    BY <1>2, EventTypes
  <2>2. HistoryTypes'
    BY <1>1, <1>5, <2>1, TypeObserve DEF Opened, TypeOK, HistoryTypes
  <2>3. unread' \in [Conns -> 0 .. SendCap] /\ LocalTypes'
    BY <1>3, <1>5 DEF Opened
  <2>4. SocketTypes'
    BY <1>1, <1>5, <2>3 DEF TypeOK, SocketTypes, Opened
  <2>5. MemberTypes'
    BY <1>1, <1>5 DEF TypeOK, MemberTypes, Opened, config, fdset
  <2> QED
    BY <2>2, <2>3, <2>4, <2>5 DEF TypeOK
<1>6. CASE NotOpened
  BY <1>4, <1>6 DEF NotOpened
<1>7. ASSUME NEW e \in {"send", "lost"}, Replied(e) PROVE TypeOK'
  <2>1. unread' \in [Conns -> 0 .. SendCap] /\ LocalTypes' /\ <<Written(e, reply)>> \in Seq(Event)
    BY <1>3, <1>7 DEF Replied
  <2>2. HistoryTypes'
    BY <1>1, <1>7, <2>1, TypeObserve DEF Replied, TypeOK, HistoryTypes
  <2>3. cst' \in [Conns -> {"new", "up", "fin", "rst", "pipe", "closed"}]
    BY <1>1, <1>7 DEF TypeOK, SocketTypes, Replied
  <2>4. SocketTypes'
    BY <1>1, <1>7, <2>1, <2>3 DEF TypeOK, SocketTypes, Replied
  <2>5. MemberTypes'
    BY <1>1, <1>7 DEF TypeOK, MemberTypes, Replied, config, fdset, maps
  <2> QED
    BY <2>1, <2>2, <2>4, <2>5 DEF TypeOK
<1>8. ASSUME NEW e \in {"send", "lost"}, Closed(e) PROVE TypeOK'
  BY <1>4, <1>8 DEF Closed
<1>9. CASE SigPipe
  BY <1>1, <1>9
  DEF TypeOK, SocketTypes, MemberTypes, LocalTypes, HistoryTypes, SigPipe,
      sockets, config, fdset, maps, history
<1> QED
  BY <1>5, <1>6, <1>7, <1>8, <1>9 DEF Send

\* Type correctness is preserved by every step.
LEMMA TypeNext ==
  ASSUME Attended, [Next]_vars
  PROVE  TypeOK'
<1>1. TypeOK
  BY DEF Attended
<1>2. CASE UNCHANGED vars
  BY <1>1, <1>2 DEF TypeOK, SocketTypes, MemberTypes, LocalTypes, HistoryTypes,
                    vars, sockets, config, fdset, maps, locals, history
<1>3. CASE ServerStep
  BY <1>1, <1>3, TypeSelect, TypeLeave, TypeAccept, TypeSend, TypeHandshake, TypeHandleFrame
  DEF ServerStep, Stop
<1>4. CASE Run \/ SelectFails \/ Application \/ \E c \in Conns : Client(c)
  BY <1>1, <1>4, TypeRun, TypeLeave, TypeApplication, TypeClient DEF SelectFails
<1> QED
  BY <1>2, <1>3, <1>4 DEF Next

-----------------------------------------------------------------------------
(* The tables and the thread's place among them.                           *)

Others == FdTables /\ ReadSetFresh /\ ThreadState

\* No descriptor is in any table before run() is called.
LEMMA InvInit == Init => Inv
<1> SUFFICES ASSUME Init PROVE Inv
  OBVIOUS
<1>1. FdTables
  BY ServerAssumption DEF Init, FdTables, Running
<1>2. ReadSetFresh
  BY DEF Init, ReadSetFresh
<1>3. ThreadState
  BY ServerAssumption DEF Init, ThreadState
<1> QED
  BY <1>1, <1>2, <1>3, TypeInit DEF Inv

\* Clients and setters touch none of it.
LEMMA OthersUnchanged ==
  ASSUME Inv, UNCHANGED <<owner, fdset, maps, locals>>
  PROVE  Others'
  BY DEF Inv, Others, FdTables, Running, ReadSetFresh, ThreadState, fdset, maps, locals

\* The application's descriptors are in no table.
LEMMA OthersApplication ==
  ASSUME Inv, NEW fd \in Fds, owner[fd] \in {Free, App}, NEW o \in {Free, App},
         owner' = [owner EXCEPT ![fd] = o], UNCHANGED <<fdset, maps, locals>>, ~Ended
  PROVE  Others'
<1>1. owner \in [Fds -> Conns \cup {Free, App, Listener}]
  BY DEF Inv, TypeOK, SocketTypes
<1>2. {Free, App} \cap (Conns \cup {Listener}) = {}
  BY ServerAssumption
<1>3. \A g \in Fds : \/ owner'[g] = owner[g]
                     \/ owner[g] \in {Free, App} /\ owner'[g] \in {Free, App}
  <2>1. owner'[fd] = o /\ \A g \in Fds \ {fd} : owner'[g] = owner[g]
    BY <1>1
  <2> QED
    BY <2>1
<1>4. master \in SUBSET Fds /\ readfds \subseteq master
  BY DEF Inv, TypeOK, MemberTypes, ThreadState
<1>5. FdTables'
  BY <1>2, <1>3, <1>4 DEF Inv, FdTables, Running, fdset, maps, locals
<1>6. fd \notin readfds
  <2>1. readfds # {} => Running
    BY DEF Inv, TypeOK, LocalTypes, ThreadState, Running, Ended
  <2>2. \A g \in readfds : owner[g] \in Conns \cup {Listener}
    BY <1>4, <2>1 DEF Inv, FdTables
  <2> QED
    BY <1>2, <2>2
<1>7. ReadSetFresh'
  BY <1>1, <1>4, <1>6 DEF Inv, ReadSetFresh, locals
<1>8. ThreadState'
  BY <1>2, <1>3 DEF Inv, ThreadState, fdset, maps, locals
<1> QED
  BY <1>5, <1>7, <1>8 DEF Others

\* When run() enters its loop the listener is all that is in the tables.
LEMMA OthersRun ==
  ASSUME Inv, Run
  PROVE  Others'
<1>1. /\ owner \in [Fds -> Conns \cup {Free, App, Listener}] /\ Fds \subseteq Nat
      /\ {Free, App, Listener} \cap Conns = {} /\ Listener \notin {Free, App}
  BY ServerAssumption DEF Inv, TypeOK, SocketTypes
<1>2. /\ master = {} /\ readfds = {} /\ \A fd \in Fds : owner[fd] \in {Free, App}
      /\ UNCHANGED <<maps, readfds, cur, seen>>
  BY DEF Inv, ThreadState, Run, Listening
<1>3. /\ \A fd \in Fds : owner[fd] \notin Conns =>
           ~handshaken[fd] /\ frag_buffer[fd] = <<>> /\ frag_opcode[fd] = "cont"
  BY DEF Inv, FdTables
<1>4. ReadSetFresh'
  BY <1>2 DEF ReadSetFresh
<1>5. CASE FreeFds = {}
  BY <1>1, <1>2, <1>3, <1>4, <1>5
  DEF Run, Listening, NextFds, Others, FdTables, Running, ThreadState, maps
<1>6. CASE FreeFds # {}
  <2>1. PICK fd \in Fds :
          /\ lfd' = fd /\ owner' = [owner EXCEPT ![fd] = Listener]
          /\ \/ pc' = "loop" /\ master' = {fd} /\ fdmax' = fd
             \/ pc' = "stopped" /\ master' = {}
    BY <1>2, <1>6 DEF Run, Listening, NextFds, FreeFds
  <2>2. FdTables'
    BY <1>1, <1>2, <1>3, <2>1, SMTT(40) DEF FdTables, Running, maps
  <2>3. ThreadState'
    BY <1>1, <1>2, <2>1 DEF ThreadState
  <2> QED
    BY <1>4, <2>2, <2>3 DEF Others
<1> QED
  BY <1>5, <1>6

\* A pass starts with what select saw of the open descriptors.
LEMMA OthersSelect ==
  ASSUME Inv, Select
  PROVE  Others'
<1>1. UNCHANGED <<owner, fdset, maps, cur>> /\ pc = "loop" /\ pc' = "scan"
  BY DEF Select, SelectAlso, sockets
<1>2. readfds' \subseteq master /\ master \in SUBSET Fds
  BY DEF Inv, TypeOK, MemberTypes, Select, SelectAlso, Watched
<1>3. \A fd \in readfds' : seen'[fd] = owner[fd]
  BY <1>2 DEF Select, SelectAlso
<1> QED
  BY <1>1, <1>2, <1>3 DEF Inv, Others, FdTables, Running, ReadSetFresh, ThreadState, fdset, maps

\* Leaving the loop closes the listener only, and ends the pass.
LEMMA OthersLeave ==
  ASSUME Inv, Leave
  PROVE  Others'
<1>1. UNCHANGED <<fdset, maps, readfds, seen>> /\ pc = "loop" /\ pc' = "stopped"
  BY DEF Leave
<1>2. owner' = [owner EXCEPT ![lfd] = Free] /\ owner[lfd] = Listener /\ lfd \in Fds
  BY <1>1 DEF Inv, TypeOK, MemberTypes, FdTables, Running, Leave
<1>3. owner \in [Fds -> Conns \cup {Free, App, Listener}] /\ Listener \notin Conns /\ Listener # Free
  BY ServerAssumption DEF Inv, TypeOK, SocketTypes
<1>4. readfds = {}
  BY <1>1 DEF Inv, ThreadState
<1>5. FdTables'
  BY <1>1, <1>2, <1>3 DEF Inv, FdTables, Running, maps
<1> QED
  BY <1>1, <1>2, <1>3, <1>4, <1>5 DEF Inv, Others, ReadSetFresh, ThreadState, fdset

\* fd has had its turn in the pass.
Turn(fd) ==
  \/ Visit(fd)
  \/ pc \in {"hs", "send"} /\ cur = fd /\ UNCHANGED <<readfds, seen>>

\* A turn leaves everything else to be visited as it was.
LEMMA TurnPasses ==
  ASSUME Inv, NEW fd \in Fds, Turn(fd)
  PROVE  /\ Running /\ readfds' \subseteq readfds \ {fd} /\ readfds' \subseteq Fds
         /\ \A g \in readfds' : seen'[g] = owner[g]
<1>1. readfds \subseteq Fds /\ seen \in [Fds -> Conns \cup {Free, App, Listener}]
  BY DEF Inv, TypeOK, LocalTypes
<1>2. pc \in {"hs", "send"} /\ cur = fd => fd \notin readfds
  BY DEF Inv, ThreadState
<1> QED
  BY <1>1, <1>2 DEF Inv, ReadSetFresh, Turn, Visit, Running

\* The thread serves a connection and moves on, blocks on it, or dies of it.
LEMMA OthersServe ==
  ASSUME Inv, NEW fd \in Fds, owner[fd] \in Conns, Turn(fd),
         UNCHANGED <<owner, fdset>>,
         \A g \in Fds \ {fd} : /\ handshaken'[g] = handshaken[g]
                              /\ frag_buffer'[g] = frag_buffer[g]
                              /\ frag_opcode'[g] = frag_opcode[g],
         \/ pc' = Resume(readfds')
         \/ pc' \in {"hs", "send", "dead"} /\ cur' = fd
  PROVE  Others'
<1>1. /\ Running /\ readfds' \subseteq readfds \ {fd}
      /\ \A g \in readfds' : seen'[g] = owner[g]
  BY TurnPasses
<1>2. FdTables'
  BY <1>1 DEF Inv, FdTables, fdset, Running
<1>3. ThreadState'
  BY <1>1 DEF Inv, ThreadState, Resume, fdset
<1> QED
  BY <1>1, <1>2, <1>3 DEF Others, ReadSetFresh

\* cleanup_client takes its descriptor out of every table.
LEMMA OthersCleanup ==
  ASSUME Inv, NEW fd \in Fds, owner[fd] \in Conns, Turn(fd),
         NEW evs, CleanupClient(fd, evs), pc' = Resume(readfds')
  PROVE  Others'
<1>1. /\ Running /\ readfds' \subseteq readfds \ {fd} /\ readfds' \subseteq Fds
      /\ \A g \in readfds' : seen'[g] = owner[g]
  BY TurnPasses
<1>2. /\ owner' = [owner EXCEPT ![fd] = Free] /\ master' = master \ {fd}
      /\ handshaken' = [handshaken EXCEPT ![fd] = FALSE]
      /\ frag_buffer' = [frag_buffer EXCEPT ![fd] = <<>>]
      /\ frag_opcode' = [frag_opcode EXCEPT ![fd] = "cont"]
      /\ UNCHANGED <<lfd, fdmax>>
  BY DEF CleanupClient, CloseFd, ClearFd, EraseMaps, Store
<1>3. /\ owner \in [Fds -> Conns \cup {Free, App, Listener}]
      /\ master \in SUBSET Fds
      /\ handshaken \in [Fds -> BOOLEAN]
      /\ frag_buffer \in [Fds -> Seq(Byte)]
      /\ frag_opcode \in [Fds -> {"cont", "text", "binary"}]
      /\ {Free, Listener} \cap Conns = {} /\ Free # Listener
  BY ServerAssumption DEF Inv, TypeOK, SocketTypes, MemberTypes
<1>4. FdTables'
  <2>1. lfd \in master /\ lfd # fd /\ owner[lfd] = Listener
    BY <1>1, <1>3 DEF Inv, FdTables
  <2>2. lfd' \in master' /\ owner'[lfd'] = Listener
    BY <1>2, <1>3, <2>1
  <2>3. master' = {g \in Fds : owner'[g] \in Conns \cup {Listener}}
    BY <1>1, <1>2, <1>3 DEF Inv, FdTables
  <2>4. \A g \in master' : g <= fdmax'
    BY <1>1, <1>2 DEF Inv, FdTables
  <2>5. \A g \in Fds : owner'[g] \notin Conns =>
          ~handshaken'[g] /\ frag_buffer'[g] = <<>> /\ frag_opcode'[g] = "cont"
    BY <1>2, <1>3 DEF Inv, FdTables
  <2> QED
    BY <2>2, <2>3, <2>4, <2>5 DEF FdTables
<1>5. ReadSetFresh'
  BY <1>1, <1>2, <1>3 DEF ReadSetFresh
<1>6. ThreadState'
  BY <1>1, <1>2, <1>3 DEF Inv, ThreadState, Resume
<1> QED
  BY <1>4, <1>5, <1>6 DEF Others

\* A new connection enters the tables under a number that was free.
LEMMA OthersAccept ==
  ASSUME Inv, Accept
  PROVE  Others'
<1>1. Visit(lfd) /\ pc = "scan" /\ Running
  BY DEF Accept, Visit, Running
<1>2. lfd \in Fds /\ owner[lfd] = Listener
  BY <1>1 DEF Inv, TypeOK, MemberTypes, FdTables
<1>3. /\ readfds' \subseteq readfds \ {lfd} /\ readfds' \subseteq Fds
      /\ \A g \in readfds' : seen'[g] = owner[g]
  BY <1>1, <1>2, TurnPasses DEF Turn
<1>4. pc' = Resume(readfds') /\ UNCHANGED <<lfd, frag_buffer, frag_opcode, cur>>
  BY DEF Accept
<1>5. CASE UNCHANGED <<owner, master, fdmax, handshaken>>
  <2>1. FdTables'
    BY <1>1, <1>4, <1>5 DEF Inv, FdTables
  <2>2. ReadSetFresh'
    BY <1>3, <1>5 DEF ReadSetFresh
  <2>3. ThreadState'
    BY <1>3, <1>4, <1>5 DEF Inv, ThreadState, Resume
  <2> QED
    BY <2>1, <2>2, <2>3 DEF Others
<1>6. CASE ~UNCHANGED <<owner, master, fdmax, handshaken>>
  <2>1. PICK cfd \in NextFds :
          /\ owner' = [owner EXCEPT ![cfd] = Head(acceptq)]
          /\ master' = master \cup {cfd}
          /\ fdmax' = Higher(cfd, fdmax)
          /\ handshaken' = [handshaken EXCEPT ![cfd] = FALSE]
    BY <1>6 DEF Accept
  <2>2. cfd \in Fds /\ owner[cfd] = Free /\ cfd # lfd
    BY <1>2, <2>1, ServerAssumption DEF NextFds, FreeFds
  <2>3. Head(acceptq) \in Conns
    BY HeadTailProperties DEF Inv, TypeOK, SocketTypes, Accept
  <2>4. /\ owner \in [Fds -> Conns \cup {Free, App, Listener}]
        /\ master \in SUBSET Fds /\ fdmax \in Fds \cup {-1} /\ Fds \subseteq Nat
        /\ handshaken \in [Fds -> BOOLEAN]
        /\ {Free, Listener} \cap Conns = {} /\ Free # Listener
    BY ServerAssumption DEF Inv, TypeOK, SocketTypes, MemberTypes
  <2>5. master = {g \in Fds : owner[g] \in Conns \cup {Listener}}
        /\ \A g \in master : g <= fdmax
    BY <1>1 DEF Inv, FdTables
  <2>6. cfd \notin master /\ cfd \notin readfds
    BY <2>2, <2>4, <2>5 DEF Inv, ThreadState
  <2>7. FdTables'
    <3>1. lfd' \in master' /\ owner'[lfd'] = Listener
      BY <1>1, <1>2, <1>4, <2>1, <2>2, <2>4 DEF Inv, FdTables
    <3>2. master' = {g \in Fds : owner'[g] \in Conns \cup {Listener}}
      BY <2>1, <2>2, <2>3, <2>4, <2>5
    <3>3. \A g \in master' : g <= fdmax'
      BY <2>1, <2>2, <2>4, <2>5 DEF Higher
    <3>4. \A g \in Fds : owner'[g] \notin Conns =>
            ~handshaken'[g] /\ frag_buffer'[g] = <<>> /\ frag_opcode'[g] = "cont"
      BY <1>4, <2>1, <2>2, <2>3, <2>4 DEF Inv, FdTables
    <3> QED
      BY <3>1, <3>2, <3>3, <3>4 DEF FdTables
  <2>8. ReadSetFresh'
    BY <1>3, <2>1, <2>2, <2>4, <2>6 DEF ReadSetFresh
  <2>9. ThreadState'
    BY <1>3, <1>4, <2>1, <2>2, <2>3, <2>4 DEF Inv, ThreadState, Resume
  <2> QED
    BY <2>7, <2>8, <2>9 DEF Others
<1> QED
  BY <1>5, <1>6

\* The handshake keeps the tables in agreement, in each of its outcomes.
LEMMA OthersHandshake ==
  ASSUME Inv, NEW fd \in Fds, HandshakeEof(fd) \/ HandshakeRecv(fd)
  PROVE  Others'
<1>1. Turn(fd) /\ owner[fd] \in Conns
  BY ServedFd DEF HandshakeEof, HandshakeRecv, InHandshake, Turn, Visit, Lowest
<1>2. CASE HandshakeFails(fd)
  BY <1>1, <1>2, OthersCleanup DEF HandshakeFails
<1>3. CASE ~HandshakeFails(fd)
  <2>1. /\ pc' \in {"hs", "send"} /\ cur' = fd
        /\ UNCHANGED <<owner, fdset, maps>>
    BY <1>3 DEF HandshakeEof, HandshakeRecv, Call
  <2>2. UNCHANGED <<handshaken, frag_buffer, frag_opcode>>
    BY <2>1 DEF maps
  <2> QED
    BY <1>1, <2>1, <2>2, OthersServe
<1> QED
  BY <1>2, <1>3

\* So does every branch of handle_frame.
LEMMA OthersHandleFrame ==
  ASSUME Inv, NEW fd \in Fds, HandleFrame(fd)
  PROVE  Others'
<1>1. CASE FrameEof(fd)
  <2>1. Turn(fd) /\ owner[fd] \in Conns
    BY <1>1, ServedFd DEF FrameEof, Turn, Visit, Lowest
  <2> QED
    BY <1>1, <2>1, OthersCleanup DEF FrameEof
<1>2. ASSUME NEW h \in Kinds, RecvFrame(fd, h),
             \/ UNCHANGED <<frag_buffer, frag_opcode>>
             \/ \E op, d : Store(fd, op, d),
             pc' = Resume(readfds') \/ \E r : Call(fd, r)
      PROVE  Others'
  <2>1. Turn(fd) /\ owner[fd] \in Conns
    BY <1>2, TypeRecvFrame, InvAttended DEF RecvFrame, Turn
  <2>2. UNCHANGED <<owner, fdset, handshaken>>
    BY <1>2 DEF RecvFrame
  <2>3. /\ frag_buffer \in [Fds -> Seq(Byte)]
        /\ frag_opcode \in [Fds -> {"cont", "text", "binary"}]
    BY DEF Inv, TypeOK, MemberTypes
  <2>4. \A g \in Fds \ {fd} : frag_buffer'[g] = frag_buffer[g] /\ frag_opcode'[g] = frag_opcode[g]
    BY <1>2, <2>3 DEF Store
  <2>5. \/ pc' = Resume(readfds')
        \/ pc' \in {"hs", "send", "dead"} /\ cur' = fd
    BY <1>2 DEF Call
  <2> QED
    BY <2>1, <2>2, <2>4, <2>5, OthersServe
<1>3. ASSUME NEW h \in Kinds,
             \/ ProtocolError(fd, h) \/ PayloadTooBig(fd, h) \/ WholeMessage(fd, h)
             \/ Ping(fd, h) \/ CloseOrUnknown(fd, h)
      PROVE  Others'
  BY <1>2, <1>3 DEF ProtocolError, PayloadTooBig, WholeMessage, Ping, CloseOrUnknown, FrameRead
<1>4. ASSUME NEW h \in Kinds, FirstFragment(fd, h) PROVE Others'
  BY <1>2, <1>4 DEF FirstFragment, FrameRead
<1>5. ASSUME NEW h \in Kinds, Continuation(fd, h) PROVE Others'
  <2>1. RecvFrame(fd, h) /\ \E op, d : Store(fd, op, d)
    BY <1>5 DEF Continuation, FrameRead, Assembled
  <2>2. pc' = Resume(readfds') \/ \E r : Call(fd, r)
    BY <1>5 DEF Continuation
  <2> QED
    BY <1>2, <2>1, <2>2
<1> QED
  BY <1>1, <1>3, <1>4, <1>5 DEF HandleFrame

\* So does what follows a send.
LEMMA OthersSend ==
  ASSUME Inv, Send
  PROVE  Others'
<1>1. cur \in Fds /\ owner[cur] \in Conns /\ pc = "send" /\ UNCHANGED <<readfds, seen>>
  BY DEF Inv, ThreadState, Send, Opened, NotOpened, SigPipe, Replied, Closed, SendReturns
<1>2. Turn(cur)
  BY <1>1 DEF Turn
<1>3. CASE NotOpened \/ \E e \in {"send", "lost"} : Closed(e)
  BY <1>1, <1>2, <1>3, OthersCleanup DEF NotOpened, Closed, SendReturns
<1>4. CASE Opened \/ SigPipe \/ \E e \in {"send", "lost"} : Replied(e)
  <2>1. UNCHANGED <<owner, fdset, frag_buffer, frag_opcode>>
    BY <1>4 DEF Opened, SigPipe, Replied, sockets, maps
  <2>2. \A g \in Fds \ {cur} : handshaken'[g] = handshaken[g]
    BY <1>4 DEF Inv, TypeOK, MemberTypes, Opened, SigPipe, Replied, maps
  <2>3. \/ pc' = Resume(readfds')
        \/ pc' = "dead" /\ cur' = cur
    BY <1>1, <1>4 DEF Opened, SigPipe, Replied, SendReturns
  <2> QED
    BY <1>1, <1>2, <2>1, <2>2, <2>3, OthersServe
<1> QED
  BY <1>3, <1>4 DEF Send

\* The whole of Inv is preserved by every step.
LEMMA OthersNext ==
  ASSUME Inv, [Next]_vars
  PROVE  Others'
<1>1. CASE UNCHANGED vars
  BY <1>1, OthersUnchanged DEF vars, sockets, fdset, maps, locals
<1>2. CASE \E c \in Conns : Client(c)
  <2>1. UNCHANGED <<owner, fdset, maps, locals>>
    BY <1>2 DEF Client, Connect, SendRequest, SendFrame, SendItem, Deliver, Read, Finish, Reset
  <2> QED
    BY <2>1, OthersUnchanged
<1>3. CASE Application
  <2>1. UNCHANGED <<fdset, maps, locals>>
    BY <1>3 DEF Application, SetBacklog, SetMaxPayload, SetStop, AppOpen, AppClose
  <2>2. CASE AppOpen \/ \E fd \in Fds : AppClose(fd)
    <3>1. PICK fd \in Fds, o \in {Free, App} :
            /\ ~Ended /\ owner[fd] \in {Free, App}
            /\ owner' = [owner EXCEPT ![fd] = o]
      BY <2>2 DEF AppOpen, AppClose, NextFds, FreeFds
    <3> QED
      BY <2>1, <3>1, OthersApplication
  <2>3. CASE ~(AppOpen \/ \E fd \in Fds : AppClose(fd))
    BY <1>3, <2>1, <2>3, OthersUnchanged
    DEF Application, SetBacklog, SetMaxPayload, SetStop, sockets
  <2> QED
    BY <2>2, <2>3
<1>4. CASE Run \/ SelectFails \/ ServerStep
  BY <1>4, OthersRun, OthersSelect, OthersLeave, OthersAccept, OthersSend,
     OthersHandshake, OthersHandleFrame DEF SelectFails, ServerStep, Stop
<1> QED
  BY <1>1, <1>2, <1>3, <1>4 DEF Next

-----------------------------------------------------------------------------
(* Accounted, which needs Attended and is not needed by it.                *)

\* Does the kernel hold an end of c, in the queue or behind a descriptor?
Live(c) == cst[c] \notin {"new", "closed"}

\* Steps that close, accept and queue nothing.
LEMMA AccountedKept ==
  ASSUME Accounted, acceptq' = acceptq,
         \A c \in Conns : FdsOf(c)' = FdsOf(c) /\ (Live(c)' <=> Live(c))
  PROVE  Accounted'
BY DEF Accounted, Queued, Live

\* The descriptors of connections stay the same if owner does, or if it changes
\* for what no connection has, to what is none.
LEMMA FdsOfKept ==
  ASSUME NEW fd \in Fds, NEW o, owner \in [Fds -> Conns \cup {Free, App, Listener}],
         owner[fd] \notin Conns, o \notin Conns, owner' = [owner EXCEPT ![fd] = o]
  PROVE  \A c \in Conns : FdsOf(c)' = FdsOf(c)
BY DEF FdsOf

\* connect() queues a connection that was nowhere.
LEMMA AccountedConnect ==
  ASSUME Attended, Accounted, NEW c \in Conns, Connect(c)
  PROVE  Accounted'
<1>1. /\ acceptq \in Seq(Conns) /\ acceptq' = Append(acceptq, c)
      /\ cst' = [cst EXCEPT ![c] = "up"] /\ cst[c] = "new" /\ owner' = owner
      /\ cst \in [Conns -> {"new", "up", "fin", "rst", "pipe", "closed"}]
  BY DEF Attended, TypeOK, SocketTypes, Connect
<1>2. c \notin Queued /\ FdsOf(c) = {}
  BY <1>1 DEF Accounted
<1>3. /\ Len(acceptq) \in Nat /\ DOMAIN acceptq = 1 .. Len(acceptq)
      /\ DOMAIN acceptq' = 1 .. Len(acceptq) + 1
      /\ acceptq'[Len(acceptq) + 1] = c
      /\ \A i \in 1 .. Len(acceptq) : acceptq'[i] = acceptq[i]
  BY <1>1, AppendProperties, LenProperties
<1>4. Queued' = Queued \cup {c}
  BY <1>3 DEF Queued
<1>5. \A i, j \in DOMAIN acceptq' : acceptq'[i] = acceptq'[j] => i = j
  <2>1. SUFFICES ASSUME NEW i \in 1 .. Len(acceptq) + 1, NEW j \in 1 .. Len(acceptq) + 1,
                        acceptq'[i] = acceptq'[j]
                 PROVE  i = j
    BY <1>3
  <2>2. \A k \in 1 .. Len(acceptq) : acceptq'[k] = acceptq[k] /\ acceptq[k] # c
    BY <1>2, <1>3 DEF Queued
  <2>3. CASE i = Len(acceptq) + 1 \/ j = Len(acceptq) + 1
    BY <1>3, <2>1, <2>2, <2>3
  <2>4. CASE i \in 1 .. Len(acceptq) /\ j \in 1 .. Len(acceptq)
    BY <1>3, <2>1, <2>2, <2>4 DEF Accounted
  <2> QED
    BY <1>3, <2>3, <2>4
<1>6. \A d \in Conns : FdsOf(d)' = FdsOf(d)
  BY <1>1 DEF FdsOf
<1>7. ASSUME NEW d \in Conns
      PROVE  /\ FdsOf(d)' # {} => d \notin Queued'
             /\ \A fd, g \in FdsOf(d)' : fd = g
             /\ cst'[d] \notin {"new", "closed"} <=> d \in Queued' \/ FdsOf(d)' # {}
  <2>1. CASE d = c
    BY <1>1, <1>2, <1>4, <1>6, <2>1
  <2>2. CASE d # c
    BY <1>1, <1>4, <1>6, <2>2 DEF Accounted
  <2> QED
    BY <2>1, <2>2
<1> QED
  BY <1>5, <1>7 DEF Accounted

\* accept moves the head of the queue behind a free descriptor.
LEMMA AccountedAccept ==
  ASSUME Attended, Accounted, NEW cfd \in Fds, owner[cfd] = Free, acceptq # <<>>,
         owner' = [owner EXCEPT ![cfd] = Head(acceptq)], acceptq' = Tail(acceptq),
         cst' = cst
  PROVE  Accounted'
<1>1. /\ acceptq \in Seq(Conns)
      /\ owner \in [Fds -> Conns \cup {Free, App, Listener}] /\ Free \notin Conns
  BY ServerAssumption, SMTT(40) DEF Attended, TypeOK, SocketTypes
<1>2. PICK h \in Conns : h = Head(acceptq)
  BY <1>1, HeadTailProperties
<1>3. PICK n \in Nat :
        /\ n = Len(acceptq) - 1 /\ DOMAIN acceptq = 1 .. n + 1 /\ DOMAIN acceptq' = 1 .. n
        /\ h = acceptq[1] /\ \A i \in 1 .. n : acceptq'[i] = acceptq[i + 1]
  <2>1. /\ Tail(acceptq) \in Seq(Conns) /\ Len(Tail(acceptq)) = Len(acceptq) - 1
        /\ \A i \in 1 .. Len(Tail(acceptq)) : Tail(acceptq)[i] = acceptq[i + 1]
    BY <1>1, HeadTailProperties
  <2>2. Len(acceptq) \in Nat /\ Len(acceptq) # 0 /\ h = acceptq[1]
    BY <1>1, <1>2, LenProperties, EmptySeq
  <2>3. DOMAIN acceptq = 1 .. Len(acceptq) /\ DOMAIN acceptq' = 1 .. Len(acceptq) - 1
    BY <1>1, <2>1, LenProperties
  <2>4. Len(acceptq) - 1 \in Nat /\ (Len(acceptq) - 1) + 1 = Len(acceptq)
    BY <2>2
  <2> QED
    BY <2>1, <2>2, <2>3, <2>4
<1>4. \A i, j \in 1 .. n + 1 : acceptq[i] = acceptq[j] => i = j
  BY <1>3 DEF Accounted
<1>5. Queued' = Queued \ {h}
  <2>1. ASSUME NEW x \in Queued' PROVE x \in Queued \ {h}
    <3>1. PICK i \in 1 .. n : x = acceptq'[i]
      BY <1>3, <2>1 DEF Queued
    <3>2. i + 1 \in 1 .. n + 1 /\ i + 1 # 1 /\ 1 \in 1 .. n + 1
      OBVIOUS
    <3>3. x = acceptq[i + 1] /\ x # acceptq[1]
      BY <1>3, <1>4, <3>1, <3>2
    <3> QED
      BY <1>3, <3>2, <3>3 DEF Queued
  <2>2. ASSUME NEW x \in Queued \ {h} PROVE x \in Queued'
    <3>1. PICK i \in 1 .. n + 1 : x = acceptq[i]
      BY <1>3 DEF Queued
    <3>2. i # 1
      BY <1>3, <3>1
    <3>3. i - 1 \in 1 .. n /\ (i - 1) + 1 = i
      BY <3>2
    <3>4. x = acceptq'[i - 1]
      BY <1>3, <3>1, <3>3
    <3> QED
      BY <1>3, <3>3, <3>4 DEF Queued
  <2> QED
    BY <2>1, <2>2
<1>6. \A i, j \in DOMAIN acceptq' : acceptq'[i] = acceptq'[j] => i = j
  <2>1. ASSUME NEW i \in 1 .. n, NEW j \in 1 .. n, acceptq'[i] = acceptq'[j] PROVE i = j
    <3>1. i + 1 \in 1 .. n + 1 /\ j + 1 \in 1 .. n + 1
      OBVIOUS
    <3>2. i + 1 = j + 1
      BY <1>3, <1>4, <2>1, <3>1
    <3> QED
      BY <3>2
  <2> QED
    BY <1>3, <2>1
<1>7. h \in Queued /\ FdsOf(h) = {}
  <2>1. 1 \in 1 .. n + 1
    OBVIOUS
  <2> QED
    BY <1>3, <2>1 DEF Accounted, Queued
<1>8. \A fd \in Fds : owner'[fd] = IF fd = cfd THEN h ELSE owner[fd]
  BY <1>1, <1>2
<1>9. FdsOf(h)' = {cfd} /\ \A d \in Conns \ {h} : FdsOf(d)' = FdsOf(d)
  BY <1>1, <1>7, <1>8 DEF FdsOf
<1>10. ASSUME NEW d \in Conns
       PROVE  /\ FdsOf(d)' # {} => d \notin Queued'
              /\ \A fd, g \in FdsOf(d)' : fd = g
              /\ cst'[d] \notin {"new", "closed"} <=> d \in Queued' \/ FdsOf(d)' # {}
  <2>1. CASE d = h
    BY <1>5, <1>7, <1>9, <2>1 DEF Accounted
  <2>2. CASE d # h
    BY <1>5, <1>9, <2>2 DEF Accounted
  <2> QED
    BY <2>1, <2>2
<1> QED
  BY <1>6, <1>10 DEF Accounted

\* cleanup_client closes the one descriptor of its connection.
LEMMA AccountedCleanup ==
  ASSUME Attended, Accounted, NEW fd \in Fds, owner[fd] \in Conns, NEW evs, CleanupClient(fd, evs)
  PROVE  Accounted'
<1> PICK c \in Conns : c = owner[fd]
  OBVIOUS
<1>1. /\ owner \in [Fds -> Conns \cup {Free, App, Listener}] /\ Free \notin Conns
      /\ cst \in [Conns -> {"new", "up", "fin", "rst", "pipe", "closed"}]
  BY ServerAssumption DEF Attended, TypeOK, SocketTypes
<1>2. /\ owner' = [owner EXCEPT ![fd] = Free] /\ cst' = [cst EXCEPT ![c] = "closed"]
      /\ acceptq' = acceptq
  BY DEF CleanupClient, CloseFd
<1>3. FdsOf(c) = {fd} /\ c \notin Queued
  BY DEF Accounted, FdsOf
<1>4. Queued' = Queued
  BY <1>2 DEF Queued
<1>5. FdsOf(c)' = {}
  BY <1>1, <1>2, <1>3 DEF FdsOf
<1>6. \A d \in Conns \ {c} : FdsOf(d)' = FdsOf(d)
  BY <1>1, <1>2 DEF FdsOf
<1>7. ASSUME NEW d \in Conns
      PROVE  /\ FdsOf(d)' # {} => d \notin Queued'
             /\ \A f, g \in FdsOf(d)' : f = g
             /\ cst'[d] \notin {"new", "closed"} <=> d \in Queued' \/ FdsOf(d)' # {}
  <2>1. CASE d = c
    BY <1>1, <1>2, <1>3, <1>4, <1>5, <2>1
  <2>2. CASE d # c
    BY <1>1, <1>2, <1>4, <1>6, <2>2 DEF Accounted
  <2> QED
    BY <2>1, <2>2
<1>8. \A i, j \in DOMAIN acceptq' : acceptq'[i] = acceptq'[j] => i = j
  BY <1>2 DEF Accounted
<1> QED
  BY <1>7, <1>8 DEF Accounted

\* Leaving the loop resets what is queued, and closes no accepted connection.
LEMMA AccountedLeave ==
  ASSUME Attended, Accounted, Leave
  PROVE  Accounted'
<1>1. /\ owner \in [Fds -> Conns \cup {Free, App, Listener}] /\ {Free, Listener} \cap Conns = {}
      /\ cst \in [Conns -> {"new", "up", "fin", "rst", "pipe", "closed"}]
      /\ lfd \in Fds /\ owner[lfd] = Listener
  BY ServerAssumption DEF Attended, TypeOK, SocketTypes, Running, Leave
<1>2. /\ owner' = [owner EXCEPT ![lfd] = Free] /\ acceptq' = <<>>
      /\ \A c \in Conns : cst'[c] = IF c \in Queued THEN "closed" ELSE cst[c]
  BY DEF Leave
<1>3. \A c \in Conns : FdsOf(c)' = FdsOf(c)
  BY <1>1, <1>2, FdsOfKept
<1>4. Queued' = {} /\ DOMAIN acceptq' = {}
  BY <1>2 DEF Queued
<1> QED
  BY <1>2, <1>3, <1>4 DEF Accounted

\* Accounted is preserved by every step.
LEMMA AccountedNext ==
  ASSUME Attended, Accounted, [Next]_vars
  PROVE  Accounted'
<1>1. /\ owner \in [Fds -> Conns \cup {Free, App, Listener}]
      /\ {Free, App, Listener} \cap Conns = {}
      /\ cst \in [Conns -> {"new", "up", "fin", "rst", "pipe", "closed"}]
  BY ServerAssumption DEF Attended, TypeOK, SocketTypes
<1>2. CASE UNCHANGED <<owner, acceptq, cst>>
  BY <1>2, AccountedKept DEF FdsOf, Live
<1>3. ASSUME NEW c \in Conns, Client(c) PROVE Accounted'
  <2>1. CASE SendRequest(c) \/ SendFrame(c) \/ Deliver(c) \/ Read(c)
    BY <1>2, <2>1 DEF SendRequest, SendFrame, SendItem, Deliver, Read
  <2>2. CASE Finish(c) \/ Reset(c)
    <3>1. /\ UNCHANGED <<owner, acceptq>> /\ Live(c)
          /\ \E s \in {"fin", "rst", "pipe"} : cst' = [cst EXCEPT ![c] = s]
      BY <2>2 DEF Finish, Reset, Live
    <3> QED
      BY <1>1, <3>1, AccountedKept DEF FdsOf, Live
  <2> QED
    BY <1>3, <2>1, <2>2, AccountedConnect DEF Client
<1>4. CASE Application \/ Run
  <2>1. UNCHANGED <<acceptq, cst>>
    BY <1>4 DEF Application, SetBacklog, SetMaxPayload, SetStop, AppOpen, AppClose, Run, Listening, sockets
  <2>2. \/ UNCHANGED owner
        \/ \E fd \in Fds, o \in {Free, App, Listener} :
             owner[fd] \in {Free, App} /\ owner' = [owner EXCEPT ![fd] = o]
    BY <1>4 DEF Application, SetBacklog, SetMaxPayload, SetStop, AppOpen, AppClose, Run, Listening,
                NextFds, FreeFds, sockets
  <2>3. \A c \in Conns : FdsOf(c)' = FdsOf(c)
    <3>1. CASE UNCHANGED owner
      BY <3>1 DEF FdsOf
    <3>2. CASE ~UNCHANGED owner
      <4>1. PICK fd \in Fds, o \in {Free, App, Listener} :
              owner[fd] \in {Free, App} /\ owner' = [owner EXCEPT ![fd] = o]
        BY <2>2, <3>2
      <4>2. owner[fd] \notin Conns /\ o \notin Conns
        BY <1>1, <4>1
      <4> QED
        BY <1>1, <4>1, <4>2, FdsOfKept
    <3> QED
      BY <3>1, <3>2
  <2> QED
    BY <2>1, <2>3, AccountedKept DEF Live
<1>5. CASE Select
  BY <1>2, <1>5 DEF Select, SelectAlso, sockets
<1>6. CASE Leave
  BY <1>6, AccountedLeave
<1>7. CASE Accept
  <2>1. CASE UNCHANGED <<owner, acceptq>>
    BY <1>2, <1>7, <2>1 DEF Accept
  <2>2. CASE ~UNCHANGED <<owner, acceptq>>
    <3>1. PICK cfd \in NextFds :
            owner' = [owner EXCEPT ![cfd] = Head(acceptq)] /\ acceptq' = Tail(acceptq)
      BY <1>7, <2>2 DEF Accept
    <3>2. cfd \in Fds /\ owner[cfd] = Free /\ acceptq # <<>> /\ cst' = cst
      BY <1>7 DEF Accept, NextFds, FreeFds
    <3> QED
      BY <3>1, <3>2, AccountedAccept
  <2> QED
    BY <2>1, <2>2
<1>8. ASSUME NEW fd \in Fds, HandshakeEof(fd) \/ HandshakeRecv(fd) PROVE Accounted'
  <2>1. owner[fd] \in Conns
    BY <1>8 DEF Attended, HandshakeEof, HandshakeRecv, InHandshake
  <2>2. CASE HandshakeFails(fd)
    BY <2>1, <2>2, AccountedCleanup DEF HandshakeFails
  <2>3. CASE ~HandshakeFails(fd)
    BY <1>2, <1>8, <2>3 DEF HandshakeEof, HandshakeRecv
  <2> QED
    BY <2>2, <2>3
<1>9. ASSUME NEW fd \in Fds, HandleFrame(fd) PROVE Accounted'
  <2>1. CASE FrameEof(fd)
    BY <2>1, AccountedCleanup DEF Attended, FrameEof
  <2>2. ASSUME NEW h \in Kinds, RecvFrame(fd, h) PROVE Accounted'
    BY <1>2, <2>2 DEF RecvFrame
  <2> QED
    BY <1>9, <2>1, <2>2, ZenonT(40) DEF HandleFrame, ProtocolError, PayloadTooBig, WholeMessage,
                            FirstFragment, Continuation, Ping, CloseOrUnknown, FrameRead
<1>10. CASE Send
  <2>1. cur \in Fds /\ owner[cur] \in Conns
    BY <1>10 DEF Attended, Send, Opened, NotOpened, SigPipe, Replied, Closed, SendReturns
  <2>2. CASE NotOpened \/ \E e \in {"send", "lost"} : Closed(e)
    BY <2>1, <2>2, AccountedCleanup DEF NotOpened, Closed
  <2>3. CASE Opened \/ SigPipe
    BY <1>2, <2>3 DEF Opened, SigPipe, sockets
  <2>4. ASSUME NEW e \in {"send", "lost"}, Replied(e) PROVE Accounted'
    <3>1. UNCHANGED <<owner, acceptq>>
      BY <2>4 DEF Replied
    <3>2. CASE e = "lost"
      <4>1. cst[owner[cur]] = "rst" /\ cst' = [cst EXCEPT ![owner[cur]] = "pipe"]
        BY <2>4, <3>2 DEF Replied, SendReturns
      <4> QED
        BY <1>1, <2>1, <3>1, <4>1, AccountedKept DEF FdsOf, Live
    <3>3. CASE e = "send"
      <4>1. cst' = cst
        BY <1>1, <2>1, <2>4, <3>3 DEF Replied
      <4> QED
        BY <1>2, <3>1, <4>1
    <3> QED
      BY <3>2, <3>3
  <2> QED
    BY <1>10, <2>2, <2>3, <2>4 DEF Send
<1>11. CASE UNCHANGED vars
  BY <1>2, <1>11 DEF vars, sockets
<1> QED
  BY <1>3, <1>4, <1>5, <1>6, <1>7, <1>8, <1>9, <1>10, <1>11
  DEF Next, ServerStep, SelectFails, Stop

-----------------------------------------------------------------------------
(* The theorems.                                                           *)

LEMMA InvNext == Inv /\ [Next]_vars => Inv'
  BY TypeNext, InvAttended, OthersNext DEF Inv, Others

LEMMA AccountedInit == Init => Accounted
  BY ServerAssumption DEF Init, Accounted, Queued, FdsOf

\* Inv is inductive: run() keeps its tables in agreement with the operating
\* system through every interleaving of clients, application and loop.
THEOREM InvHolds == Spec => []Inv
  BY InvInit, InvNext, PTL DEF Spec

\* Every variable keeps its type: accept's and socket's errors never reach a
\* table, and no frame or reply is made of anything but bytes.
THEOREM TypeCorrect == Spec => []TypeOK
<1>1. Inv => TypeOK
  BY DEF Inv
<1> QED
  BY <1>1, InvHolds, PTL

\* master_, fdmax_, handshaken_ and the fragment maps agree with the open
\* descriptors, for any number of descriptors and connections.
THEOREM TablesAgree == Spec => []FdTables
<1>1. Inv => FdTables
  BY DEF Inv
<1> QED
  BY <1>1, InvHolds, PTL

\* A pass never serves a descriptor that was closed, or closed and handed out
\* again, since select reported it.
THEOREM PassIsFresh == Spec => []ReadSetFresh
<1>1. Inv => ReadSetFresh
  BY DEF Inv
<1> QED
  BY <1>1, InvHolds, PTL

\* What the thread blocks on is an accepted connection it will not visit again.
THEOREM ThreadIsPlaced == Spec => []ThreadState
<1>1. Inv => ThreadState
  BY DEF Inv
<1> QED
  BY <1>1, InvHolds, PTL

\* Every connection is in the accept queue once, or behind one descriptor, or
\* gone: none is leaked, served twice, or closed under another's number.
THEOREM AllAccounted == Spec => []Accounted
<1>1. Inv /\ Accounted /\ [Next]_vars => Accounted'
  BY InvAttended, AccountedNext
<1> QED
  BY <1>1, AccountedInit, InvHolds, PTL DEF Spec

=============================================================================
