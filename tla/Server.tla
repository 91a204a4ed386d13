------------------------------- MODULE Server -------------------------------
(***************************************************************************)
(* WebSocketServer of src/server_impl.cpp: one thread that selects over    *)
(* blocking sockets, the clients and the TCP connections around it, and    *)
(* the rest of the process, which opens and closes descriptors of its own. *)
(*                                                                         *)
(* One call of run() is modelled, from the setters before it to its        *)
(* return; Restart adds the calls after it.  std::map members are total    *)
(* functions: operator[] makes an absent key indistinguishable from one    *)
(* that holds the default, so erase stores the default.                    *)
(***************************************************************************)
EXTENDS Framing, FiniteSets

CONSTANTS
  Fds,          \* the file descriptors of the process
  AppFds,       \* those the application holds at the start
  Backlogs,     \* what set_backlog may be given
  MaxPayloads,  \* what set_max_payload may be given
  RecvMax,      \* 4096: bytes one recv of handle_frame takes
  HsChunk,      \* 2048: bytes one recv of perform_handshake takes
  HsLimit,      \* 32*1024: bytes of request perform_handshake accepts
  SendCap,      \* replies a peer may leave unread before send blocks
  MaxFrames,    \* bound: frames a client sends
  AppMax,       \* bound: descriptors the application holds at a time
  Free, App, Listener  \* owners of a descriptor that are not connections

ASSUME ServerAssumption ==
  /\ Fds \subseteq Nat
  /\ AppFds \subseteq Fds
  /\ Backlogs \subseteq Nat
  /\ MaxPayloads \subseteq Int
  /\ RecvMax \in Nat /\ HsChunk \in Nat /\ HsLimit \in Nat
  /\ RecvMax >= HeaderLen /\ HsChunk > 0
  /\ SendCap \in Nat \ {0} /\ MaxFrames \in Nat /\ AppMax \in Nat
  /\ {Free, App, Listener} \cap Conns = {}
  /\ Free # App /\ Free # Listener /\ App # Listener

VARIABLES
  \* the operating system: descriptors, accept queue, connections
  owner,        \* what each descriptor refers to
  acceptq,      \* connections established and not yet accepted
  cst,          \* the client's end of each connection
  todo,         \* what the client is sending and the kernel has not yet received
  inp,          \* what the kernel holds for the server's recv
  unread,       \* replies the client has not read
  sent,         \* items the client has sent
  \* members of WebSocketServer, and the stop flag
  lfd, fdmax, master, backlog, max_payload, stop,
  handshaken, frag_buffer, frag_opcode,
  \* where run() stands, and the locals of it and of what it calls
  pc,           \* "idle", "loop", "scan", "hs" and "send" (blocked), or ended
  readfds,      \* descriptors select reported and the pass has still to visit
  cur,          \* the descriptor being served in "hs" and "send"
  rbuf,         \* the request bytes perform_handshake has read
  reply,        \* what send() has been called with, and what follows it
  \* history
  seen,         \* the owner select saw behind each descriptor in readfds
  heard,        \* the frames handle_frame has read from each connection
  said          \* callbacks made and replies written on it, in order

sockets == <<owner, acceptq, cst, todo, inp, unread, sent>>
config  == <<backlog, max_payload, stop>>
fdset   == <<lfd, fdmax, master>>
maps    == <<handshaken, frag_buffer, frag_opcode>>
locals  == <<pc, readfds, cur, rbuf, reply, seen>>
history == <<heard, said>>
vars    == <<sockets, config, fdset, maps, locals, history>>

-----------------------------------------------------------------------------
(* What the properties observe of a connection.                            *)

Codes == {0, 1000, 1002, 1009}

\* A frame or response handed to send(), and what handle_frame or
\* perform_handshake does once send() is back.
Reply == [op : Opcodes \cup {"http"}, data : Seq(Byte), code : Codes,
          next : {"opened", "keep", "close"}]

Event == [ev : {"open", "message", "send", "lost", "close"},
          op : Opcodes \cup {"http", "none"}, data : Seq(Byte), code : Codes]

Record(ev, op, d, code) == [ev |-> ev, op |-> op, data |-> d, code |-> code]

Mark(ev)         == Record(ev, "none", <<>>, 0)
OnMessage(op, d) == Record("message", op, d, 0)
Written(ev, r)   == Record(ev, r.op, r.data, r.code)

\* Slip: every echo is built by build_text.
Echo_AsText(op, d) == [op |-> "text", data |-> d, code |-> 0, next |-> "keep"]

Echo(op, d) == [op |-> op, data |-> d, code |-> 0, next |-> "keep"]

Pong(d) == [op |-> "pong", data |-> d, code |-> 0, next |-> "keep"]
CloseWith(n) == [op |-> "close", data |-> <<>>, code |-> n, next |-> "close"]
Switching    == [op |-> "http", data |-> <<>>, code |-> 0, next |-> "opened"]

NoReply == CloseWith(0)

-----------------------------------------------------------------------------
SocketTypes ==
  /\ owner \in [Fds -> Conns \cup {Free, App, Listener}]
  /\ acceptq \in Seq(Conns)
  /\ cst \in [Conns -> {"new", "up", "fin", "rst", "pipe", "closed"}]
  /\ todo \in [Conns -> Seq(Unit)]
  /\ inp \in [Conns -> Seq(Unit)]
  /\ unread \in [Conns -> 0 .. SendCap]
  /\ sent \in [Conns -> 0 .. MaxFrames + 1]

MemberTypes ==
  /\ backlog \in Nat /\ max_payload \in Int /\ stop \in BOOLEAN
  /\ lfd \in Fds \cup {-1} /\ fdmax \in Fds \cup {-1}
  /\ master \in SUBSET Fds
  /\ handshaken \in [Fds -> BOOLEAN]
  /\ frag_buffer \in [Fds -> Seq(Byte)]
  /\ frag_opcode \in [Fds -> {"cont", "text", "binary"}]

LocalTypes ==
  /\ pc \in {"idle", "loop", "scan", "hs", "send", "stopped", "dead"}
  /\ readfds \in SUBSET Fds
  /\ cur \in Fds \cup {-1}
  /\ rbuf \in Seq(Unit)
  /\ reply \in Reply
  /\ seen \in [Fds -> Conns \cup {Free, App, Listener}]

HistoryTypes ==
  /\ heard \in [Conns -> Seq(Frame)]
  /\ said \in [Conns -> Seq(Event)]

TypeOK == SocketTypes /\ MemberTypes /\ LocalTypes /\ HistoryTypes

Init ==
  /\ owner = [fd \in Fds |-> IF fd \in AppFds THEN App ELSE Free]
  /\ acceptq = <<>>
  /\ cst = [c \in Conns |-> "new"]
  /\ todo = [c \in Conns |-> <<>>]
  /\ inp = [c \in Conns |-> <<>>]
  /\ unread = [c \in Conns |-> 0]
  /\ sent = [c \in Conns |-> 0]
  /\ lfd = -1 /\ fdmax = -1 /\ master = {}
  /\ backlog = 16 /\ max_payload = ParseLimit  \* both 65536 in the source
  /\ stop = FALSE
  /\ handshaken = [fd \in Fds |-> FALSE]
  /\ frag_buffer = [fd \in Fds |-> <<>>]
  /\ frag_opcode = [fd \in Fds |-> "cont"]
  /\ pc = "idle" /\ readfds = {} /\ cur = -1 /\ rbuf = <<>> /\ reply = NoReply
  /\ seen = [fd \in Fds |-> Free]
  /\ heard = [c \in Conns |-> <<>>] /\ said = [c \in Conns |-> <<>>]

-----------------------------------------------------------------------------
(* The clients and the network.                                            *)

\* run() has returned, or the process is gone; what clients and application
\* do afterwards is not modelled.
Ended == pc \in {"stopped", "dead"}

\* connect() succeeds as soon as the kernel has queued the connection.
Connect(c) ==
  /\ ~Ended /\ pc # "idle"
  /\ cst[c] = "new"
  /\ Len(acceptq) <= backlog
  /\ cst' = [cst EXCEPT ![c] = "up"]
  /\ acceptq' = Append(acceptq, c)
  /\ UNCHANGED <<owner, todo, inp, unread, sent, config, fdset, maps, locals, history>>

SendItem(c, kind) ==
  /\ ~Ended /\ cst[c] = "up" /\ todo[c] = <<>>
  /\ todo' = [todo EXCEPT ![c] = Wire(c, sent[c], kind)]
  /\ sent' = [sent EXCEPT ![c] = @ + 1]
  /\ UNCHANGED <<owner, acceptq, cst, inp, unread, config, fdset, maps, locals, history>>

\* A client opens with its request and sends frames once it is upgraded.
SendRequest(c) == sent[c] = 0 /\ \E r \in Requests : SendItem(c, r)

SendFrame(c) ==
  /\ sent[c] \in 1 .. MaxFrames
  /\ \E fd \in Fds : owner[fd] = c /\ handshaken[fd]
  /\ \E k \in Kinds : SendItem(c, k)

\* TCP delivers in order, in segments of its own choosing.
Deliver(c) ==
  /\ ~Ended
  /\ \E n \in 1 .. Len(todo[c]) :
       /\ inp' = [inp EXCEPT ![c] = @ \o Take(todo[c], n)]
       /\ todo' = [todo EXCEPT ![c] = Drop(@, n)]
  /\ UNCHANGED <<owner, acceptq, cst, unread, sent, config, fdset, maps, locals, history>>

\* The client reads a reply.  Reading matters only by the room it makes.
Read(c) ==
  /\ ~Ended /\ cst[c] \in {"up", "fin"} /\ unread[c] = SendCap
  /\ unread' = [unread EXCEPT ![c] = @ - 1]
  /\ UNCHANGED <<owner, acceptq, cst, todo, inp, sent, config, fdset, maps, locals, history>>

\* The client shuts its sending side down: recv returns 0 once inp is empty.
Finish(c) ==
  /\ ~Ended /\ cst[c] = "up" /\ todo[c] = <<>>
  /\ cst' = [cst EXCEPT ![c] = "fin"]
  /\ UNCHANGED <<owner, acceptq, todo, inp, unread, sent, config, fdset, maps, locals, history>>

\* The client aborts, or has closed and is sent a reply.  What has arrived may
\* still be read or may be discarded.  The server's next send() fails; when the
\* client had finished before, or a send() has already failed, it raises
\* SIGPIPE instead.
Reset(c) ==
  /\ ~Ended /\ cst[c] \in {"up", "fin"}
  /\ cst' = [cst EXCEPT ![c] = IF @ = "fin" THEN "pipe" ELSE "rst"]
  /\ todo' = [todo EXCEPT ![c] = <<>>]
  /\ \/ UNCHANGED inp
     \/ inp' = [inp EXCEPT ![c] = <<>>]
  /\ UNCHANGED <<owner, acceptq, unread, sent, config, fdset, maps, locals, history>>

Client(c) ==
  \/ Connect(c) \/ SendRequest(c) \/ SendFrame(c) \/ Deliver(c)
  \/ Read(c) \/ Finish(c) \/ Reset(c)

-----------------------------------------------------------------------------
(* The rest of the process.                                                *)

FreeFds == {fd \in Fds : owner[fd] = Free}

Lowest(fd, S) == fd \in S /\ \A g \in S : fd <= g

\* Slip: the error, -1, is taken for a descriptor.
NextFds_Unchecked ==
  IF FreeFds = {} THEN {-1} ELSE {fd \in FreeFds : Lowest(fd, FreeFds)}

\* What socket() and accept() return: the lowest free descriptor, as POSIX has
\* it, or an error.
NextFds == {fd \in FreeFds : Lowest(fd, FreeFds)}

SetBacklog(n) ==
  /\ pc = "idle"
  /\ backlog' = n
  /\ UNCHANGED <<sockets, max_payload, stop, fdset, maps, locals, history>>

\* max_payload_ is a plain int: a call from another thread while run() reads it
\* is a race, in which the read finds the old value or the new one.
SetMaxPayload(n) ==
  /\ ~Ended
  /\ max_payload' = n
  /\ UNCHANGED <<sockets, backlog, stop, fdset, maps, locals, history>>

SetStop ==
  /\ ~Ended /\ ~stop
  /\ stop' = TRUE
  /\ UNCHANGED <<sockets, backlog, max_payload, fdset, maps, locals, history>>

AppOpen ==
  /\ ~Ended
  /\ Cardinality({fd \in Fds : owner[fd] = App}) < AppMax
  /\ \E fd \in NextFds : owner' = [owner EXCEPT ![fd] = App]
  /\ UNCHANGED <<acceptq, cst, todo, inp, unread, sent,
                 config, fdset, maps, locals, history>>

AppClose(fd) ==
  /\ ~Ended /\ owner[fd] = App
  /\ owner' = [owner EXCEPT ![fd] = Free]
  /\ UNCHANGED <<acceptq, cst, todo, inp, unread, sent,
                 config, fdset, maps, locals, history>>

Application ==
  \/ \E n \in Backlogs : SetBacklog(n)
  \/ \E n \in MaxPayloads : SetMaxPayload(n)
  \/ SetStop
  \/ AppOpen
  \/ \E fd \in Fds : AppClose(fd)

-----------------------------------------------------------------------------
(* run(): set-up, the loop and its end.                                    *)

\* Slip: master_ starts from nothing in every call of run().
Listening_Anew(fd) == master' = {fd} /\ fdmax' = fd

\* What an earlier call of run() left in master_ stays there.
Listening(fd) == master' = master \cup {fd} /\ fdmax' = fd

\* socket, bind, listen.  Each may fail, and run() then returns; after bind or
\* listen has failed the socket stays open.
Run ==
  /\ pc = "idle"
  /\ \/ /\ FreeFds = {}
        /\ lfd' = -1 /\ pc' = "stopped"
        /\ UNCHANGED <<owner, master, fdmax>>
     \/ \E fd \in NextFds :
          /\ lfd' = fd
          /\ owner' = [owner EXCEPT ![fd] = Listener]
          /\ \/ pc' = "loop" /\ Listening(fd)
             \/ pc' = "stopped" /\ UNCHANGED <<master, fdmax>>
  /\ UNCHANGED <<acceptq, cst, todo, inp, unread, sent,
                 config, maps, readfds, cur, rbuf, reply, seen, history>>

\* Nothing more comes from client c.
Gone(c) == cst[c] \in {"fin", "rst", "pipe"}

\* Would recv or accept on fd return at once?
Ready(fd) ==
  \/ owner[fd] = Listener /\ acceptq # <<>>
  \/ owner[fd] \in Conns /\ (inp[owner[fd]] # <<>> \/ Gone(owner[fd]))

\* Slip: select is told fdmax_ where it wants the number of descriptors.
Watched_OffByOne == {fd \in master : fd < fdmax}

\* What select(fdmax_+1,...) looks at.
Watched == {fd \in master : fd <= fdmax}

\* select over a copy of master_, which reports also the descriptors in others.
\* With nothing ready it times out after a second and the loop goes round.
SelectAlso(others) ==
  /\ pc = "loop" /\ ~stop
  /\ \A fd \in Watched : owner[fd] # Free
  /\ readfds' = {fd \in Watched : Ready(fd)} \cup others
  /\ readfds' # {}
  /\ seen' = [fd \in Fds |-> IF fd \in readfds' THEN owner[fd] ELSE Free]
  /\ pc' = "scan"
  /\ UNCHANGED <<sockets, config, fdset, maps, cur, rbuf, reply, history>>

Select == SelectAlso({})

Queued == {acceptq[i] : i \in DOMAIN acceptq}

\* close(lfd_) and return.  The kernel resets what was never accepted; the
\* accepted connections stay open.
Leave ==
  /\ pc = "loop"
  /\ pc' = "stopped"
  /\ owner' = [owner EXCEPT ![lfd] = Free]
  /\ acceptq' = <<>>
  /\ cst' = [c \in Conns |-> IF c \in Queued THEN "closed" ELSE cst[c]]
  /\ inp' = [c \in Conns |-> IF c \in Queued THEN <<>> ELSE inp[c]]
  /\ todo' = [c \in Conns |-> IF c \in Queued THEN <<>> ELSE todo[c]]
  /\ UNCHANGED <<unread, sent, config, fdset, maps,
                 readfds, cur, rbuf, reply, seen, history>>

Stop == stop /\ Leave

\* select returns -1: a signal handler ran, or master_ holds a closed fd.
SelectFails == ~stop /\ Leave

\* Slip: the pass stays with a client until there is nothing more to read.
Visit_Again(fd) ==
  /\ pc = "scan"
  /\ Lowest(fd, readfds)
  /\ IF owner[fd] = Listener
     THEN readfds' = readfds \ {fd} /\ seen' = [seen EXCEPT ![fd] = Free]
     ELSE UNCHANGED <<readfds, seen>>

\* The pass visits the descriptors select reported in ascending order.
Visit(fd) ==
  /\ pc = "scan"
  /\ Lowest(fd, readfds)
  /\ readfds' = readfds \ {fd}
  /\ seen' = [seen EXCEPT ![fd] = Free]

Resume(rs) == IF rs = {} THEN "loop" ELSE "scan"

\* Slip: fdmax_ keeps the value run() gave it.
Higher_Stuck(fd, g) == g

\* if(fd>g) g=fd;
Higher(fd, g) == IF fd > g THEN fd ELSE g

\* accept at the listening descriptor; it fails when no descriptor is free,
\* and the connection stays in the queue.
Accept ==
  /\ Visit(lfd)
  /\ pc' = Resume(readfds')
  /\ acceptq # <<>>
  /\ \/ FreeFds = {} /\ UNCHANGED <<owner, acceptq, master, fdmax, handshaken>>
     \/ \E cfd \in NextFds :
          /\ owner' = [owner EXCEPT ![cfd] = Head(acceptq)]
          /\ acceptq' = Tail(acceptq)
          /\ master' = master \cup {cfd}
          /\ fdmax' = Higher(cfd, fdmax)
          /\ handshaken' = [handshaken EXCEPT ![cfd] = FALSE]
  /\ UNCHANGED <<cst, todo, inp, unread, sent, config, lfd,
                 frag_buffer, frag_opcode, cur, rbuf, reply, history>>

-----------------------------------------------------------------------------
(* cleanup_client, the end of every connection the server closes.          *)

\* Slip: the opcode of the first fragment is not remembered.
Store_BufferOnly(fd, op, data) ==
  /\ UNCHANGED frag_opcode
  /\ frag_buffer' = [frag_buffer EXCEPT ![fd] = data]

\* What frag_buffer_ and frag_opcode_ hold for fd from now on.
Store(fd, op, data) ==
  /\ frag_opcode' = [frag_opcode EXCEPT ![fd] = op]
  /\ frag_buffer' = [frag_buffer EXCEPT ![fd] = data]

\* Slip: the fragments stay for whoever gets the descriptor next.
EraseMaps_FragmentsStay(fd) ==
  /\ handshaken' = [handshaken EXCEPT ![fd] = FALSE]
  /\ UNCHANGED <<frag_buffer, frag_opcode>>

\* The three erases.
EraseMaps(fd) ==
  /\ handshaken' = [handshaken EXCEPT ![fd] = FALSE]
  /\ Store(fd, "cont", <<>>)

\* Slip: the descriptor is not closed.
CloseFd_Leaks(fd) == UNCHANGED owner

CloseFd(fd) == owner' = [owner EXCEPT ![fd] = Free]

\* Slip: FD_CLR is forgotten.
ClearFd_Kept(fd) == UNCHANGED master

ClearFd(fd) == master' = master \ {fd}

\* shutdown, close, FD_CLR, the erases and on_close; evs is what the caller has
\* observed just before.
CleanupClient(fd, evs) ==
  LET c == owner[fd]
  IN  /\ cst' = [cst EXCEPT ![c] = "closed"]
      /\ inp' = [inp EXCEPT ![c] = <<>>]
      /\ todo' = [todo EXCEPT ![c] = <<>>]
      /\ CloseFd(fd) /\ ClearFd(fd) /\ EraseMaps(fd)
      /\ said' = [said EXCEPT ![c] = @ \o Append(evs, Mark("close"))]
      /\ UNCHANGED <<acceptq, sent, config, lfd, fdmax, heard>>

\* Slip: recv's result is tested with <0, and 0 is tried again for ever.
PeerGone_TryAgain(fd) == inp[owner[fd]] = <<>> /\ cst[owner[fd]] \in {"rst", "pipe"}

\* recv on fd returns 0 or -1.
PeerGone(fd) == inp[owner[fd]] = <<>> /\ Gone(owner[fd])

\* Slip: handle_frame calls recv with MSG_PEEK.
Consume_Peek(c, n) ==
  IF n = RecvMax THEN UNCHANGED inp ELSE inp' = [inp EXCEPT ![c] = Drop(@, n)]

\* recv takes what there is, up to n bytes.
Consume(c, n) == inp' = [inp EXCEPT ![c] = Drop(@, n)]

\* The thread enters send() with r.
Call(fd, r) == pc' = "send" /\ cur' = fd /\ reply' = r

-----------------------------------------------------------------------------
(* perform_handshake.  The first recv is the one select promised; the      *)
(* thread blocks in the others until the request is whole.                 *)

InHandshake(fd) ==
  \/ Visit(fd) /\ fd # lfd /\ ~handshaken[fd] /\ owner[fd] \in Conns
  \/ pc = "hs" /\ fd = cur /\ UNCHANGED <<readfds, seen>>

\* Is the blank line that ends the request in buf?
HasRequest(buf) ==
  \E i \in 1 .. Len(buf) : buf[i].pos = HeaderLen + buf[i].kind.len

HandshakeFails(fd) ==
  /\ CleanupClient(fd, <<>>)
  /\ pc' = Resume(readfds') /\ cur' = -1 /\ rbuf' = <<>>
  /\ UNCHANGED <<reply, unread>>

HandshakeEof(fd) == InHandshake(fd) /\ PeerGone(fd) /\ HandshakeFails(fd)

HandshakeRecv(fd) ==
  /\ InHandshake(fd)
  /\ inp[owner[fd]] # <<>>
  /\ LET c   == owner[fd]
         buf == rbuf \o Take(inp[c], HsChunk)
     IN  \/ /\ \/ Len(buf) > HsLimit
               \/ HasRequest(buf) /\ buf[1].kind.op = "rejected"
            /\ HandshakeFails(fd)
         \/ /\ Len(buf) <= HsLimit
            /\ Consume(c, HsChunk)
            /\ \/ /\ HasRequest(buf) /\ buf[1].kind.op = "accepted"
                  /\ Call(fd, Switching) /\ rbuf' = <<>>
               \/ /\ ~HasRequest(buf)
                  /\ pc' = "hs" /\ cur' = fd /\ rbuf' = buf
                  /\ UNCHANGED reply
            /\ UNCHANGED <<owner, acceptq, cst, todo, unread, sent,
                           config, fdset, maps, history>>

-----------------------------------------------------------------------------
(* handle_frame: one recv, one parse_frame, one dispatch on the opcode.    *)
(* What the buffer holds after the first frame (used) is not looked at.    *)

FrameEof(fd) ==
  /\ Visit(fd) /\ fd # lfd /\ handshaken[fd]
  /\ PeerGone(fd)
  /\ CleanupClient(fd, <<>>)
  /\ pc' = Resume(readfds')
  /\ UNCHANGED <<unread, cur, rbuf, reply>>

\* recv returns buf, whose front parse_frame reads as header h.
RecvFrame(fd, h) ==
  LET c   == owner[fd]
      buf == Take(inp[c], RecvMax)
  IN  /\ Visit(fd) /\ fd # lfd /\ handshaken[fd]
      /\ inp[c] # <<>> /\ h \in HeadersAt(buf)
      /\ Consume(c, RecvMax)
      /\ UNCHANGED <<owner, acceptq, cst, todo, unread, sent,
                     config, fdset, handshaken, rbuf>>

FrameBuffer(fd) == Take(inp[owner[fd]], RecvMax)
Hears(fd, f)     == heard' = [heard EXCEPT ![owner[fd]] = Append(@, f)]
Observe(fd, evs) == said' = [said EXCEPT ![owner[fd]] = @ \o evs]

\* parse_frame returns false.
ProtocolError(fd, h) ==
  /\ RecvFrame(fd, h)
  /\ ~Complete(FrameBuffer(fd), h)
  /\ Call(fd, CloseWith(1002))
  /\ UNCHANGED <<frag_buffer, frag_opcode, history>>

\* Slip: a payload of exactly the maximum is refused.
TooBig_OffByOne(h) == max_payload >= 0 /\ h.len >= max_payload

\* size_t(max_payload_) of a negative maximum is above every length.
TooBig(h) == max_payload >= 0 /\ h.len > max_payload

\* parse_frame returns true with the frame Parsed(buf,h), still within limits.
FrameRead(fd, h) ==
  /\ RecvFrame(fd, h)
  /\ Complete(FrameBuffer(fd), h)
  /\ ~TooBig(h)
  /\ Hears(fd, Parsed(FrameBuffer(fd), h))

PayloadTooBig(fd, h) ==
  /\ RecvFrame(fd, h)
  /\ Complete(FrameBuffer(fd), h)
  /\ TooBig(h)
  /\ Hears(fd, Parsed(FrameBuffer(fd), h))
  /\ Call(fd, CloseWith(1009))
  /\ UNCHANGED <<frag_buffer, frag_opcode, said>>

\* OP_TEXT or OP_BINARY with fin: on_message, then the echo.
WholeMessage(fd, h) ==
  /\ FrameRead(fd, h)
  /\ h.op \in {"text", "binary"} /\ h.fin
  /\ LET f == Parsed(FrameBuffer(fd), h)
     IN  /\ Observe(fd, <<OnMessage(f.op, f.data)>>)
         /\ Call(fd, Echo(f.op, f.data))
  /\ UNCHANGED <<frag_buffer, frag_opcode>>

\* OP_TEXT or OP_BINARY without fin: whatever was being assembled is replaced.
FirstFragment(fd, h) ==
  /\ FrameRead(fd, h)
  /\ h.op \in {"text", "binary"} /\ ~h.fin
  /\ LET f == Parsed(FrameBuffer(fd), h)
     IN  Store(fd, f.op, f.data)
  /\ pc' = Resume(readfds')
  /\ UNCHANGED <<cur, reply, said>>

\* After the last fragment bufv.clear() and frag_opcode_.erase(fd).
Assembled(fd, fin, base, bufv) ==
  IF fin THEN Store(fd, "cont", <<>>) ELSE Store(fd, base, bufv)

\* OP_CONT: append; on fin deliver under the opcode of the first fragment, if
\* there was one, and empty the buffer.
Continuation(fd, h) ==
  /\ FrameRead(fd, h)
  /\ h.op = "cont"
  /\ LET f    == Parsed(FrameBuffer(fd), h)
         bufv == frag_buffer[fd] \o f.data
         base == frag_opcode[fd]
         msg  == IF h.fin /\ base # "cont" THEN <<OnMessage(base, bufv)>> ELSE <<>>
     IN  /\ Observe(fd, msg)
         /\ Assembled(fd, h.fin, base, bufv)
         /\ IF msg # <<>>
            THEN Call(fd, Echo(base, bufv))
            ELSE pc' = Resume(readfds') /\ UNCHANGED <<cur, reply>>

Ping(fd, h) ==
  /\ FrameRead(fd, h)
  /\ h.op = "ping"
  /\ Call(fd, Pong(Payload(FrameBuffer(fd), h)))
  /\ UNCHANGED <<frag_buffer, frag_opcode, said>>

\* OP_CLOSE is answered with 1000, and any opcode without a branch with 1002.
CloseOrUnknown(fd, h) ==
  /\ FrameRead(fd, h)
  /\ h.op \notin {"text", "binary", "cont", "ping"}
  /\ Call(fd, CloseWith(IF h.op = "close" THEN 1000 ELSE 1002))
  /\ UNCHANGED <<frag_buffer, frag_opcode, said>>

HandleFrame(fd) ==
  \/ FrameEof(fd)
  \/ \E h \in Kinds :
       \/ ProtocolError(fd, h) \/ PayloadTooBig(fd, h)
       \/ WholeMessage(fd, h) \/ FirstFragment(fd, h) \/ Continuation(fd, h)
       \/ Ping(fd, h) \/ CloseOrUnknown(fd, h)

-----------------------------------------------------------------------------
(* send() and what follows it: on_open after the 101, cleanup_client after *)
(* a close frame, nothing after an echo or a pong.                         *)

\* send() returns, having written the reply ("send") or with -1 ("lost").  It
\* blocks while the peer leaves too much unread.
SendReturns(e) ==
  /\ pc = "send"
  /\ \/ /\ e = "send" /\ cst[owner[cur]] \in {"up", "fin"}
        /\ unread[owner[cur]] < SendCap
        /\ unread' = [unread EXCEPT ![owner[cur]] = @ + 1]
     \/ e = "lost" /\ cst[owner[cur]] = "rst" /\ UNCHANGED unread
  /\ pc' = Resume(readfds)
  /\ cur' = -1 /\ reply' = NoReply
  /\ UNCHANGED <<readfds, seen, rbuf>>

\* The 101 went out: handshaken_[fd]=true and on_open.
Opened ==
  /\ SendReturns("send") /\ reply.next = "opened"
  /\ handshaken' = [handshaken EXCEPT ![cur] = TRUE]
  /\ Observe(cur, <<Written("send", reply), Mark("open")>>)
  /\ UNCHANGED <<owner, acceptq, cst, todo, inp, sent, config, fdset,
                 frag_buffer, frag_opcode, heard>>

NotOpened ==
  /\ SendReturns("lost") /\ reply.next = "opened"
  /\ CleanupClient(cur, <<Written("lost", reply)>>)

\* handle_frame ignores the result of send() and goes on.
Replied(e) ==
  /\ SendReturns(e) /\ reply.next = "keep"
  /\ cst' = [cst EXCEPT ![owner[cur]] = IF e = "lost" THEN "pipe" ELSE @]
  /\ Observe(cur, <<Written(e, reply)>>)
  /\ UNCHANGED <<owner, acceptq, todo, inp, sent, config, fdset, maps, heard>>

Closed(e) ==
  /\ SendReturns(e) /\ reply.next = "close"
  /\ CleanupClient(cur, <<Written(e, reply)>>)

\* Nobody handles SIGPIPE: the process ends.
SigPipe ==
  /\ pc = "send" /\ cst[owner[cur]] = "pipe"
  /\ pc' = "dead"
  /\ UNCHANGED <<sockets, config, fdset, maps, readfds, cur, rbuf, reply, seen, history>>

Send == Opened \/ NotOpened \/ SigPipe \/ \E e \in {"send", "lost"} : Replied(e) \/ Closed(e)

-----------------------------------------------------------------------------
ServerStep ==
  \/ Select \/ Stop \/ Accept \/ Send
  \/ \E fd \in Fds : HandshakeEof(fd) \/ HandshakeRecv(fd) \/ HandleFrame(fd)

Next ==
  \/ Run \/ ServerStep \/ SelectFails
  \/ Application
  \/ \E c \in Conns : Client(c)

Spec == Init /\ [][Next]_vars

=============================================================================
