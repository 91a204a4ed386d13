------------------------- MODULE EchoSessionProofs --------------------------
(***************************************************************************)
(* Proofs about the demo.  First, that it is a run of Server with a client *)
(* of the kind Server allows, so that what is proved of Server is true of  *)
(* it.  Then what the client prints and where it can wait for ever, from   *)
(* an invariant that goes through the script in step with the server.      *)
(***************************************************************************)
EXTENDS EchoSession, ServerDelivery

\* For each place in Script: what the client has sent, and the replies it has
\* read when TCP cuts none, on getting there.
SentBefore == <<0, 1, 1, 2, 2, 3, 3, 4, 5, 5, 6, 6, 7>>
ReadBefore == <<0, 0, 1, 1, 2, 2, 3, 3, 3, 4, 4, 5, 5>>

\* What the client sends, in order; the n-th item on the wire, from 0.
Items == <<request, hello, bdata, frag1, frag2, ping, goodbye>>
Kind(n) == Items[n + 1]
Item(n) == Wire(client, n, Kind(n))

Sends    == {1, 3, 5, 7, 8, 10, 12}
Receives == {2, 4, 6, 9, 11}

\* What main() sends is the next of Items.
LEMMA ScriptSends ==
  ASSUME Calls("send")
  PROVE  /\ step \in Sends /\ exit = "no"
         /\ Script[step].kind = Kind(SentBefore[step])
<1>1. step \in 1 .. 12 /\ Script[step].call = "send" /\ exit = "no"
  BY DEF Calls, Script
<1>2. step \in Sends
  BY <1>1 DEF Script, Sends, Send_, Recv
<1>3. Script[step].kind = Kind(SentBefore[step])
  BY <1>2 DEF Script, Sends, Send_, SentBefore, Items, Kind
<1> QED
  BY <1>1, <1>2, <1>3

\* The recvs of the script.
LEMMA ScriptReceives ==
  ASSUME Calls("recv")
  PROVE  step \in Receives /\ exit = "no"
<1>1. step \in 1 .. 12 /\ Script[step].call = "recv" /\ exit = "no"
  BY DEF Calls, Script
<1> QED
  BY <1>1 DEF Script, Receives, Send_, Recv

\* The tables follow the script: a send sends one item and reads nothing, a recv
\* the other way round.
LEMMA ScriptTables ==
  /\ Len(Script) = 12
  /\ \A k \in 1 .. 13 : SentBefore[k] \in 0 .. 7 /\ ReadBefore[k] \in 0 .. 5
  /\ \A k \in Sends : SentBefore[k + 1] = SentBefore[k] + 1 /\ ReadBefore[k + 1] = ReadBefore[k]
  /\ \A k \in Receives : SentBefore[k + 1] = SentBefore[k] /\ ReadBefore[k + 1] = ReadBefore[k] + 1
  BY DEF Script, SentBefore, ReadBefore, Sends, Receives

\* The request is one, and the other items are frames.
LEMMA ItemKinds ==
  /\ request \in Requests
  /\ \A n \in 0 .. 6 : Kind(n) \in Kinds \cup Requests /\ (n > 0 => Kind(n) \in Kinds)
  BY SessionAssumption DEF Items, Kind

-----------------------------------------------------------------------------
(* The demo is a run of Server.                                            *)

\* What the server writes, as the client can tell it apart.
Written_ == [op : Opcodes \cup {"http"}, data : Seq(Byte)]

SessionType ==
  /\ step \in 0 .. 13 /\ exit \in {"no", "error", "sigpipe", "done"}
  /\ replies \in Seq(Written_)
  /\ reset \in {"no", "due", "come"}
  /\ taken \in Nat /\ stock \in Nat /\ cuts \in Nat /\ merged \in BOOLEAN

\* How far the client is, against the connection and what it has been sent.
Demo ==
  /\ SessionType
  /\ ~stop /\ max_payload = ParseLimit
  /\ pc \in {"idle", "stopped"} => step = 0
  /\ cst[client] = "new" <=> step = 0
  /\ step = 0 => sent[client] = 0
  /\ cst[client] = "up" => sent[client] = SentBefore[step]
  /\ step >= 3 => replies # <<>>
  /\ replies # <<>> => Phase(client) # "none"
  /\ Phase(client) = "open" => replies # <<>>
  /\ taken <= Stock /\ Stock <= 2 * Len(replies)
  /\ reset # "no" => cst[client] = "closed"

\* The client sends frames once it has read the response, and the response is
\* written only to a connection that is upgraded.
LEMMA SendsAsServerAllows ==
  ASSUME Sound, Demo, SSend
  PROVE  Client(client) \/ UNCHANGED vars
<1> SUFFICES ASSUME SendItem(client, Script[step].kind) PROVE Client(client)
  BY DEF SSend
<1>1. /\ step \in Sends /\ Script[step].kind = Kind(SentBefore[step])
      /\ cst[client] = "up"
  BY ScriptSends DEF SSend, SendItem
<1>2. sent[client] = SentBefore[step]
  BY <1>1 DEF Demo
<1>3. CASE step = 1
  <2>1. sent[client] = 0 /\ SendItem(client, request)
    BY <1>1, <1>2, <1>3 DEF SentBefore, Items, Kind
  <2> QED
    BY <2>1, ItemKinds DEF SendRequest, Client
<1>4. CASE step # 1
  <2>1. sent[client] \in 1 .. 6 /\ Kind(sent[client]) \in Kinds
    <3>1. sent[client] \in 1 .. 6
      BY <1>1, <1>2, <1>4 DEF Sends, SentBefore
    <3> QED
      BY <3>1, ItemKinds
  <2>2. SendItem(client, Kind(sent[client]))
    BY <1>1, <1>2
  <2>3. Phase(client) = "open"
    BY <1>1, <1>4 DEF Demo, Sends, Phase
  <2>4. \E fd \in Fds : owner[fd] = client /\ handshaken[fd]
    BY <2>3 DEF Phase, FdsOf
  <2>5. sent[client] \in 1 .. MaxFrames
    BY <2>1, SessionAssumption, ServerAssumption
  <2>6. SendFrame(client)
    BY <2>1, <2>2, <2>4, <2>5 DEF SendFrame
  <2> QED
    BY <2>6 DEF Client
<1> QED
  BY <1>3, <1>4

\* Every step of the demo is one of the server's, of its client's, or none.
LEMMA DemoStep ==
  ASSUME Sound, Demo, [SNext]_svars
  PROVE  [Next]_vars
<1>0. client \in Conns
  BY SessionAssumption
<1>1. CASE UNCHANGED svars
  BY <1>1 DEF svars
<1>2. CASE ServerProgram
  BY <1>2 DEF ServerProgram, Next
<1>3. CASE Network
  BY <1>0, <1>3 DEF Network, ResetArrives, Next, Client
<1>4. CASE SSend
  BY <1>0, <1>4, SendsAsServerAllows DEF Next
<1>5. CASE SConnect \/ SRecv \/ SRecvFails \/ SClose \/ SRejects
  BY <1>0, <1>5 DEF SConnect, SRecv, SRecvFails, SClose, SRejects, Next, Client
<1> QED
  BY <1>1, <1>2, <1>3, <1>4, <1>5 DEF SNext, ClientProgram

\* What a step of the server makes of the connection: it never gets younger, and
\* the server writes to it from send() only, never before it is upgraded.
Advances ==
  /\ UNCHANGED <<sent, max_payload, stop>>
  /\ pc' # "idle" /\ (pc' = "stopped" => pc = "idle")
  /\ cst'[client] = "up" => cst[client] = "up"
  /\ cst'[client] = "new" <=> cst[client] = "new"
  /\ cst[client] = "closed" => cst'[client] = "closed"
  /\ Phase(client) # "none" => Phase(client)' # "none"
  /\ IF unread' = unread THEN Phase(client)' = "open" => Phase(client) = "open"
     ELSE pc = "send" /\ Phase(client)' # "none"

\* The thread before and between connections.
LEMMA QuietStep ==
  ASSUME Sound, Run \/ Select \/ Accept
  PROVE  /\ Phase(client)' = Phase(client) /\ Part(client)' = Part(client)
         /\ UNCHANGED <<cst, inp, todo, unread, sent, max_payload, stop, rbuf, reply>>
         /\ pc \in {"idle", "loop", "scan"}
         /\ pc' \in {"loop", "scan"} \/ (pc = "idle" /\ pc' = "stopped")
<1>0. client \in Conns
  BY SessionAssumption
<1>1. CASE Run
  <2>1. UNCHANGED <<cst, maps>> /\ \A c \in Conns : FdsOf(c)' = FdsOf(c)
    BY <1>1, RunFds DEF Sound, Run
  <2> QED
    BY <1>0, <1>1, <2>1, ViewKept DEF Run, config, maps
<1>2. CASE Select
  <2>1. UNCHANGED <<owner, cst, maps>>
    BY <1>2 DEF Select, SelectAlso, sockets
  <2> QED
    BY <1>0, <1>2, <2>1, ViewKept DEF Select, SelectAlso, sockets, config, maps, FdsOf
<1>3. CASE Accept
  BY <1>0, <1>3, AcceptViews DEF Accept, Visit, Resume, config
<1> QED
  BY <1>1, <1>2, <1>3

\* cleanup_client leaves the connection closed.
LEMMA ClosingStep ==
  ASSUME Sound, NEW fd \in Fds, owner[fd] \in Conns, NEW evs, CleanupClient(fd, evs)
  PROVE  /\ owner[fd] = client
         /\ cst'[client] = "closed" /\ cst[client] \notin {"new", "closed"}
         /\ Phase(client)' = "closed"
         /\ UNCHANGED <<sent, max_payload, stop>>
<1>1. owner[fd] = client
  BY SessionAssumption
<1>2. cst[client] \notin {"new", "closed"} /\ Phase(client)' = "closed"
  BY <1>1, Behind, CleanupViews DEF Sound
<1>3. cst'[client] = "closed"
  BY <1>1 DEF CleanupClient, Sound, Attended, TypeOK, SocketTypes
<1> QED
  BY <1>1, <1>2, <1>3 DEF CleanupClient, config

\* A recv of the handshake gives the connection up, or changes nothing of it that
\* its client can see.
LEMMA HandshakeStep ==
  ASSUME Sound, NEW fd \in Fds, HandshakeEof(fd) \/ HandshakeRecv(fd)
  PROVE  /\ owner[fd] = client
         /\ \/ /\ HandshakeFails(fd) /\ CleanupClient(fd, <<>>)
               /\ pc' \in {"loop", "scan"} /\ UNCHANGED unread
            \/ /\ UNCHANGED <<cst, todo, unread, sent, max_payload, stop>>
               /\ Phase(client)' = Phase(client) /\ Part(client)' = Part(client)
               /\ pc' \in {"hs", "send"} /\ ~HandshakeFails(fd)
<1>1. owner[fd] \in Conns /\ owner[fd] = client
  BY SessionAssumption DEF Sound, Attended, HandshakeEof, HandshakeRecv, InHandshake
<1>2. CASE HandshakeFails(fd)
  BY <1>1, <1>2 DEF HandshakeFails, Resume
<1>3. CASE ~HandshakeFails(fd)
  <2>1. /\ UNCHANGED <<owner, cst, todo, unread, sent, config, maps>>
        /\ pc' \in {"hs", "send"}
    BY <1>3 DEF HandshakeEof, HandshakeRecv, Call
  <2> QED
    BY <1>1, <1>3, <2>1, ViewKept DEF FdsOf, config, maps
<1> QED
  BY <1>2, <1>3

\* A frame is read from an upgraded connection, which stays so.
LEMMA FrameStep ==
  ASSUME Sound, NEW fd \in Fds, NEW h, RecvFrame(fd, h)
  PROVE  /\ owner[fd] = client /\ pc = "scan"
         /\ Phase(client) = "open" /\ Phase(client)' = "open"
         /\ UNCHANGED <<cst, todo, unread, sent, max_payload, stop, rbuf>>
<1>1. owner[fd] \in Conns /\ owner[fd] = client /\ client \in Conns
  BY RecvFrameFd, SessionAssumption
<1>2. /\ UNCHANGED <<owner, cst, todo, unread, sent, config, handshaken, rbuf>>
      /\ handshaken[fd] /\ pc = "scan"
  BY DEF RecvFrame, Visit
<1>3. FdsOf(client) = {fd} /\ FdsOf(client)' = {fd} /\ cst[client] # "closed"
  BY <1>1, <1>2, Behind DEF Sound, FdsOf
<1> QED
  BY <1>1, <1>2, <1>3, ViewAt, ViewAtNext DEF config

\* handle_frame reads a frame, or finds none.
LEMMA ReadOrEnd ==
  ASSUME NEW fd, HandleFrame(fd)
  PROVE  \/ FrameEof(fd)
         \/ \E h \in Kinds : RecvFrame(fd, h) /\ pc' \in {"loop", "scan", "send"}
<1> SUFFICES ASSUME NEW h \in Kinds,
                    \/ ProtocolError(fd, h) \/ PayloadTooBig(fd, h)
                    \/ WholeMessage(fd, h) \/ FirstFragment(fd, h) \/ Continuation(fd, h)
                    \/ Ping(fd, h) \/ CloseOrUnknown(fd, h)
             PROVE  RecvFrame(fd, h) /\ pc' \in {"loop", "scan", "send"}
  BY Zenon DEF HandleFrame
<1>1. FrameRead(fd, h) => RecvFrame(fd, h)
  BY DEF FrameRead
<1>2. \A rs : Resume(rs) \in {"loop", "scan"}
  BY DEF Resume
<1>3. CASE ProtocolError(fd, h) \/ PayloadTooBig(fd, h)
  BY <1>3 DEF ProtocolError, PayloadTooBig, Call
<1>4. CASE WholeMessage(fd, h) \/ Ping(fd, h) \/ CloseOrUnknown(fd, h)
  BY <1>1, <1>4 DEF WholeMessage, Ping, CloseOrUnknown, Call
<1>5. CASE FirstFragment(fd, h)
  BY <1>1, <1>2, <1>5 DEF FirstFragment
<1>6. CASE Continuation(fd, h)
  <2>1. FrameRead(fd, h) /\ (pc' = "send" \/ pc' = Resume(readfds'))
    BY <1>6 DEF Continuation, Call
  <2> QED
    BY <1>1, <1>2, <2>1
<1> QED
  BY <1>3, <1>4, <1>5, <1>6

\* send() to the client returns, or kills the process.
LEMMA SendStep ==
  ASSUME Sound, Send
  PROVE  /\ pc = "send" /\ cur \in Fds /\ owner[cur] = client
         /\ SigPipe => UNCHANGED <<sockets, config>> /\ Phase(client)' = Phase(client)
         /\ Opened =>
              /\ UNCHANGED <<cst, inp, todo, sent, config>> /\ pc' \in {"loop", "scan"}
              /\ cst[client] \notin {"new", "closed"}
              /\ Phase(client) = "none" /\ Phase(client)' = "open"
              /\ Part(client)' = Part(client)
         /\ \A e \in {"send", "lost"} : Replied(e) =>
              /\ UNCHANGED <<inp, todo, sent, config>> /\ pc' \in {"loop", "scan"}
              /\ cst[client] \notin {"new", "closed"}
              /\ IF e = "send" THEN cst' = cst ELSE cst[client] = "rst" /\ cst'[client] = "pipe"
              /\ Phase(client) = "open" /\ Phase(client)' = "open"
              /\ Part(client)' = Part(client)
         /\ NotOpened \/ (\E e \in {"send", "lost"} : Closed(e)) =>
              /\ \E evs : CleanupClient(cur, evs)
              /\ pc' \in {"loop", "scan"} /\ (NotOpened \/ reply.op = "close")
<1>1. pc = "send" /\ cur \in Fds /\ owner[cur] = client /\ owner[cur] \in Conns
  BY SessionAssumption
  DEF Sound, Attended, Send, Opened, NotOpened, SigPipe, Replied, Closed, SendReturns
<1>2. FdsOf(client) = {cur} /\ cst[client] \notin {"new", "closed"}
  BY <1>1, Behind DEF Sound
<1>3. /\ handshaken[cur] <=> reply.next # "opened"
      /\ reply.next = "close" <=> reply.op = "close"
  BY <1>1 DEF Sound, Talk
<1>4. ASSUME SigPipe
      PROVE  UNCHANGED <<sockets, config>> /\ Phase(client)' = Phase(client)
  <2>1. UNCHANGED <<sockets, config, maps>>
    BY <1>4 DEF SigPipe
  <2> QED
    BY <1>1, <1>4, <2>1, ViewKept DEF sockets, maps, FdsOf
<1>5. ASSUME Opened
      PROVE  /\ UNCHANGED <<cst, inp, todo, sent, config>> /\ pc' \in {"loop", "scan"}
             /\ Phase(client) = "none" /\ Phase(client)' = "open"
             /\ Part(client)' = Part(client)
  <2>1. /\ UNCHANGED <<owner, cst, inp, todo, sent, config, frag_buffer, frag_opcode>>
        /\ handshaken' = [handshaken EXCEPT ![cur] = TRUE]
        /\ reply.next = "opened" /\ pc' \in {"loop", "scan"}
    BY <1>5 DEF Opened, SendReturns, Resume
  <2>2. handshaken'[cur] /\ FdsOf(client)' = {cur}
    BY <1>1, <1>2, <2>1 DEF FdsOf, Sound, Attended, TypeOK, MemberTypes
  <2> QED
    BY <1>1, <1>2, <1>3, <1>5, <2>1, <2>2, ViewAt, ViewAtNext
<1>6. ASSUME NEW e \in {"send", "lost"}, Replied(e)
      PROVE  /\ UNCHANGED <<inp, todo, sent, config>> /\ pc' \in {"loop", "scan"}
             /\ IF e = "send" THEN cst' = cst ELSE cst[client] = "rst" /\ cst'[client] = "pipe"
             /\ Phase(client) = "open" /\ Phase(client)' = "open"
             /\ Part(client)' = Part(client)
  <2>1. /\ UNCHANGED <<owner, inp, todo, sent, config, maps>>
        /\ cst' = [cst EXCEPT ![client] = IF e = "lost" THEN "pipe" ELSE @]
        /\ reply.next = "keep" /\ pc' \in {"loop", "scan"}
        /\ e = "lost" => cst[client] = "rst"
    BY <1>1, <1>6 DEF Replied, SendReturns, Resume
  <2>2. cst \in [Conns -> {"new", "up", "fin", "rst", "pipe", "closed"}]
    BY DEF Sound, Attended, TypeOK, SocketTypes
  <2>3. IF e = "send" THEN cst' = cst ELSE cst[client] = "rst" /\ cst'[client] = "pipe"
    BY <1>1, <2>1, <2>2
  <2>4. FdsOf(client)' = {cur} /\ cst'[client] # "closed" /\ UNCHANGED maps
    BY <1>2, <2>1, <2>3 DEF FdsOf
  <2>5. Phase(client)' = Phase(client) /\ Part(client)' = Part(client)
    BY <1>1, <1>2, <2>4, ViewKept DEF maps
  <2>6. Phase(client) = "open"
    BY <1>1, <1>2, <1>3, <2>1, ViewAt
  <2> QED
    BY <2>1, <2>3, <2>5, <2>6
<1>7. ASSUME NotOpened \/ \E e \in {"send", "lost"} : Closed(e)
      PROVE  /\ \E evs : CleanupClient(cur, evs)
             /\ pc' \in {"loop", "scan"} /\ (NotOpened \/ reply.op = "close")
  BY <1>1, <1>3, <1>7 DEF NotOpened, Closed, SendReturns, Resume
<1> QED
  BY <1>1, <1>2, <1>4, <1>5, <1>6, <1>7

\* All steps of the server advance the connection.
LEMMA ServerAdvances ==
  ASSUME Sound, ~stop, Run \/ ServerStep
  PROVE  Advances
<1>0. client \in Conns
  BY SessionAssumption
<1>1. CASE Run \/ Select \/ Accept
  BY <1>1, QuietStep DEF Advances
<1>2. CASE Stop
  BY <1>2 DEF Stop
<1>3. CASE Send
  <2>1. CASE SigPipe
    BY <1>3, <2>1, SendStep DEF SigPipe, sockets, config, Advances
  <2>2. CASE NotOpened \/ \E e \in {"send", "lost"} : Closed(e)
    BY <1>0, <1>3, <2>2, SendStep, ClosingStep DEF Advances
  <2>3. ASSUME NEW e \in {"send", "lost"}, Replied(e)
        PROVE  Advances
    BY <1>3, <2>3, SendStep DEF Advances, config
  <2>4. CASE Opened
    <3>1. unread' # unread
      <4>1. unread'[client] = unread[client] + 1 /\ unread[client] \in Nat
        BY <1>0, <1>3, <2>4, SendStep, ServerAssumption
        DEF Opened, SendReturns, Sound, Attended, TypeOK, SocketTypes
      <4> QED
        BY <4>1
    <3> QED
      BY <1>3, <2>4, <3>1, SendStep DEF Advances, config
  <2> QED
    BY <1>3, <2>1, <2>2, <2>3, <2>4 DEF Send
<1>4. ASSUME NEW fd \in Fds, HandshakeEof(fd) \/ HandshakeRecv(fd)
      PROVE  Advances
  <2>1. CASE CleanupClient(fd, <<>>) /\ pc' \in {"loop", "scan"} /\ UNCHANGED unread
    BY <1>0, <1>4, <2>1, HandshakeStep, ClosingStep DEF Advances
  <2> QED
    BY <1>4, <2>1, HandshakeStep DEF Advances
<1>5. ASSUME NEW fd \in Fds, HandleFrame(fd)
      PROVE  Advances
  <2>1. CASE FrameEof(fd)
    <3>1. /\ owner[fd] \in Conns /\ CleanupClient(fd, <<>>)
          /\ pc' \in {"loop", "scan"} /\ UNCHANGED unread
      BY <2>1 DEF FrameEof, Resume, Sound, Attended
    <3> QED
      BY <3>1, ClosingStep DEF Advances
  <2>2. ASSUME NEW h \in Kinds, RecvFrame(fd, h), pc' \in {"loop", "scan", "send"}
        PROVE  Advances
    BY <2>2, FrameStep DEF Advances
  <2> QED
    BY <1>5, <2>1, <2>2, ReadOrEnd
<1> QED
  BY <1>1, <1>2, <1>3, <1>4, <1>5 DEF ServerStep

\* Only the client's own steps can make its connection younger or send.
LEMMA ClientConnection ==
  ASSUME Sound, Connect(client) \/ Finish(client) \/ Reset(client) \/ Deliver(client)
                \/ \E kind : SendItem(client, kind)
  PROVE  /\ Phase(client)' = Phase(client) /\ Part(client)' = Part(client)
         /\ UNCHANGED <<unread, max_payload, stop, pc, cur, reply, owner, rbuf>>
         /\ Connect(client) => cst[client] = "new" /\ cst'[client] = "up" /\ sent' = sent
         /\ Finish(client) \/ Reset(client) =>
              cst[client] \in {"up", "fin"} /\ cst'[client] \in {"fin", "rst", "pipe"} /\ sent' = sent
         /\ Deliver(client) => cst' = cst /\ sent' = sent
         /\ \A kind : SendItem(client, kind) =>
              cst' = cst /\ cst[client] = "up" /\ sent'[client] = sent[client] + 1
<1>1. client \in Conns /\ cst \in [Conns -> {"new", "up", "fin", "rst", "pipe", "closed"}]
      /\ sent \in [Conns -> 0 .. MaxFrames + 1]
  BY SessionAssumption DEF Sound, Attended, TypeOK, SocketTypes
<1>2. UNCHANGED <<unread, max_payload, stop, pc, cur, reply, owner, rbuf, maps>>
  BY DEF Connect, Finish, Reset, Deliver, SendItem, config, locals
<1>3. /\ Connect(client) => cst[client] = "new" /\ cst'[client] = "up" /\ sent' = sent
      /\ Finish(client) \/ Reset(client) =>
           cst[client] \in {"up", "fin"} /\ cst'[client] \in {"fin", "rst", "pipe"} /\ sent' = sent
      /\ Deliver(client) => cst' = cst /\ sent' = sent
      /\ \A kind : SendItem(client, kind) =>
           cst' = cst /\ cst[client] = "up" /\ sent'[client] = sent[client] + 1
  BY <1>1 DEF Connect, Finish, Reset, Deliver, SendItem
<1>4. cst'[client] = "closed" <=> cst[client] = "closed"
  BY <1>3
<1>5. Phase(client)' = Phase(client) /\ Part(client)' = Part(client)
  BY <1>1, <1>2, <1>4, ViewKept DEF FdsOf, maps
<1> QED
  BY <1>2, <1>3, <1>5

\* A recv is counted, or none took place.
LEMMA CountedSo ==
  ASSUME CountServer
  PROVE  UNCHANGED <<cuts, merged>> \/ \E cut, two \in BOOLEAN : Count(cut, two)
<1>1. PICK buf : buf = Take(inp[client], RecvMax)
  OBVIOUS
<1>2. PICK cut \in BOOLEAN : cut = (buf[1].pos # 1 \/ Last(buf).pos # HeaderLen + Last(buf).kind.len)
  OBVIOUS
<1>3. PICK two \in BOOLEAN : two = (buf[1].item # Last(buf).item)
  OBVIOUS
<1>4. UNCHANGED <<cuts, merged>> \/ Count(cut, two)
  BY <1>1, <1>2, <1>3 DEF CountServer
<1> QED
  BY <1>4

\* Demo is inductive: the server's steps, all steps, the initial state.
LEMMA DemoServer ==
  ASSUME Sound, Demo, ServerProgram
  PROVE  Demo'
<1>1. Advances
  BY ServerAdvances DEF ServerProgram, Demo
<1>2. UNCHANGED <<step, exit, taken, stock, printed>> /\ CountServer /\ CarryReply
  BY DEF ServerProgram
<1>3. reply \in [op : Opcodes \cup {"http"}, data : Seq(Byte), code : Codes,
                 next : {"opened", "keep", "close"}]
  BY DEF Sound, Attended, TypeOK, LocalTypes, Reply
<1>4. PICK m : m = [op |-> reply.op, data |-> reply.data]
  OBVIOUS
<1>5. /\ m \in Written_
      /\ replies' = IF unread' = unread THEN replies ELSE Append(replies, m)
  BY <1>2, <1>3, <1>4 DEF CarryReply, Written_
<1>6. /\ replies' \in Seq(Written_)
      /\ Len(replies') \in Nat /\ Len(replies') >= Len(replies) /\ Len(replies) \in Nat
      /\ replies # <<>> => replies' # <<>>
      /\ unread' # unread => replies' # <<>>
  <2>1. replies \in Seq(Written_) /\ Len(replies) \in Nat
    BY LenProperties DEF Demo, SessionType
  <2>2. CASE unread' = unread
    BY <1>5, <2>1, <2>2
  <2>3. CASE unread' # unread
    <3>1. replies' = Append(replies, m) /\ Len(replies') = Len(replies) + 1
      BY <1>5, <2>1, <2>3, AppendProperties
    <3>2. replies' \in Seq(Written_) /\ replies' # <<>>
      BY <1>5, <2>1, <3>1, AppendProperties
    <3> QED
      BY <2>1, <3>1, <3>2
  <2> QED
    BY <2>2, <2>3
<1>7. cuts' \in Nat /\ merged' \in BOOLEAN
  <2>1. cuts \in Nat /\ merged \in BOOLEAN
    BY DEF Demo, SessionType
  <2>2. UNCHANGED <<cuts, merged>> \/ \E cut, two \in BOOLEAN : Count(cut, two)
    BY <1>2, CountedSo
  <2> QED
    BY <2>1, <2>2 DEF Count
<1>8. SessionType'
  BY <1>2, <1>6, <1>7 DEF ServerProgram, Demo, SessionType
<1>9. reset' # "no" => cst'[client] = "closed"
  BY <1>1 DEF ServerProgram, Demo, Advances
<1>10. taken' <= Stock' /\ Stock' <= 2 * Len(replies')
  <2>1. reset' = "come" => reset = "come"
    BY DEF ServerProgram
  <2>2. reset = "come" => reset' = "come"
    BY <1>1 DEF ServerProgram, Demo, Advances
  <2> QED
    BY <1>2, <1>6, <2>1, <2>2 DEF Demo, SessionType, Stock
<1>11. replies' # <<>> => Phase(client)' # "none"
  BY <1>1, <1>5 DEF Demo, Advances
<1>12. Phase(client)' = "open" => replies' # <<>>
  BY <1>1, <1>6 DEF Demo, Advances
<1> QED
  BY <1>1, <1>2, <1>6, <1>8, <1>9, <1>10, <1>11, <1>12 DEF Demo, Advances

LEMMA DemoNext ==
  ASSUME Sound, Demo, [SNext]_svars
  PROVE  Demo'
<1>0. Len(replies) \in Nat
  BY LenProperties DEF Demo, SessionType
<1>1. CASE UNCHANGED svars
  <2>1. UNCHANGED <<cst, sent, stop, max_payload, pc>> /\ Phase(client)' = Phase(client)
    BY <1>1 DEF svars, vars, sockets, config, locals, maps, Phase, FdsOf
  <2> QED
    BY <1>1, <2>1 DEF svars, Demo, SessionType, Stock
<1>2. CASE ServerProgram
  BY <1>2, DemoServer
<1>3. ASSUME UNCHANGED vars
      PROVE  UNCHANGED <<cst, sent, stop, max_payload, pc>> /\ Phase(client)' = Phase(client)
  BY <1>3 DEF vars, sockets, config, locals, maps, Phase, FdsOf
<1>4. CASE Network
  <2>1. CASE ResetArrives
    BY <1>0, <1>3, <2>1 DEF ResetArrives, Demo, SessionType, Stock
  <2>2. CASE ~ResetArrives
    <3>1. Deliver(client) /\ UNCHANGED <<step, exit, replies, taken, reset, stock, printed, cuts, merged>>
      BY <1>4, <2>2 DEF Network
    <3>2. /\ UNCHANGED <<cst, sent, stop, max_payload, pc>> /\ Phase(client)' = Phase(client)
      BY <3>1, ClientConnection
    <3> QED
      BY <3>1, <3>2 DEF Demo, SessionType, Stock
  <2> QED
    BY <2>1, <2>2
<1>5. CASE SConnect
  <2>1. CASE Connect(client) /\ step' = 1 /\ UNCHANGED exit
    <3>1. /\ cst'[client] = "up" /\ cst[client] = "new"
          /\ UNCHANGED <<sent, stop, max_payload, pc>> /\ Phase(client)' = Phase(client)
      BY <2>1, ClientConnection
    <3>2. UNCHANGED <<replies, taken, reset, stock, printed, cuts, merged>> /\ step = 0
      BY <1>5 DEF SConnect
    <3>3. sent'[client] = SentBefore[step'] /\ pc # "idle" /\ pc # "stopped"
      BY <2>1, <3>1, <3>2 DEF Demo, SentBefore, Connect, Ended
    <3> QED
      BY <2>1, <3>1, <3>2, <3>3 DEF Demo, SessionType, Stock
  <2>2. CASE UNCHANGED <<vars, step>> /\ exit' = "error"
    BY <1>0, <1>3, <1>5, <2>2 DEF SConnect, Demo, SessionType, Stock
  <2> QED
    BY <1>5, <2>1, <2>2 DEF SConnect
<1>6. CASE SSend
  <2>1. step \in Sends /\ step \in 1 .. 12 /\ (step # 2) /\ step' \in {step, step + 1}
    BY <1>6, ScriptSends DEF SSend, Sends
  <2>2. CASE SendItem(client, Script[step].kind) /\ step' = step + 1 /\ UNCHANGED <<exit, reset>>
    <3>1. sent'[client] = SentBefore[step']
      BY <2>1, <2>2, ClientConnection, ScriptTables DEF Demo
    <3> QED
      BY <1>0, <1>6, <2>1, <2>2, <3>1, ClientConnection DEF SSend, Demo, SessionType, Stock
  <2>3. CASE cst[client] = "closed" /\ UNCHANGED vars
    <3>1. UNCHANGED <<replies, taken, stock, merged, cuts>>
      BY <1>6 DEF SSend
    <3>2. /\ step' \in 1 .. 13 /\ (step' >= 3 => step >= 3)
          /\ exit' \in {"no", "error", "sigpipe", "done"}
          /\ reset' \in {"no", "due", "come"} /\ (reset' = "come" <=> reset = "come")
      BY <1>6, <2>1, <2>3 DEF SSend, Demo, SessionType, SendItem
    <3>3. SessionType' /\ Stock' = Stock
      BY <3>1, <3>2 DEF Demo, SessionType, Stock
    <3> QED
      BY <1>3, <2>1, <2>3, <3>1, <3>2, <3>3 DEF Demo
  <2> QED
    BY <1>6, <2>2, <2>3 DEF SSend
<1>7. CASE SRecv
  <2>1. step \in Receives /\ step \in 1 .. 12 /\ step' = step + 1
    BY <1>7, ScriptReceives DEF SRecv, Receives
  <2>2. PICK n \in 1 .. Stock - taken : taken' = taken + n /\ Count(taken % 2 = 1 \/ n % 2 = 1, n > 2)
    BY <1>7 DEF SRecv
  <2>3. UNCHANGED <<vars, exit, replies, reset, stock>>
    BY <1>7 DEF SRecv
  <2>4. SentBefore[step'] = SentBefore[step]
    BY <2>1, ScriptTables
  <2>5. Stock' = Stock /\ Stock \in Nat
    BY <1>0, <2>3 DEF Stock, Demo, SessionType
  <2>6. replies # <<>>
    BY <2>2, <2>5 DEF Demo, SessionType
  <2>7. cuts' \in Nat /\ merged' \in BOOLEAN
    BY <2>2 DEF Count, Demo, SessionType
  <2>8. SessionType' /\ taken' <= Stock'
    <3>1. taken' \in Nat /\ taken' <= Stock'
      BY <2>2, <2>5 DEF Demo, SessionType
    <3>2. step' \in 0 .. 13
      BY <2>1
    <3> QED
      BY <2>3, <2>7, <3>1, <3>2 DEF Demo, SessionType
  <2> QED
    BY <1>3, <2>1, <2>3, <2>4, <2>5, <2>6, <2>8 DEF Demo
<1>8. CASE SRecvFails
  <2>1. step \in Receives /\ step \in 1 .. 12
    BY <1>8, ScriptReceives DEF SRecvFails, Receives
  <2>2. step' = step \/ (step # 2 /\ step' = step + 1)
    BY <1>8, <2>1 DEF SRecvFails, Receives, Script, Recv, Send_
  <2>3. UNCHANGED vars /\ cst[client] = "closed"
    BY <1>8 DEF SRecvFails
  <2>4. /\ step \in 1 .. 13 /\ step' \in 1 .. 13 /\ (step' >= 3 => step >= 3)
        /\ UNCHANGED <<replies, taken, reset, stock, merged, cuts>>
        /\ exit' \in {"no", "error", "sigpipe", "done"}
    BY <1>8, <2>1, <2>2 DEF SRecvFails, Demo, SessionType, Receives
  <2>5. SessionType' /\ Stock' = Stock
    BY <2>4 DEF Demo, SessionType, Stock
  <2> QED
    BY <1>3, <2>3, <2>4, <2>5 DEF Demo
<1>9. CASE SClose
  <2>1. step = 13 /\ step' = step /\ exit' = "done"
    BY <1>9, ScriptTables DEF SClose
  <2>2. CASE UNCHANGED vars
    BY <1>0, <1>3, <1>9, <2>1, <2>2 DEF SClose, Demo, SessionType, Stock
  <2>3. CASE Finish(client) \/ Reset(client)
    BY <1>0, <1>9, <2>1, <2>3, ClientConnection DEF SClose, Demo, SessionType, Stock
  <2> QED
    BY <1>9, <2>2, <2>3 DEF SClose
<1>10. CASE SRejects
  BY <1>0, <1>10, ClientConnection DEF SRejects, Demo, SessionType, Stock
<1> QED
  BY <1>1, <1>2, <1>4, <1>5, <1>6, <1>7, <1>8, <1>9, <1>10 DEF SNext, ClientProgram

LEMMA DemoInit == SInit => Demo
<1> SUFFICES ASSUME SInit PROVE Demo
  OBVIOUS
<1>1. Init /\ client \in Conns
  BY SessionAssumption DEF SInit
<1>2. /\ cst[client] = "new" /\ sent[client] = 0 /\ ~stop /\ max_payload = ParseLimit
      /\ pc = "idle"
  BY <1>1 DEF Init
<1>3. <<>> \in Seq(Written_) /\ Len(<<>>) = 0
  BY EmptySeq
<1>4. Phase(client) = "none"
  BY <1>1, <1>2, ViewOff, ServerAssumption DEF Init, FdsOf
<1> QED
  <2>1. SessionType
    <3>1. merged \in BOOLEAN
      BY DEF SInit
    <3>2. /\ step = 0 /\ exit = "no" /\ replies = <<>> /\ reset = "no"
          /\ taken = 0 /\ stock = 0 /\ cuts = 0
      BY DEF SInit
    <3> QED
      BY <1>3, <3>1, <3>2 DEF SessionType
  <2>2. Stock = 0 /\ taken = 0 /\ replies = <<>> /\ step = 0 /\ reset = "no"
    BY <1>3 DEF SInit, Stock
  <2> QED
    BY <1>2, <1>3, <1>4, <2>1, <2>2 DEF Demo

\* The demo is a run of Server: what is proved of every run of the server, its
\* tables, its deliveries and its promise to each connection, holds in it.
THEOREM DemoIsServer == SSpec => Spec
<1>1. SInit => Init /\ Demo
  BY DemoInit DEF SInit
<1>2. Inv /\ Accounted /\ Talk /\ Demo /\ [SNext]_svars => Demo' /\ [Next]_vars
  BY InvAttended, DemoStep, DemoNext DEF Sound
<1>3. Init => Inv /\ Accounted /\ Talk
  BY InvInit, AccountedInit, EchoInit
<1>4. Inv /\ Accounted /\ Talk /\ [Next]_vars => Inv' /\ Accounted' /\ Talk'
  BY InvNext, InvAttended, AccountedNext, EchoNext DEF Sound
<1> QED
  BY <1>1, <1>2, <1>3, <1>4, PTL DEF Spec, SSpec

\* Where the client is in its script agrees with the connection at every step.
THEOREM DemoHolds == SSpec => []Demo
<1>1. Inv /\ Accounted /\ Talk /\ Demo /\ [SNext]_svars => Demo'
  BY InvAttended, DemoNext DEF Sound
<1>2. SInit => Demo
  BY DemoInit
<1> QED
  BY <1>1, <1>2, DemoIsServer, InvHolds, AllAccounted, TalkHolds, PTL DEF SSpec

-----------------------------------------------------------------------------
(* Client and server in step.                                              *)

\* Replies that h items of the client's have brought: one each, but the first
\* fragment none.
Due(h) == IF h <= 3 THEN h ELSE h - 1

\* The replies, in order, and the first n of them.
Answer(i) == IF i = 1 THEN [op |-> "http", data |-> <<>>] ELSE Expected[i - 1]
Answered(n) == [i \in 1 .. n |-> Answer(i)]

\* The first n of those that are printed.
Shown(n) == [i \in 1 .. n |-> Expected[i]]

\* What is on its way when s items have been sent and h dealt with.
Pending(h, s) ==
  IF h = s THEN <<>> ELSE IF h + 1 = s THEN Item(h) ELSE Item(h) \o Item(h + 1)

\* The first fragment, held.
Half == [op |-> "text", data |-> Body(3, frag1)]

\* The server has dealt with h items, and is in send() with the reply to the last
\* of them or has written it.  The client is at most one item ahead, and two only
\* with the fragments.
At(h) ==
  /\ sent[client] <= h + 1 \/ (h = 3 /\ sent[client] = 5)
  /\ Flow(client) = Pending(h, sent[client])
  /\ Part(client) = IF h = 4 THEN Half ELSE Nothing
  /\ IF pc = "send"
     THEN /\ h \notin {0, 4}
          /\ [op |-> reply.op, data |-> reply.data] = Answer(Due(h))
          /\ replies = Answered(Due(h) - 1)
     ELSE replies = Answered(Due(h))

\* One recv has returned both fragments, and the second is lost.
Stuck ==
  /\ step = 9 /\ merged /\ pc # "send"
  /\ Flow(client) = <<>> /\ replies = Answered(3) /\ Part(client) = Half

\* The connection is up, and what has gone over it is in one of these states.
Exchange ==
  /\ cst[client] = "up" /\ pc # "dead"
  /\ Stuck \/ \E h \in 0 .. sent[client] : At(h)

\* The client has read one reply at each recv, and printed all but the first.
Reader ==
  exit = "no" /\ taken = 2 * ReadBefore[step] /\ printed = Shown(ReadBefore[step] - 1)

\* As long as TCP cuts nothing the client has had every reply it has asked for,
\* and the server is in one of the states of At, or stuck.
Lockstep ==
  /\ step = 0 => printed = <<>>
  /\ step \in 1 .. 12 /\ cuts = 0 => Exchange /\ Reader
  /\ step = 13 /\ cuts = 0 => printed = Expected /\ exit \in {"no", "done"}

-----------------------------------------------------------------------------
(* What is sent and what comes back.                                       *)

\* a is what the frame or request k looks like as item n.
Units(a, n, k) ==
  /\ a \in Seq(Unit) /\ k.len \in Nat /\ Len(a) = HeaderLen + k.len
  /\ \A i \in 1 .. Len(a) : a[i].pos = i /\ a[i].item = n /\ a[i].kind = k

\* The units of an item carry its kind and number, from position 1 on.
LEMMA ItemUnits ==
  ASSUME NEW n \in 0 .. 6
  PROVE  Units(Item(n), n, Kind(n)) /\ Item(n) \in Seq(Unit)
<1> PICK k : k = Kind(n)
  OBVIOUS
<1>1. client \in Conns /\ k \in Kinds \cup Requests
  BY ItemKinds, SessionAssumption
<1>2. k.len \in Nat
  BY <1>1, FramingAssumption DEF FrameKind, RequestKind
<1>3. PICK a \in Seq(Unit) : a = Wire(client, n, k)
  BY <1>1, WireType
<1>4. DOMAIN a = 1 .. HeaderLen + k.len
  BY <1>3 DEF Wire
<1>5. Len(a) = HeaderLen + k.len
  BY <1>2, <1>4, LenProperties DEF HeaderLen
<1>6. \A i \in 1 .. Len(a) : a[i].pos = i /\ a[i].item = n /\ a[i].kind = k
  BY <1>3, <1>5 DEF Wire
<1>7. a = Item(n)
  BY <1>3 DEF Item
<1> QED
  BY <1>2, <1>5, <1>6, <1>7 DEF Units

\* A stretch of bytes at the front of an item that ends like one is the item.
LEMMA OneWhole ==
  ASSUME NEW a, NEW n, NEW k, Units(a, n, k),
         NEW buf \in Seq(Unit), NEW rest \in Seq(Unit),
         a = buf \o rest, buf # <<>>, Last(buf).pos = HeaderLen + Last(buf).kind.len
  PROVE  buf = a /\ rest = <<>>
<1> PICK p \in Nat, q \in Nat, l \in Nat : p = Len(buf) /\ q = Len(rest) /\ l = Len(a)
  BY LenProperties DEF Units
<1>1. p > 0
  BY EmptySeq
<1>2. /\ l = p + q
      /\ \A i \in 1 .. p : a[i] = buf[i]
  BY ConcatProperties
<1>3. Last(buf) = a[p] /\ p \in 1 .. l
  BY <1>1, <1>2 DEF Last
<1>4. p = l
  BY <1>3 DEF HeaderLen, Units
<1>5. rest = <<>>
  BY <1>2, <1>4, EmptySeq
<1> QED
  BY <1>5, ConcatEmptySeq

\* st is s and then t.
Joined(st, s, t) == st = s \o t

\* The same, unit by unit.
Parts(st, s, t) ==
  /\ Len(st) = Len(s) + Len(t)
  /\ \A i \in 1 .. Len(s) : st[i] = s[i]
  /\ \A i \in 1 .. Len(t) : st[Len(s) + i] = t[i]

\* Where the units of s and of t are in st.
LEMMA JoinedParts ==
  ASSUME NEW s \in Seq(Unit), NEW t \in Seq(Unit), NEW st, Joined(st, s, t)
  PROVE  Parts(st, s, t)
<1> PICK m \in Nat, n \in Nat : m = Len(s) /\ n = Len(t)
  BY LenProperties
<1>1. /\ Len(st) = m + n
      /\ \A i \in 1 .. m + n : st[i] = IF i <= m THEN s[i] ELSE t[i - m]
  BY ConcatProperties DEF Joined
<1>2. ASSUME NEW i \in 1 .. n PROVE st[m + i] = t[i]
  <2>1. m + i \in 1 .. m + n /\ ~(m + i <= m) /\ (m + i) - m = i
    OBVIOUS
  <2> QED
    BY <1>1, <2>1
<1>3. \A i \in 1 .. m : st[i] = s[i]
  BY <1>1
<1> QED
  BY <1>1, <1>2, <1>3 DEF Parts

\* At the front of two, it is the first or both.
LEMMA TwoWhole ==
  ASSUME NEW a, NEW m \in Nat, NEW ka, Units(a, m, ka),
         NEW b, NEW n \in Nat, NEW kb, Units(b, n, kb),
         NEW buf \in Seq(Unit), NEW rest \in Seq(Unit),
         NEW ab, Joined(ab, a, b), Joined(ab, buf, rest),
         buf # <<>>, Last(buf).pos = HeaderLen + Last(buf).kind.len
  PROVE  \/ buf = a /\ rest = b
         \/ buf = ab /\ rest = <<>> /\ buf[1].item = m /\ Last(buf).item = n
<1> PICK p \in Nat, q \in Nat, k \in Nat, l \in Nat :
      p = Len(buf) /\ q = Len(rest) /\ k = Len(a) /\ l = Len(b)
  BY LenProperties DEF Units
<1>1. /\ p > 0 /\ k > 0 /\ l > 0 /\ a \in Seq(Unit) /\ b \in Seq(Unit)
      /\ \A i \in 1 .. k : a[i].pos = i /\ a[i].item = m /\ a[i].kind.len = k - HeaderLen
      /\ \A i \in 1 .. l : b[i].pos = i /\ b[i].item = n /\ b[i].kind.len = l - HeaderLen
  <2>1. p > 0 /\ a \in Seq(Unit) /\ b \in Seq(Unit)
    BY EmptySeq DEF Units
  <2>2. ka.len \in Nat /\ k = HeaderLen + ka.len /\ kb.len \in Nat /\ l = HeaderLen + kb.len
    BY DEF Units
  <2>3. /\ \A i \in 1 .. k : a[i].pos = i /\ a[i].item = m /\ a[i].kind = ka
        /\ \A i \in 1 .. l : b[i].pos = i /\ b[i].item = n /\ b[i].kind = kb
    BY DEF Units
  <2>4. ka.len = k - HeaderLen /\ kb.len = l - HeaderLen /\ k > 0 /\ l > 0
    <3>1. PICK x \in Nat, y \in Nat : x = ka.len /\ y = kb.len
      BY <2>2
    <3>2. k = HeaderLen + x /\ l = HeaderLen + y
      BY <2>2, <3>1
    <3>3. x = k - HeaderLen /\ y = l - HeaderLen /\ k > 0 /\ l > 0
      BY <3>2 DEF HeaderLen
    <3> QED
      BY <3>1, <3>3
  <2>5. \A i \in 1 .. k : a[i].pos = i /\ a[i].item = m /\ a[i].kind.len = k - HeaderLen
    BY <2>3, <2>4
  <2>6. \A i \in 1 .. l : b[i].pos = i /\ b[i].item = n /\ b[i].kind.len = l - HeaderLen
    BY <2>3, <2>4
  <2>7. k > 0 /\ l > 0
    BY <2>4
  <2> QED
    BY <2>1, <2>5, <2>6, <2>7
<1>2. /\ k + l = p + q
      /\ \A i \in 1 .. p : ab[i] = buf[i]
      /\ \A i \in 1 .. q : ab[p + i] = rest[i]
      /\ \A i \in 1 .. k : ab[i] = a[i]
      /\ \A i \in 1 .. l : ab[k + i] = b[i]
  <2>1. Parts(ab, buf, rest) /\ Parts(ab, a, b)
    BY <1>1, JoinedParts
  <2>2. /\ Len(ab) = p + q
        /\ \A i \in 1 .. p : ab[i] = buf[i]
        /\ \A i \in 1 .. q : ab[p + i] = rest[i]
    BY <2>1 DEF Parts
  <2>3. /\ Len(ab) = k + l
        /\ \A i \in 1 .. k : ab[i] = a[i]
        /\ \A i \in 1 .. l : ab[k + i] = b[i]
    BY <2>1 DEF Parts
  <2> QED
    BY <2>2, <2>3
<1>3. Last(buf) = ab[p]
  BY <1>1, <1>2 DEF Last
<1>4. CASE p <= k
  <2>1. p = k
    <3>1. ab[p] = a[p] /\ p \in 1 .. k
      BY <1>1, <1>2, <1>4
    <3>2. a[p].pos = p /\ a[p].kind.len = k - HeaderLen
      BY <1>1, <3>1
    <3>3. p = HeaderLen + (k - HeaderLen)
      BY <1>3, <3>1, <3>2
    <3> QED
      BY <3>3 DEF HeaderLen
  <2>2. q = l
    BY <1>2, <2>1
  <2>3. buf = a
    <3>1. \A i \in 1 .. p : buf[i] = a[i]
      BY <1>2, <2>1
    <3> QED
      BY <1>1, <2>1, <3>1, SeqEqual
  <2>4. rest = b
    <3>1. \A i \in 1 .. q : rest[i] = b[i]
      BY <1>2, <2>1, <2>2
    <3> QED
      BY <1>1, <2>2, <3>1, SeqEqual
  <2> QED
    BY <2>3, <2>4
<1>5. CASE p > k
  <2>1. p - k \in 1 .. l /\ ab[p] = b[p - k]
    <3>1. p - k \in 1 .. l /\ k + (p - k) = p
      BY <1>2, <1>5
    <3> QED
      BY <1>2, <3>1
  <2>2. p - k = l
    <3>1. PICK i \in 1 .. l : i = p - k
      BY <2>1
    <3>2. Last(buf) = b[i]
      BY <1>3, <2>1, <3>1
    <3>3. b[i].pos = i /\ b[i].kind.len = l - HeaderLen
      BY <1>1
    <3> QED
      BY <3>1, <3>2, <3>3 DEF HeaderLen
  <2>3. q = 0
    BY <1>2, <2>2
  <2>4. rest = <<>>
    BY <2>3, EmptySeq
  <2>5. buf = ab
    BY <2>4, ConcatEmptySeq DEF Joined
  <2>6. buf[1] = a[1]
    <3>1. 1 \in 1 .. p /\ 1 \in 1 .. k
      BY <1>1
    <3> QED
      BY <1>2, <3>1
  <2> QED
    BY <1>1, <1>3, <2>1, <2>4, <2>5, <2>6
<1> QED
  BY <1>4, <1>5

\* A recv that ends where a frame does returns the frame that is next, or two.
LEMMA WholeFrames ==
  ASSUME NEW h \in 0 .. 6, NEW s \in 0 .. 7, h < s, s <= h + 2,
         NEW buf \in Seq(Unit), NEW rest \in Seq(Unit), Joined(Pending(h, s), buf, rest),
         buf # <<>>, Last(buf).pos = HeaderLen + Last(buf).kind.len
  PROVE  \/ buf = Item(h) /\ rest = Pending(h + 1, s)
         \/ s = h + 2 /\ buf = Item(h) \o Item(h + 1) /\ rest = <<>> /\ buf[1].item # Last(buf).item
<1>1. Units(Item(h), h, Kind(h))
  BY ItemUnits
<1>2. CASE s = h + 1
  <2>1. Pending(h, s) = Item(h) /\ Pending(h + 1, s) = <<>>
    BY <1>2 DEF Pending
  <2>2. buf = Item(h) /\ rest = <<>>
    BY <1>1, <2>1, OneWhole DEF Joined
  <2> QED
    BY <2>1, <2>2
<1>3. CASE s = h + 2
  <2>1. PICK g \in 0 .. 6 : g = h + 1
    BY <1>3
  <2>2. Units(Item(g), g, Kind(g))
    BY ItemUnits
  <2>3. Pending(h, s) = Item(h) \o Item(g) /\ Pending(h + 1, s) = Item(g)
    BY <1>3, <2>1 DEF Pending
  <2>4. \/ buf = Item(h) /\ rest = Item(g)
        \/ buf = Item(h) \o Item(g) /\ rest = <<>> /\ buf[1].item = h /\ Last(buf).item = g
    <3>1. PICK ab : Joined(ab, Item(h), Item(g)) /\ Joined(ab, buf, rest)
      BY <2>3 DEF Joined
    <3>2. \/ buf = Item(h) /\ rest = Item(g)
          \/ buf = ab /\ rest = <<>> /\ buf[1].item = h /\ Last(buf).item = g
      BY <1>1, <2>2, <3>1, TwoWhole
    <3> QED
      BY <3>1, <3>2 DEF Joined
  <2>5. h # g
    BY <2>1
  <2> QED
    BY <1>3, <2>1, <2>3, <2>4, <2>5
<1> QED
  BY <1>2, <1>3

\* parse_frame makes of a buffer that begins with an item that item's frame.
LEMMA FrameAtFront ==
  ASSUME NEW n \in 1 .. 6, NEW buf \in Seq(Unit), NEW rest \in Seq(Unit), buf = Item(n) \o rest
  PROVE  /\ Kind(n) \in Kinds /\ HeadersAt(buf) = {Kind(n)} /\ Complete(buf, Kind(n))
         /\ Payload(buf, Kind(n)) = Body(n, Kind(n))
<1> PICK k : k = Kind(n)
  OBVIOUS
<1> PICK a : a = Item(n) /\ buf = a \o rest
  OBVIOUS
<1>1. n \in 0 .. 6 /\ k \in Kinds
  BY ItemKinds
<1>2. k.len \in Nat /\ k.len <= ParseLimit /\ ParseLimit \in Nat
  BY <1>1, SessionAssumption, FramingAssumption DEF FrameKind
<1>3. Units(a, n, k)
  BY <1>1, ItemUnits
<1>4. PICK p \in Nat, q \in Nat : p = Len(a) /\ q = Len(rest) /\ p = 2 + k.len /\ a \in Seq(Unit)
  BY <1>2, <1>3, LenProperties DEF Units, HeaderLen
<1>5. Len(buf) = p + q /\ \A i \in 1 .. p : buf[i] = a[i]
  <2>1. Joined(buf, a, rest)
    BY DEF Joined
  <2>2. Parts(buf, a, rest)
    BY <1>4, <2>1, JoinedParts
  <2> QED
    BY <1>4, <2>2 DEF Parts
<1>6. buf[1].pos = 1 /\ buf[1].kind = k
  <2>1. 1 \in 1 .. p
    BY <1>2, <1>4
  <2> QED
    BY <1>3, <1>4, <1>5, <2>1 DEF Units
<1>7. HeadersAt(buf) = {k}
  BY <1>1, <1>6 DEF HeadersAt
<1>8. Complete(buf, k)
  <2>1. Len(buf) >= HeaderLen /\ Len(buf) >= HeaderLen + k.len
    BY <1>2, <1>4, <1>5 DEF HeaderLen
  <2> QED
    BY <2>1 DEF Complete
<1>9. Payload(buf, k) = SubSeq(a, HeaderLen + 1, Len(a))
  <2>1. ~(k.len > ParseLimit)
    BY <1>2
  <2>2. Payload(buf, k) = SubSeq(a \o rest, HeaderLen + 1, HeaderLen + k.len)
    BY <2>1 DEF Payload
  <2>3. SubSeq(a \o rest, 3, p) = SubSeq(a, 3, p)
    <3>1. CASE k.len = 0
      <4>1. p = 2
        BY <1>4, <3>1
      <4> QED
        BY <4>1, SubSeqEmpty
    <3>2. CASE k.len # 0
      <4>1. 3 \in 1 .. Len(a) /\ p \in 1 .. Len(a)
        BY <1>2, <1>4, <3>2
      <4> QED
        BY <1>4, <4>1, SubSeqOfConcat1
    <3> QED
      BY <3>1, <3>2
  <2>4. HeaderLen + 1 = 3 /\ HeaderLen + k.len = p /\ Len(a) = p
    BY <1>4 DEF HeaderLen
  <2> QED
    BY <2>2, <2>3, <2>4
<1>10. Body(n, k) = SubSeq(a, HeaderLen + 1, Len(a))
  BY DEF Body, Drop, Item
<1> QED
  BY <1>1, <1>7, <1>8, <1>9, <1>10

\* Replies accumulate.
LEMMA AnswersGrow ==
  ASSUME NEW n \in Nat
  PROVE  /\ Len(Answered(n)) = n /\ (Answered(n) = <<>> <=> n = 0)
         /\ Append(Answered(n), Answer(n + 1)) = Answered(n + 1)
         /\ \A i \in 1 .. n : Answered(n)[i] = Answer(i)
<1>1. PICK S : S = {Answer(i) : i \in 1 .. n + 1}
  OBVIOUS
<1>2. Answered(n) \in Seq(S) /\ Answered(n + 1) \in Seq(S) /\ Answer(n + 1) \in S
  BY <1>1, SeqDef DEF Answered
<1>3. DOMAIN Answered(n) = 1 .. n /\ DOMAIN Answered(n + 1) = 1 .. n + 1
  BY DEF Answered
<1>4. Len(Answered(n)) = n /\ Len(Answered(n + 1)) = n + 1
  BY <1>2, <1>3, LenProperties
<1>5. Append(Answered(n), Answer(n + 1)) = Answered(n + 1)
  <2>1. /\ Append(Answered(n), Answer(n + 1)) \in Seq(S)
        /\ Len(Append(Answered(n), Answer(n + 1))) = n + 1
        /\ \A i \in 1 .. n : Append(Answered(n), Answer(n + 1))[i] = Answered(n)[i]
        /\ Append(Answered(n), Answer(n + 1))[n + 1] = Answer(n + 1)
    BY <1>2, <1>4, AppendProperties
  <2>2. \A i \in 1 .. n + 1 : Append(Answered(n), Answer(n + 1))[i] = Answered(n + 1)[i]
    BY <2>1 DEF Answered
  <2> QED
    BY <1>2, <1>4, <2>1, <2>2, SeqEqual
<1>6. Answered(n) = <<>> <=> n = 0
  BY <1>2, <1>4, EmptySeq
<1> QED
  BY <1>4, <1>5, <1>6 DEF Answered

\* The replies printed so far and the next one are the next replies printed so far.
LEMMA ShownGrows ==
  ASSUME NEW n \in Int, n <= 4
  PROVE  /\ Shown(n) \o <<>> = Shown(n) /\ (n <= 0 => Shown(n) = <<>>)
         /\ n \in 0 .. 3 => Shown(n) \o <<Expected[n + 1]>> = Shown(n + 1)
         /\ n = 4 => Shown(n) = Expected
<1>1. PICK S : S = {Expected[i] : i \in 1 .. 4}
  OBVIOUS
<1>2. CASE n <= 0
  <2>1. Shown(n) = <<>>
    BY <1>2 DEF Shown
  <2>2. <<>> \o <<Expected[1]>> = <<Expected[1]>> /\ <<>> \o <<>> = <<>>
    OBVIOUS
  <2>3. Shown(1) = <<Expected[1]>>
    BY DEF Shown
  <2> QED
    BY <1>2, <2>1, <2>2, <2>3
<1>3. CASE n \in 1 .. 4
  <2>1. Shown(n) \in Seq(S) /\ DOMAIN Shown(n) = 1 .. n /\ Len(Shown(n)) = n
    BY <1>1, <1>3, SeqDef, LenProperties DEF Shown
  <2>2. Shown(n) \o <<>> = Shown(n)
    BY <2>1, ConcatEmptySeq
  <2>3. ASSUME n <= 3 PROVE Shown(n) \o <<Expected[n + 1]>> = Shown(n + 1)
    <3>1. Expected[n + 1] \in S /\ <<Expected[n + 1]>> \in Seq(S)
      BY <1>1, <1>3, <2>3
    <3>2. Shown(n + 1) \in Seq(S) /\ DOMAIN Shown(n + 1) = 1 .. n + 1 /\ Len(Shown(n + 1)) = n + 1
      BY <1>1, <1>3, <2>3, SeqDef, LenProperties DEF Shown
    <3>3. /\ Shown(n) \o <<Expected[n + 1]>> \in Seq(S)
          /\ Len(Shown(n) \o <<Expected[n + 1]>>) = n + 1
          /\ \A i \in 1 .. n + 1 : (Shown(n) \o <<Expected[n + 1]>>)[i]
                                     = IF i <= n THEN Shown(n)[i] ELSE <<Expected[n + 1]>>[i - n]
      BY <2>1, <3>1, ConcatProperties
    <3>4. \A i \in 1 .. n + 1 : (Shown(n) \o <<Expected[n + 1]>>)[i] = Shown(n + 1)[i]
      BY <1>3, <3>3 DEF Shown
    <3> QED
      BY <3>2, <3>3, <3>4, SeqEqual
  <2>4. ASSUME n = 4 PROVE Shown(n) = Expected
    BY <2>4 DEF Shown, Expected
  <2> QED
    BY <1>3, <2>2, <2>3, <2>4
<1> QED
  BY <1>2, <1>3

-----------------------------------------------------------------------------
(* The server's steps, while client and server are in step.                *)

\* Between connect() and close() at most six items have been sent; of five, the
\* client has read four replies but where it waits for the fragments' echo.
LEMMA Following ==
  /\ \A k \in 1 .. 12 : SentBefore[k] \in 0 .. 6 /\ ReadBefore[k] \in 0 .. 5
  /\ \A k \in 1 .. 12 : SentBefore[k] = 5 /\ k # 9 => ReadBefore[k] = 4
  BY DEF SentBefore, ReadBefore

\* What is still to come of it when it is on its way.
LEMMA SamePlace ==
  ASSUME Exchange, cst'[client] = cst[client], UNCHANGED <<sent, replies, step>>,
         merged => merged', Flow(client)' = Flow(client), Part(client)' = Part(client),
         pc' # "dead", pc' = "send" <=> pc = "send", pc = "send" => reply' = reply
  PROVE  Exchange'
<1>1. CASE Stuck
  <2>1. Stuck'
    BY <1>1 DEF Stuck
  <2> QED
    BY <2>1 DEF Exchange
<1>2. ASSUME NEW h \in 0 .. sent[client], At(h)
      PROVE  Exchange'
  <2>1. At(h)'
    BY <1>2 DEF At
  <2> QED
    BY <2>1 DEF Exchange
<1> QED
  BY <1>1, <1>2 DEF Exchange

\* Nothing is read from the connection, so nothing of what is on its way changes.
LEMMA SameFlow ==
  ASSUME UNCHANGED <<inp, todo>>, pc # "hs", pc' # "hs"
  PROVE  Flow(client)' = Flow(client)
<1>1. Reading(client) = <<>> /\ Reading(client)' = <<>>
  BY DEF Reading
<1>2. inp'[client] = inp[client] /\ todo'[client] = todo[client]
  OBVIOUS
<1> QED
  BY <1>1, <1>2 DEF Flow

\* The steps of the server keep client and server in step: those outside
\* connections, the handshake, handle_frame and send().
LEMMA QuietExchange ==
  ASSUME Sound, Exchange, CarryReply, UNCHANGED step, merged => merged', step # 0, Demo,
         Run \/ Select \/ Accept
  PROVE  Exchange'
<1>1. /\ Part(client)' = Part(client) /\ UNCHANGED <<cst, inp, todo, unread, sent, reply>>
      /\ pc \in {"loop", "scan"} /\ pc' \in {"loop", "scan"}
  BY QuietStep DEF Demo
<1>2. Flow(client)' = Flow(client)
  BY <1>1, SameFlow
<1>3. UNCHANGED replies
  BY <1>1 DEF CarryReply
<1> QED
  BY <1>1, <1>2, <1>3, SamePlace

\* The client is up: what the server does when it is not cannot happen.
LEMMA NotGone ==
  ASSUME cst[client] = "up", NEW fd, owner[fd] = client
  PROVE  ~PeerGone(fd)
  BY DEF PeerGone, Gone

LEMMA HandshakeExchange ==
  ASSUME Sound, Delivery, Demo, Exchange, CarryReply, UNCHANGED step, merged => merged',
         step \in 1 .. 12, NEW fd \in Fds, HandshakeEof(fd) \/ HandshakeRecv(fd), TypeOK'
  PROVE  Exchange'
<1>0. client \in Conns /\ TypeOK /\ cst[client] = "up" /\ sent[client] \in 0 .. 6
  BY SessionAssumption, Following DEF Sound, Attended, Exchange, Demo
<1>1. /\ owner[fd] = client /\ ~handshaken[fd] /\ pc \in {"hs", "scan"}
      /\ HandshakeRecv(fd) /\ InHandshake(fd)
  <2>1. owner[fd] = client
    BY HandshakeStep
  <2>2. HandshakeRecv(fd)
    BY <1>0, <2>1, NotGone DEF HandshakeEof
  <2> QED
    BY <2>1, <2>2 DEF Sound, Talk, HandshakeRecv, InHandshake, Visit
<1>2. replies = <<>>
  <2>1. FdsOf(client) = {fd}
    BY <1>0, <1>1, Behind DEF Sound
  <2>2. Phase(client) = "none"
    BY <1>0, <1>1, <2>1, ViewAt
  <2> QED
    BY <2>2 DEF Demo
<1>3. At(0)
  <2>1. ~Stuck
    <3>1. Answered(3) # <<>>
      BY AnswersGrow
    <3> QED
      BY <1>2, <3>1 DEF Stuck
  <2>2. PICK h \in 0 .. sent[client] : At(h)
    BY <2>1 DEF Exchange
  <2>3. h \in Nat /\ Answered(Due(h)) = <<>>
    BY <1>0, <1>1, <1>2, <2>2 DEF At
  <2>4. Due(h) = 0
    BY <2>3, AnswersGrow DEF Due
  <2>5. h = 0
    BY <2>3, <2>4 DEF Due
  <2> QED
    BY <2>2, <2>5
<1>4. PICK buf : buf = rbuf \o Take(inp[client], HsChunk)
  OBVIOUS
<1>5. PICK rest \in Seq(Unit) : /\ rest = Drop(inp[client], HsChunk) \o todo[client]
                                /\ buf \in Seq(Unit) /\ Flow(client) = buf \o rest
                                /\ HasRequest(buf) => rest = <<>>
  BY <1>1, <1>4, RequestRead
<1>6. ~(Len(buf) > HsLimit) /\ ~(HasRequest(buf) /\ buf[1].kind.op = "rejected")
  <2>1. Flow(client) = <<>> \/ Flow(client) = Item(0)
    <3>1. sent[client] = 0 \/ sent[client] = 1
      BY <1>0, <1>3 DEF At
    <3> QED
      BY <1>3, <3>1 DEF At, Pending
  <2>2. PICK p \in Nat, q \in Nat : p = Len(buf) /\ q = Len(rest)
    BY <1>5, LenProperties
  <2>3. Joined(Flow(client), buf, rest)
    BY <1>5 DEF Joined
  <2>4. Parts(Flow(client), buf, rest)
    BY <1>5, <2>3, JoinedParts
  <2>5. CASE Flow(client) = <<>>
    <3>1. p = 0
      BY <2>2, <2>4, <2>5 DEF Parts
    <3>2. ~HasRequest(buf)
      BY <2>2, <3>1 DEF HasRequest
    <3> QED
      BY <2>2, <3>1, <3>2, ServerAssumption
  <2>6. CASE Flow(client) = Item(0)
    <3>1. PICK a : a = Item(0) /\ a = Flow(client)
      BY <2>6
    <3>2. Units(a, 0, request)
      BY <3>1, ItemUnits DEF Kind, Items
    <3>3. PICK l \in Nat : l = request.len
      BY <3>2 DEF Units
    <3>4. Len(a) = 2 + l /\ \A i \in 1 .. 2 + l : a[i].kind = request
      BY <3>2, <3>3 DEF Units, HeaderLen
    <3>5. p + q = 2 + l /\ \A i \in 1 .. p : a[i] = buf[i]
      BY <2>2, <2>4, <3>1, <3>4 DEF Parts
    <3>6. p <= HsLimit
      <4>1. 2 + l <= HsLimit
        BY <3>3, SessionAssumption DEF HeaderLen
      <4> QED
        BY <3>5, <4>1, ServerAssumption
    <3>7. HasRequest(buf) => buf[1].kind.op = "accepted"
      <4>1. HasRequest(buf) => p > 0
        BY <2>2 DEF HasRequest
      <4>2. p > 0 => buf[1].kind = request
        <5> SUFFICES ASSUME p > 0 PROVE buf[1].kind = request
          OBVIOUS
        <5>1. 1 \in 1 .. p /\ 1 \in 1 .. 2 + l
          BY <3>5
        <5> QED
          BY <3>4, <3>5, <5>1
      <4> QED
        BY <4>1, <4>2, SessionAssumption
    <3> QED
      BY <2>2, <3>6, <3>7, ServerAssumption
  <2> QED
    BY <2>1, <2>5, <2>6
<1>7. /\ UNCHANGED <<owner, cst, todo, unread, sent>>
      /\ inp' = [inp EXCEPT ![client] = Drop(@, HsChunk)] /\ cur' = fd
      /\ \/ HasRequest(buf) /\ pc' = "send" /\ reply' = Switching /\ rbuf' = <<>>
         \/ pc' = "hs" /\ rbuf' = buf
  BY <1>1, <1>4, <1>6 DEF HandshakeRecv, Consume, Call
<1>8. Part(client)' = Part(client) /\ UNCHANGED replies
  <2>1. UNCHANGED replies
    BY <1>7 DEF CarryReply
  <2>2. ~HandshakeFails(fd)
    BY <1>7 DEF HandshakeFails, Resume
  <2> QED
    BY <2>1, <2>2, HandshakeStep
<1>9. rest = inp'[client] \o todo'[client]
  BY <1>0, <1>5, <1>7 DEF TypeOK, SocketTypes
<1>10. CASE HasRequest(buf) /\ pc' = "send" /\ reply' = Switching /\ rbuf' = <<>>
  <2>1. Flow(client)' = <<>>
    BY <1>0, <1>5, <1>9, <1>10, FlowTypes
  <2>2. sent[client] = 1
    <3>1. sent[client] \in Nat /\ sent[client] <= 1
      BY <1>0, <1>3 DEF At
    <3>2. sent[client] >= 1
      <4>1. sent[client] # 0
        <5> SUFFICES ASSUME sent[client] = 0 PROVE FALSE
          OBVIOUS
        <5>1. Flow(client) = <<>>
          BY <1>3 DEF At, Pending
        <5>2. Parts(Flow(client), buf, rest)
          BY <1>5, JoinedParts DEF Joined
        <5>3. Len(buf) = 0
          <6>1. Len(buf) \in Nat /\ Len(rest) \in Nat /\ Len(<<>>) = 0
            BY <1>5, LenProperties
          <6> QED
            BY <5>1, <5>2, <6>1 DEF Parts
        <5> QED
          BY <1>10, <5>3 DEF HasRequest
      <4> QED
        BY <3>1, <4>1
    <3> QED
      BY <3>1, <3>2
  <2>3. Part(client)' = Nothing
    BY <1>3, <1>8 DEF At
  <2>4. replies' = Answered(0) /\ Due(1) = 1
    BY <1>2, <1>8, AnswersGrow DEF Due
  <2>5. [op |-> reply'.op, data |-> reply'.data] = Answer(1)
    BY <1>10 DEF Switching, Answer
  <2>6. Pending(1, 1) = <<>> /\ sent'[client] = 1
    BY <1>7, <2>2 DEF Pending
  <2>7. At(1)'
    BY <1>10, <2>1, <2>3, <2>4, <2>5, <2>6 DEF At
  <2>8. 1 \in 0 .. sent'[client]
    BY <2>6
  <2> QED
    BY <1>0, <1>7, <1>10, <2>7, <2>8 DEF Exchange
<1>11. CASE pc' = "hs" /\ rbuf' = buf
  <2>1. Reading(client)' = buf
    BY <1>1, <1>7, <1>11 DEF Reading
  <2>2. Flow(client)' = Flow(client)
    BY <1>5, <1>9, <2>1 DEF Flow
  <2> QED
    BY <1>1, <1>7, <1>8, <1>11, <2>2, SamePlace
<1> QED
  BY <1>7, <1>10, <1>11

\* Where the server stands when it reads a frame: the frame is the next item,
\* and what is read after it is the frame's successor, if anything.
LEMMA FrameNext ==
  ASSUME Sound, Sound', Demo, Exchange, CountServer, UNCHANGED step,
         step \in 1 .. 12, cuts = 0, cuts' = 0,
         NEW fd \in Fds, HandleFrame(fd), NEW k \in Kinds, RecvFrame(fd, k), pc' # "hs"
  PROVE  \E h \in 1 .. 5 :
           /\ At(h) /\ h < sent[client] /\ k = Kind(h)
           /\ Complete(FrameBuffer(fd), k) /\ ~TooBig(k)
           /\ Payload(FrameBuffer(fd), k) = Body(h, k)
           /\ \/ Flow(client)' = Pending(h + 1, sent[client])
              \/ h = 3 /\ sent[client] = 5 /\ Flow(client)' = <<>> /\ merged'
<1>0. /\ client \in Conns /\ TypeOK /\ TypeOK' /\ sent[client] \in 0 .. 6
      /\ RecvMax \in Nat /\ RecvMax >= 2
  BY SessionAssumption, ServerAssumption, Following
  DEF Sound, Attended, Exchange, Demo, HeaderLen
<1>1. owner[fd] = client /\ pc = "scan" /\ Phase(client) = "open"
  BY FrameStep
<1>2. inp[client] # <<>> /\ k \in HeadersAt(FrameBuffer(fd))
  BY <1>1 DEF RecvFrame, FrameBuffer
<1>3. PICK buf \in Seq(Unit), rest \in Seq(Unit) :
        buf = FrameBuffer(fd) /\ Flow(client) = buf \o rest /\ Flow(client)' = rest
  BY <1>0, <1>1, FrameFlow
<1>4. buf = Take(inp[client], RecvMax) /\ buf # <<>>
  <2>1. inp[client] \in Seq(Unit)
    BY <1>0, FlowType
  <2>2. Len(inp[client]) \in Nat /\ Len(inp[client]) # 0
    BY <1>2, <2>1, LenProperties, EmptySeq
  <2>3. PICK m \in Nat : m = (IF Len(inp[client]) < RecvMax THEN Len(inp[client]) ELSE RecvMax)
    BY <1>0, <2>2
  <2>4. m \in 1 .. Len(inp[client])
    BY <1>0, <2>2, <2>3
  <2>5. buf = SubSeq(inp[client], 1, m)
    BY <1>1, <1>3, <2>3 DEF FrameBuffer, Take
  <2>6. Len(buf) = m
    BY <2>1, <2>4, <2>5, SubSeqProperties
  <2>7. buf # <<>>
    BY <2>4, <2>6, EmptySeq
  <2> QED
    BY <1>1, <1>3, <2>7 DEF FrameBuffer
<1>5. /\ Last(buf).pos = HeaderLen + Last(buf).kind.len
      /\ buf[1].item # Last(buf).item => merged'
  <2>1. PICK cut, two : /\ cut = (buf[1].pos # 1 \/ Last(buf).pos # HeaderLen + Last(buf).kind.len)
                        /\ two = (buf[1].item # Last(buf).item)
    OBVIOUS
  <2>2. fd \in FdsOf(client)
    BY <1>1 DEF FdsOf
  <2>3. Count(cut, two)
    BY <1>4, <2>1, <2>2 DEF CountServer
  <2>4. ~cut
    <3>1. cut => cuts' = cuts + 1
      BY <2>3 DEF Count
    <3> QED
      BY <3>1
  <2>5. merged' = (merged \/ two)
    BY <2>3 DEF Count
  <2> QED
    BY <2>1, <2>4, <2>5
<1>6. Flow(client) # <<>>
  <2> SUFFICES ASSUME Flow(client) = <<>> PROVE FALSE
    OBVIOUS
  <2>1. Parts(Flow(client), buf, rest)
    BY <1>3, JoinedParts DEF Joined
  <2>2. Len(buf) \in Nat /\ Len(rest) \in Nat /\ Len(<<>>) = 0
    BY <1>3, LenProperties
  <2>3. Len(buf) = 0
    BY <2>1, <2>2 DEF Parts
  <2> QED
    BY <1>3, <1>4, <2>3, EmptySeq
<1>7. PICK h \in 0 .. sent[client] : At(h)
  BY <1>6 DEF Exchange, Stuck
<1>8. h \in 1 .. 5 /\ h < sent[client] /\ sent[client] <= h + 2
      /\ (sent[client] = h + 2 => h = 3)
  <2>1. h # 0
    <3>1. replies # <<>>
      BY <1>1 DEF Demo
    <3>2. replies = Answered(Due(h))
      BY <1>1, <1>7 DEF At
    <3>3. Answered(0) = <<>>
      BY AnswersGrow
    <3> QED
      BY <3>1, <3>2, <3>3 DEF Due
  <2>2. h # sent[client]
    BY <1>6, <1>7 DEF At, Pending
  <2>3. sent[client] <= h + 1 \/ (h = 3 /\ sent[client] = 5)
    BY <1>7 DEF At
  <2> QED
    BY <1>0, <2>1, <2>2, <2>3
<1>9. PICK s \in 0 .. 7 : s = sent[client]
  BY <1>0
<1>10. /\ h \in 0 .. 6 /\ h < s /\ s <= h + 2
       /\ Joined(Pending(h, s), buf, rest)
  BY <1>3, <1>7, <1>8, <1>9 DEF At, Joined
<1>11. \/ buf = Item(h) /\ rest = Pending(h + 1, s)
       \/ s = h + 2 /\ buf = Item(h) \o Item(h + 1) /\ rest = <<>> /\ buf[1].item # Last(buf).item
  BY <1>4, <1>5, <1>10, WholeFrames
<1>12. PICK r \in Seq(Unit) : buf = Item(h) \o r
  <2>1. Item(h) \in Seq(Unit)
    BY <1>10, ItemUnits
  <2>2. CASE buf = Item(h)
    <3>1. buf = buf \o <<>>
      BY ConcatEmptySeq
    <3>2. buf = Item(h) \o <<>> /\ <<>> \in Seq(Unit)
      BY <2>2, <3>1
    <3> QED
      BY <3>2
  <2>3. CASE s = h + 2 /\ buf = Item(h) \o Item(h + 1)
    <3>1. PICK g \in 0 .. 6 : g = h + 1
      BY <1>8, <1>9, <2>3
    <3>2. PICK r \in Seq(Unit) : r = Item(g)
      BY ItemUnits
    <3>3. buf = Item(h) \o r
      BY <2>3, <3>1, <3>2
    <3> QED
      BY <3>3
  <2> QED
    BY <1>11, <2>2, <2>3
<1>13. PICK g \in 1 .. 6 : g = h
  BY <1>8
<1>14. /\ Kind(h) \in Kinds /\ HeadersAt(buf) = {Kind(h)} /\ Complete(buf, Kind(h))
       /\ Payload(buf, Kind(h)) = Body(h, Kind(h))
  BY <1>12, <1>13, FrameAtFront
<1>15. k = Kind(h)
  BY <1>2, <1>3, <1>14
<1>16. ~TooBig(k)
  <2>1. k.len \in Nat /\ ParseLimit \in Nat /\ k.len <= ParseLimit
    BY SessionAssumption, FramingAssumption DEF FrameKind
  <2> QED
    BY <2>1 DEF TooBig, Demo
<1>17. \/ Flow(client)' = Pending(h + 1, sent[client])
       \/ h = 3 /\ sent[client] = 5 /\ Flow(client)' = <<>> /\ merged'
  BY <1>3, <1>5, <1>8, <1>9, <1>11
<1> QED
  BY <1>3, <1>7, <1>8, <1>14, <1>15, <1>16, <1>17

\* A frame that is answered at once.
LEMMA FrameAnswered ==
  ASSUME Exchange, NEW h \in {1, 2, 4, 5}, At(h), h < sent[client], sent[client] \in Nat,
         UNCHANGED <<sent, cst, replies>>, pc # "send", pc' = "send",
         Flow(client)' = Pending(h + 1, sent[client]), Part(client)' = Nothing,
         [op |-> reply'.op, data |-> reply'.data] = Answer(Due(h + 1))
  PROVE  Exchange'
<1>1. PICK g : g = h + 1
  OBVIOUS
<1>2. g \in {2, 3, 5, 6} /\ Due(g) - 1 = Due(h)
  BY <1>1 DEF Due
<1>3. sent[client] <= g + 1
  BY <1>1 DEF At
<1>4. replies = Answered(Due(h))
  BY DEF At
<1>5. At(g)'
  BY <1>1, <1>2, <1>3, <1>4 DEF At
<1>6. g \in 0 .. sent'[client]
  BY <1>1
<1> QED
  BY <1>5, <1>6 DEF Exchange

LEMMA FrameExchange ==
  ASSUME Sound, Sound', Demo, Exchange, Reader, CountServer, CarryReply, UNCHANGED <<step, taken>>,
         step \in 1 .. 12, cuts = 0, cuts' = 0, NEW fd \in Fds, HandleFrame(fd)
  PROVE  Exchange'
<1>0. client \in Conns /\ TypeOK /\ cst[client] = "up" /\ sent[client] \in Nat
  <2>1. sent[client] \in 0 .. 6
    BY Following DEF Exchange, Demo
  <2> QED
    BY <2>1, SessionAssumption DEF Sound, Attended, Exchange
<1>1. ~FrameEof(fd)
  <2> SUFFICES ASSUME FrameEof(fd) PROVE FALSE
    OBVIOUS
  <2>1. owner[fd] = client
    BY SessionAssumption DEF FrameEof, Sound, Attended
  <2> QED
    BY <1>0, <2>1, NotGone DEF FrameEof
<1>2. PICK k \in Kinds :
        \/ ProtocolError(fd, k) \/ PayloadTooBig(fd, k)
        \/ WholeMessage(fd, k) \/ FirstFragment(fd, k) \/ Continuation(fd, k)
        \/ Ping(fd, k) \/ CloseOrUnknown(fd, k)
  BY <1>1 DEF HandleFrame
<1>3. RecvFrame(fd, k) /\ pc' \in {"loop", "scan", "send"}
  BY <1>2 DEF ProtocolError, PayloadTooBig, FrameRead, WholeMessage, FirstFragment,
              Continuation, Ping, CloseOrUnknown, Call, Resume
<1>4. /\ owner[fd] = client /\ pc = "scan" /\ UNCHANGED <<cst, unread, sent, replies, handshaken, owner>>
  <2>1. owner[fd] = client /\ pc = "scan" /\ UNCHANGED <<cst, unread, sent>>
    BY <1>3, FrameStep
  <2>2. UNCHANGED replies
    BY <2>1 DEF CarryReply
  <2> QED
    BY <1>3, <2>1, <2>2 DEF RecvFrame
<1>5. PICK h \in 1 .. 5 :
        /\ At(h) /\ h < sent[client] /\ k = Kind(h)
        /\ Complete(FrameBuffer(fd), k) /\ ~TooBig(k)
        /\ Payload(FrameBuffer(fd), k) = Body(h, k)
        /\ \/ Flow(client)' = Pending(h + 1, sent[client])
           \/ h = 3 /\ sent[client] = 5 /\ Flow(client)' = <<>> /\ merged'
  BY <1>3, FrameNext
<1>6. ~ProtocolError(fd, k) /\ ~PayloadTooBig(fd, k)
  BY <1>5 DEF ProtocolError, PayloadTooBig
<1>7. FdsOf(client) = {fd} /\ FdsOf(client)' = {fd}
  BY <1>0, <1>4, Behind DEF Sound, FdsOf
<1>8. Part(client) = IF h = 4 THEN Half ELSE Nothing
  BY <1>5 DEF At
<1>9. /\ frag_buffer \in [Fds -> Seq(Byte)]
      /\ frag_opcode \in [Fds -> {"cont", "text", "binary"}]
  BY <1>0 DEF TypeOK, MemberTypes
<1>10. UNCHANGED <<frag_buffer, frag_opcode>> => Part(client)' = Part(client)
  BY <1>0, <1>4, <1>7, ViewAt, ViewAtNext
<1>11. CASE h \in {1, 2}
  <2>1. k.op \in {"text", "binary"} /\ k.fin /\ Answer(Due(h + 1)) = [op |-> k.op, data |-> Body(h, k)]
    <3>1. CASE h = 1
      BY <1>5, <3>1, SessionAssumption DEF Kind, Items, Answer, Due, Expected
    <3>2. CASE h = 2
      BY <1>5, <3>2, SessionAssumption DEF Kind, Items, Answer, Due, Expected
    <3> QED
      BY <1>11, <3>1, <3>2
  <2>2. WholeMessage(fd, k)
    BY <1>2, <1>6, <2>1 DEF FirstFragment, Continuation, Ping, CloseOrUnknown
  <2>3. /\ pc' = "send" /\ reply' = Echo(k.op, Body(h, k)) /\ UNCHANGED <<frag_buffer, frag_opcode>>
    BY <1>5, <2>2 DEF WholeMessage, Call, Parsed
  <2>4. [op |-> reply'.op, data |-> reply'.data] = Answer(Due(h + 1))
    BY <2>1, <2>3 DEF Echo
  <2>5. Part(client)' = Nothing
    BY <1>8, <1>10, <1>11, <2>3
  <2> QED
    BY <1>0, <1>4, <1>5, <1>11, <2>3, <2>4, <2>5, FrameAnswered
<1>12. CASE h = 3
  <2>1. k = frag1 /\ k.op = "text" /\ ~k.fin
    BY <1>5, <1>12, SessionAssumption DEF Kind, Items
  <2>2. FirstFragment(fd, k)
    BY <1>2, <1>6, <2>1 DEF WholeMessage, Continuation, Ping, CloseOrUnknown
  <2>3. /\ frag_opcode' = [frag_opcode EXCEPT ![fd] = "text"]
        /\ frag_buffer' = [frag_buffer EXCEPT ![fd] = Body(3, frag1)]
        /\ pc' \in {"loop", "scan"}
    BY <1>5, <1>12, <2>1, <2>2 DEF FirstFragment, Store, Parsed, Resume
  <2>4. Part(client)' = Half
    <3>1. frag_opcode'[fd] = "text" /\ frag_buffer'[fd] = Body(3, frag1)
      BY <1>9, <2>3
    <3> QED
      BY <1>0, <1>7, <3>1, ViewAtNext DEF Half
  <2>5. replies = Answered(3) /\ Due(4) = 3
    BY <1>4, <1>5, <1>12 DEF At, Due
  <2>6. CASE Flow(client)' = Pending(4, sent[client])
    <3>1. 4 \in 0 .. sent'[client] /\ sent'[client] <= 5
      BY <1>0, <1>4, <1>5, <1>12 DEF At
    <3>2. At(4)'
      BY <1>4, <2>3, <2>4, <2>5, <2>6, <3>1 DEF At
    <3> QED
      BY <1>0, <1>4, <2>3, <3>1, <3>2 DEF Exchange
  <2>7. CASE sent[client] = 5 /\ Flow(client)' = <<>> /\ merged'
    <3>1. step = 9
      <4> SUFFICES ASSUME step # 9 PROVE FALSE
        OBVIOUS
      <4>1. SentBefore[step] = 5
        BY <1>0, <2>7 DEF Demo
      <4>2. ReadBefore[step] = 4
        BY <4>1, Following
      <4>3. taken = 8
        BY <4>2 DEF Reader
      <4>4. Len(replies) = 3
        BY <2>5, AnswersGrow
      <4>5. taken <= 2 * Len(replies)
        <5>1. taken <= Stock /\ Stock <= 2 * Len(replies) /\ taken \in Nat /\ Stock = 2 * Len(replies)
          BY <1>0 DEF Demo, SessionType, Stock
        <5> QED
          BY <4>4, <5>1
      <4> QED
        BY <4>3, <4>4, <4>5
    <3>2. Stuck'
      BY <1>4, <2>3, <2>4, <2>5, <2>7, <3>1 DEF Stuck
    <3> QED
      BY <1>0, <1>4, <2>3, <3>2 DEF Exchange
  <2> QED
    BY <1>5, <1>12, <2>6, <2>7
<1>13. CASE h = 4
  <2>1. k = frag2 /\ k.op = "cont" /\ k.fin
    BY <1>5, <1>13, SessionAssumption DEF Kind, Items
  <2>2. Continuation(fd, k)
    BY <1>2, <1>6, <2>1 DEF WholeMessage, FirstFragment, Ping, CloseOrUnknown
  <2>3. frag_opcode[fd] = "text" /\ frag_buffer[fd] = Body(3, frag1)
    <3>1. Half = IF frag_opcode[fd] = "cont" THEN Nothing
                 ELSE [op |-> frag_opcode[fd], data |-> frag_buffer[fd]]
      BY <1>0, <1>7, <1>8, <1>13, ViewAt
    <3>2. Half.op = "text" /\ Half.data = Body(3, frag1) /\ Nothing.op = "cont"
      BY DEF Half, Nothing
    <3> QED
      BY <3>1, <3>2
  <2>4. /\ frag_opcode' = [frag_opcode EXCEPT ![fd] = "cont"]
        /\ pc' = "send" /\ reply' = Echo("text", Body(3, frag1) \o Body(4, frag2))
    <3>1. PICK e : e = OnMessage("text", Body(3, frag1) \o Body(4, frag2))
      OBVIOUS
    <3>2. <<e>> # <<>>
      <4>1. Len(<<e>>) = 1 /\ Len(<<>>) = 0
        OBVIOUS
      <4> QED
        BY <4>1
    <3> QED
      BY <1>5, <1>13, <2>1, <2>2, <2>3, <3>1, <3>2 DEF Continuation, Assembled, Store, Call, Parsed
  <2>5. [op |-> reply'.op, data |-> reply'.data] = Answer(Due(h + 1))
    BY <1>13, <2>4 DEF Echo, Answer, Due, Expected
  <2>6. Part(client)' = Nothing
    BY <1>0, <1>7, <1>9, <2>4, ViewAtNext
  <2> QED
    BY <1>0, <1>4, <1>5, <1>13, <2>4, <2>5, <2>6, FrameAnswered
<1>14. CASE h = 5
  <2>1. k = ping /\ k.op = "ping"
    BY <1>5, <1>14, SessionAssumption DEF Kind, Items
  <2>2. Ping(fd, k)
    BY <1>2, <1>6, <2>1 DEF WholeMessage, FirstFragment, Continuation, CloseOrUnknown
  <2>3. pc' = "send" /\ reply' = Pong(Body(5, ping)) /\ UNCHANGED <<frag_buffer, frag_opcode>>
    BY <1>5, <1>14, <2>1, <2>2 DEF Ping, Call
  <2>4. [op |-> reply'.op, data |-> reply'.data] = Answer(Due(h + 1))
    BY <1>14, <2>3 DEF Pong, Answer, Due, Expected
  <2>5. Part(client)' = Nothing
    BY <1>8, <1>10, <1>14, <2>3
  <2> QED
    BY <1>0, <1>4, <1>5, <1>14, <2>3, <2>4, <2>5, FrameAnswered
<1> QED
  BY <1>11, <1>12, <1>13, <1>14

LEMMA SendExchange ==
  ASSUME Sound, Demo, Exchange, CarryReply, UNCHANGED step, merged => merged',
         step \in 1 .. 12, Send
  PROVE  Exchange'
<1>0. /\ client \in Conns /\ cst[client] = "up" /\ sent[client] \in 0 .. 6
      /\ unread \in [Conns -> 0 .. SendCap] /\ SendCap \in Nat
  <2>1. sent[client] \in 0 .. 6
    BY Following DEF Exchange, Demo
  <2> QED
    BY <2>1, SessionAssumption, ServerAssumption DEF Sound, Attended, TypeOK, SocketTypes, Exchange
<1>1. pc = "send" /\ cur \in Fds /\ owner[cur] = client
  BY SendStep
<1>2. PICK h \in 1 .. 6 :
        /\ At(h) /\ h <= sent[client] /\ h # 4
        /\ [op |-> reply.op, data |-> reply.data] = Answer(Due(h))
        /\ replies = Answered(Due(h) - 1)
  BY <1>0, <1>1 DEF Exchange, Stuck, At
<1>3. PICK n \in 0 .. 4 : n + 1 = Due(h)
  BY <1>2 DEF Due
<1>4. reply.op # "close"
  <2>1. Answer(Due(h)).op \in {"http", "text", "binary", "pong"}
    BY <1>3 DEF Answer, Expected
  <2> QED
    BY <1>2, <2>1
<1>5. ~SigPipe
  BY <1>0, <1>1 DEF SigPipe
<1>6. ~SendReturns("lost")
  BY <1>0, <1>1 DEF SendReturns
<1>7. ~NotOpened /\ ~Replied("lost") /\ ~Closed("lost")
  BY <1>6 DEF NotOpened, Replied, Closed
<1>8. ~Closed("send")
  BY <1>4, SendStep DEF NotOpened, Closed, SendReturns
<1>9. Opened \/ Replied("send")
  BY <1>5, <1>7, <1>8 DEF Send
<1>10. /\ UNCHANGED <<cst, inp, todo, sent>> /\ pc' \in {"loop", "scan"}
       /\ Part(client)' = Part(client)
  BY <1>9, SendStep
<1>11. Flow(client)' = Flow(client)
  BY <1>1, <1>10, SameFlow
<1>12. replies' = Answered(Due(h))
  <2>1. unread' = [unread EXCEPT ![client] = @ + 1]
    BY <1>1, <1>9 DEF Opened, Replied, SendReturns
  <2>2. unread'[client] = unread[client] + 1 /\ unread[client] \in Nat
    BY <1>0, <2>1
  <2>3. unread' # unread
    BY <2>2
  <2>4. replies' = Append(Answered(n), Answer(n + 1))
    <3>1. replies = Answered(n)
      BY <1>2, <1>3
    <3> QED
      BY <1>2, <1>3, <2>3, <3>1 DEF CarryReply
  <2>5. Append(Answered(n), Answer(n + 1)) = Answered(n + 1)
    <3>1. n \in Nat
      OBVIOUS
    <3> QED
      BY <3>1, AnswersGrow, Zenon
  <2> QED
    BY <1>3, <2>4, <2>5
<1>13. At(h)'
  BY <1>2, <1>10, <1>11, <1>12 DEF At
<1>14. h \in 0 .. sent'[client]
  BY <1>0, <1>2, <1>10
<1> QED
  BY <1>0, <1>10, <1>13, <1>14 DEF Exchange

\* The server's program.
LEMMA ServerLockstep ==
  ASSUME Sound, Sound', Delivery, Demo, Lockstep, ServerProgram
  PROVE  Lockstep'
<1>1. /\ UNCHANGED <<step, exit, taken, printed>> /\ CountServer /\ CarryReply
      /\ cuts \in Nat /\ merged \in BOOLEAN
  BY DEF ServerProgram, Demo, SessionType
<1>2. (cuts' = 0 => cuts = 0) /\ (merged => merged')
  BY <1>1, CountedSo DEF Count
<1>3. ASSUME step \in 1 .. 12, cuts' = 0
      PROVE  Exchange'
  <2>1. Exchange /\ Reader /\ cuts = 0
    BY <1>2, <1>3 DEF Lockstep
  <2>2. CASE Run \/ Select \/ Accept
    BY <1>1, <1>2, <1>3, <2>1, <2>2, QuietExchange
  <2>3. CASE Stop
    BY <2>3 DEF Stop, Demo
  <2>4. CASE Send
    BY <1>1, <1>2, <1>3, <2>1, <2>4, SendExchange
  <2>5. ASSUME NEW fd \in Fds, HandshakeEof(fd) \/ HandshakeRecv(fd)
        PROVE  Exchange'
    BY <1>1, <1>2, <1>3, <2>1, <2>5, HandshakeExchange DEF Sound, Attended
  <2>6. ASSUME NEW fd \in Fds, HandleFrame(fd)
        PROVE  Exchange'
    BY <1>1, <1>3, <2>1, <2>6, FrameExchange
  <2> QED
    BY <2>2, <2>3, <2>4, <2>5, <2>6 DEF ServerProgram, ServerStep
<1>4. ASSUME step \in 1 .. 12, cuts' = 0
      PROVE  Reader'
  BY <1>1, <1>2, <1>4 DEF Lockstep, Reader
<1> QED
  BY <1>1, <1>2, <1>3, <1>4 DEF Lockstep

-----------------------------------------------------------------------------
(* The client's steps.                                                     *)

\* Replies there are, when the server has dealt with h items.
LEMMA RepliesAt ==
  ASSUME NEW h \in Nat, At(h)
  PROVE  \/ pc = "send" /\ Due(h) > 0 /\ Len(replies) = Due(h) - 1 /\ replies = Answered(Due(h) - 1)
         \/ pc # "send" /\ Len(replies) = Due(h) /\ replies = Answered(Due(h))
<1>1. Due(h) \in Nat /\ (h # 0 => Due(h) > 0)
  BY DEF Due
<1>2. CASE pc = "send"
  <2>1. Due(h) - 1 \in Nat /\ replies = Answered(Due(h) - 1)
    BY <1>1, <1>2 DEF At
  <2>2. Len(Answered(Due(h) - 1)) = Due(h) - 1
    BY <2>1, AnswersGrow
  <2> QED
    BY <1>1, <1>2, <2>1, <2>2
<1>3. CASE pc # "send"
  <2>1. Len(Answered(Due(h))) = Due(h)
    BY <1>1, AnswersGrow
  <2> QED
    BY <1>3, <2>1 DEF At
<1> QED
  BY <1>2, <1>3

\* While the connection is up there is all to read that was written.
LEMMA StockUp ==
  ASSUME Demo, cst[client] = "up"
  PROVE  Stock = 2 * Len(replies) /\ taken <= 2 * Len(replies) /\ taken \in Nat
         /\ Len(replies) \in Nat /\ sent[client] = SentBefore[step]
<1>1. reset # "come"
  BY DEF Demo
<1>2. Len(replies) \in Nat
  BY LenProperties DEF Demo, SessionType
<1> QED
  BY <1>1, <1>2 DEF Demo, SessionType, Stock

\* connect() puts client and server in step.
LEMMA ConnectLockstep ==
  ASSUME Sound, Delivery, Demo, Lockstep, SConnect
  PROVE  Lockstep'
<1>1. CASE UNCHANGED <<vars, step>>
  BY <1>1 DEF SConnect, Lockstep
<1>2. CASE Connect(client) /\ step' = 1 /\ UNCHANGED exit
  <2>0. client \in Conns /\ cst[client] = "new" /\ sent[client] = 0 /\ step = 0 /\ exit = "no"
        /\ UNCHANGED <<replies, taken, printed, cuts, merged>> /\ printed = <<>> /\ TypeOK
    BY <1>2, SessionAssumption DEF SConnect, Connect, Demo, Lockstep, Sound, Attended
  <2>1. Flow(client) = <<>>
    <3> SUFFICES ASSUME Flow(client) # <<>> PROVE FALSE
      OBVIOUS
    <3>1. Flow(client) \in Seq(Unit)
      BY <2>0, FlowType
    <3>2. Flow(client)[1] \in Range(Flow(client)) /\ Flow(client)[1] \in Unit
      BY <3>1, EmptySeq, LenProperties DEF Range
    <3>3. Flow(client)[1].item < 0
      BY <2>0, <3>2 DEF Delivery, Conveyed, Flows
    <3> QED
      BY <3>2, <3>3 DEF Unit
  <2>2. FdsOf(client) = {}
    <3>1. \A fd \in Fds : owner[fd] # client
      BY <2>0, Behind DEF Sound
    <3> QED
      BY <3>1 DEF FdsOf
  <2>3. Phase(client) = "none" /\ Part(client) = Nothing
    BY <2>0, <2>2, ViewOff
  <2>4. replies = <<>> /\ taken = 0
    <3>1. replies = <<>>
      BY <2>3 DEF Demo
    <3>2. Len(<<>>) = 0
      OBVIOUS
    <3> QED
      BY <3>1, <3>2 DEF Demo, SessionType, Stock
  <2>5. pc \notin {"send", "dead"}
    <3>1. pc \in {"send", "dead"} => cur \in Fds /\ owner[cur] = client
      BY SessionAssumption DEF Sound, Attended
    <3> QED
      BY <2>2, <3>1 DEF FdsOf
  <2>6. /\ cst'[client] = "up" /\ UNCHANGED <<inp, todo, sent, pc, cur, owner, rbuf>>
        /\ Part(client)' = Part(client)
    BY <1>2, ClientConnection DEF Connect, locals
  <2>7. Flow(client)' = Flow(client)
    BY <2>6 DEF Flow, Reading
  <2>8. replies' = Answered(Due(0))
    BY <2>0, <2>4, AnswersGrow DEF Due
  <2>9. At(0)'
    BY <2>0, <2>1, <2>3, <2>5, <2>6, <2>7, <2>8 DEF At, Pending
  <2>10. Exchange'
    BY <2>0, <2>5, <2>6, <2>9 DEF Exchange
  <2>11. Reader'
    <3>1. Shown(0 - 1) = <<>>
      BY DEF Shown
    <3> QED
      BY <1>2, <2>0, <2>4, <3>1 DEF Reader, ReadBefore
  <2> QED
    BY <1>2, <2>10, <2>11 DEF Lockstep
<1> QED
  BY <1>1, <1>2 DEF SConnect

\* The client sends when it has the reply to what it sent before; only the
\* second fragment follows the first at once.
LEMMA SendLockstep ==
  ASSUME Sound, Delivery, Demo, Lockstep, SSend
  PROVE  Lockstep'
<1>1. step \in Sends /\ exit = "no" /\ UNCHANGED <<replies, taken, printed, cuts, merged>>
      /\ step \in 1 .. 12 /\ step # 9
  BY ScriptSends DEF SSend, Sends
<1> SUFFICES ASSUME cuts = 0 PROVE Lockstep'
  <2>1. step' # 0
    BY <1>1 DEF SSend
  <2> QED
    BY <1>1, <2>1 DEF Lockstep
<1>2. Exchange /\ Reader /\ cst[client] = "up"
  BY <1>1 DEF Lockstep, Exchange
<1>3. /\ SendItem(client, Script[step].kind) /\ Script[step].kind = Kind(SentBefore[step])
      /\ step' = step + 1 /\ exit' = "no"
  BY <1>1, <1>2, ScriptSends DEF SSend
<1>4. PICK s \in 0 .. 6 : s = sent[client] /\ s = SentBefore[step]
  BY <1>1, <1>2, StockUp, Following
<1>5. client \in Conns /\ TypeOK
  BY SessionAssumption DEF Sound, Attended
<1>6. /\ todo[client] = <<>> /\ todo'[client] = Item(s) /\ sent'[client] = s + 1
      /\ UNCHANGED <<inp, cst, pc, cur, owner, rbuf, reply>> /\ Part(client)' = Part(client)
  <2>1. todo[client] = <<>> /\ todo' = [todo EXCEPT ![client] = Item(s)]
        /\ sent' = [sent EXCEPT ![client] = @ + 1]
        /\ UNCHANGED <<inp, cst, pc, cur, owner, rbuf, reply>>
    BY <1>3, <1>4 DEF SendItem, Item, locals
  <2>2. Part(client)' = Part(client)
    BY <1>3, ClientConnection
  <2> QED
    BY <1>4, <1>5, <2>1, <2>2 DEF TypeOK, SocketTypes
<1>7. PICK h \in 0 .. s : At(h)
  BY <1>1, <1>2, <1>4 DEF Exchange, Stuck
<1>8. h = s \/ (h = 3 /\ s = 4)
  <2>1. ReadBefore[step] <= Due(h)
    <3>1. taken = 2 * ReadBefore[step] /\ taken <= 2 * Len(replies) /\ Len(replies) \in Nat
      BY <1>2, StockUp DEF Reader
    <3>2. Len(replies) <= Due(h) /\ Due(h) \in Nat
      BY <1>7, RepliesAt DEF Due
    <3>3. ReadBefore[step] \in Nat
      BY <1>1, Following
    <3> QED
      BY <3>1, <3>2, <3>3
  <2>2. ReadBefore[step] = Due(s)
    <3>1. \A k \in Sends : ReadBefore[k] = Due(SentBefore[k])
      BY DEF Sends, SentBefore, ReadBefore, Due
    <3> QED
      BY <1>1, <1>4, <3>1
  <2> QED
    BY <2>1, <2>2 DEF Due
<1>9. Flow(client)' = Pending(h, s + 1)
  <2>1. PICK f \in Seq(Unit), a \in Seq(Unit), b \in Seq(Unit) :
          f = Reading(client) /\ a = inp[client] /\ b = Item(s)
    BY <1>4, <1>5, FlowType, ItemUnits
  <2>2. Reading(client)' = f /\ inp'[client] = a
    BY <1>6, <2>1 DEF Reading
  <2>3. Flow(client)' = f \o (a \o b)
    BY <1>6, <2>1, <2>2 DEF Flow
  <2>4. Flow(client) = f \o a
    <3>1. a \o <<>> = a
      BY ConcatEmptySeq
    <3>2. todo[client] = <<>>
      BY <1>6
    <3>3. inp[client] \o todo[client] = a
      BY <2>1, <3>1, <3>2
    <3> QED
      BY <2>1, <3>3 DEF Flow
  <2>5. Flow(client)' = Flow(client) \o b
    <3>1. (f \o a) \o b = f \o (a \o b)
      BY <2>1, UnitsAssociate
    <3> QED
      BY <2>3, <2>4, <3>1
  <2>6. Flow(client) = Pending(h, s)
    BY <1>4, <1>7 DEF At
  <2>7. CASE h = s
    <3>1. <<>> \o b = b
      BY ConcatEmptySeq
    <3> QED
      BY <2>1, <2>5, <2>6, <2>7, <3>1 DEF Pending
  <2>8. CASE h = 3 /\ s = 4
    <3>1. Pending(3, 4) = Item(3) /\ Pending(3, 5) = Item(3) \o Item(4)
      BY DEF Pending
    <3> QED
      BY <2>1, <2>5, <2>6, <2>8, <3>1
  <2> QED
    BY <1>8, <2>7, <2>8
<1>10. At(h)'
  <2>1. sent'[client] <= h + 1 \/ (h = 3 /\ sent'[client] = 5)
    BY <1>6, <1>8
  <2> QED
    BY <1>1, <1>6, <1>7, <1>9, <2>1 DEF At
<1>11. Exchange'
  <2>1. h \in 0 .. sent'[client]
    BY <1>6
  <2> QED
    BY <1>2, <1>6, <1>10, <2>1 DEF Exchange
<1>12. ReadBefore[step'] = ReadBefore[step]
  BY <1>1, <1>3, ScriptTables
<1>13. Reader'
  BY <1>1, <1>2, <1>3, <1>12 DEF Reader
<1>14. step = 12 => printed = Expected
  <2>1. Shown(4) = Expected
    BY DEF Shown, Expected
  <2> QED
    BY <1>2, <2>1 DEF Reader, ReadBefore
<1> QED
  BY <1>1, <1>3, <1>11, <1>13, <1>14 DEF Lockstep

\* In a recv the client has sent one item more than those it has replies to, or,
\* of the fragments, two.
LEMMA ReplyAwaited ==
  ASSUME NEW k \in Receives
  PROVE  /\ k \in 1 .. 12 /\ SentBefore[k] \in 1 .. 6 /\ ReadBefore[k] \in 0 .. 4
         /\ Due(SentBefore[k]) = ReadBefore[k] + 1
         /\ k # 2 => /\ Script[k].op # "http" /\ ReadBefore[k] \in 1 .. 4
                     /\ Expected[ReadBefore[k]].op = Script[k].op
         /\ k = 2 => Script[k].op = "http" /\ ReadBefore[k] = 0
<1>1. k \in 1 .. 12 /\ SentBefore[k] \in 1 .. 6 /\ ReadBefore[k] \in 0 .. 4
  BY DEF Receives, SentBefore, ReadBefore
<1>2. Due(SentBefore[k]) = ReadBefore[k] + 1
  BY DEF Receives, SentBefore, ReadBefore, Due
<1>3. k # 2 => /\ Script[k].op # "http" /\ ReadBefore[k] \in 1 .. 4
               /\ Expected[ReadBefore[k]].op = Script[k].op
  BY DEF Receives, ReadBefore, Script, Recv, Send_, Expected
<1>4. k = 2 => Script[k].op = "http" /\ ReadBefore[k] = 0
  BY DEF ReadBefore, Script, Recv, Send_
<1> QED
  BY <1>1, <1>2, <1>3, <1>4

\* No more is written to a client in recv than the reply it waits for.
LEMMA OneReply ==
  ASSUME Demo, step \in Receives, Exchange, Reader, taken < Stock
  PROVE  /\ \E h \in 0 .. sent[client] : At(h)
         /\ Len(replies) = ReadBefore[step] + 1 /\ Stock = 2 * Len(replies)
         /\ replies[ReadBefore[step] + 1] = Answer(ReadBefore[step] + 1)
<1>1. /\ Stock = 2 * Len(replies) /\ Len(replies) \in Nat /\ sent[client] = SentBefore[step]
      /\ taken = 2 * ReadBefore[step]
  BY StockUp DEF Exchange, Reader
<1>2. PICK r \in 0 .. 4 : r = ReadBefore[step]
  BY ReplyAwaited
<1>3. ~Stuck
  <2>1. ASSUME Stuck PROVE FALSE
    <3>1. Len(replies) = 3
      BY <2>1, AnswersGrow DEF Stuck
    <3>2. ReadBefore[step] = 3
      BY <2>1 DEF Stuck, ReadBefore
    <3> QED
      BY <1>1, <3>1, <3>2
  <2> QED
    BY <2>1
<1>4. PICK h \in 0 .. sent[client] : At(h)
  BY <1>3 DEF Exchange
<1>5. PICK m \in Nat : m <= Due(h) /\ Len(replies) = m /\ replies = Answered(m)
  BY <1>4, RepliesAt DEF Due
<1>6. Due(h) <= r + 1
  <2>1. PICK s \in 1 .. 6 : s = sent[client] /\ Due(s) = r + 1
    BY <1>1, <1>2, ReplyAwaited
  <2> QED
    BY <2>1 DEF Due
<1>7. m = r + 1
  <2>1. Due(h) \in Int
    BY DEF Due
  <2> QED
    BY <1>1, <1>2, <1>5, <1>6, <2>1
<1>8. Answered(m)[r + 1] = Answer(r + 1)
  <2>1. r + 1 \in 1 .. m
    BY <1>7
  <2> QED
    BY <2>1, AnswersGrow
<1> QED
  BY <1>1, <1>2, <1>4, <1>5, <1>7, <1>8

\* While TCP cuts nothing a recv returns one reply, and it is the one main()
\* prints next; the first is the response, which it does not print.
LEMMA RecvLockstep ==
  ASSUME Sound, Demo, Lockstep, SRecv
  PROVE  Lockstep'
<1>1. /\ step \in Receives /\ exit = "no" /\ step' = step + 1
      /\ UNCHANGED <<vars, exit, replies, reset, stock>>
  BY ScriptReceives DEF SRecv
<1>2. step \in 1 .. 12 /\ step' \notin {0, 13}
  BY <1>1 DEF Receives
<1> SUFFICES ASSUME cuts' = 0 PROVE Exchange' /\ Reader'
  BY <1>2 DEF Lockstep
<1>3. PICK n \in 1 .. Stock - taken :
        /\ taken' = taken + n
        /\ \E out \in Printed(n) : printed' = printed \o out
        /\ Count(taken % 2 = 1 \/ n % 2 = 1, n > 2)
  BY DEF SRecv
<1>4. cuts = 0 /\ n % 2 # 1
  BY <1>3 DEF Count, Demo, SessionType
<1>5. Exchange /\ Reader
  BY <1>2, <1>4 DEF Lockstep
<1>6. PICK r \in 0 .. 4 : r = ReadBefore[step]
  BY <1>1, ReplyAwaited
<1>7. taken = 2 * r /\ printed = Shown(r - 1)
  BY <1>5, <1>6 DEF Reader
<1>8. taken < Stock /\ Stock \in Int
  <2>1. Stock \in Int
    BY <1>5, StockUp DEF Exchange
  <2> QED
    BY <1>3, <1>7, <2>1
<1>9. /\ \E h \in 0 .. sent[client] : At(h)
      /\ Stock = 2 * (r + 1) /\ replies[r + 1] = Answer(r + 1)
  BY <1>1, <1>5, <1>6, <1>8, OneReply
<1>10. n = 2 /\ taken' = 2 * (r + 1)
  BY <1>3, <1>4, <1>7, <1>9
<1>11. printed' = Shown(r)
  <2>1. CASE step = 2
    <3>1. Script[step].op = "http" /\ r = 0
      BY <1>1, <1>6, <2>1, ReplyAwaited
    <3>2. printed' = printed \o <<>>
      BY <1>3, <3>1 DEF Printed
    <3>3. Shown(0 - 1) \o <<>> = Shown(0 - 1) /\ Shown(0 - 1) = Shown(0)
      BY DEF Shown
    <3> QED
      BY <1>7, <3>1, <3>2, <3>3
  <2>2. CASE step # 2
    <3>1. Script[step].op # "http" /\ r \in 1 .. 4 /\ Expected[r].op = Script[step].op
      BY <1>1, <1>6, <2>2, ReplyAwaited
    <3>2. taken % 2 = 0 /\ taken \div 2 = r
      BY <1>7
    <3>3. replies[taken \div 2 + 1] = Expected[r]
      BY <1>9, <3>1, <3>2 DEF Answer
    <3>4. Printed(n) = {<<Expected[r]>>}
      BY <1>10, <3>1, <3>2, <3>3 DEF Printed
    <3>5. printed' = Shown(r - 1) \o <<Expected[r]>>
      BY <1>3, <1>7, <3>4
    <3>6. PICK q \in 0 .. 3 : q = r - 1 /\ r = q + 1
      BY <3>1
    <3>7. Shown(q) \o <<Expected[q + 1]>> = Shown(q + 1)
      BY ShownGrows
    <3> QED
      BY <3>5, <3>6, <3>7
  <2> QED
    BY <2>1, <2>2
<1>12. ReadBefore[step'] = r + 1
  BY <1>1, <1>6, ScriptTables
<1>13. Reader'
  BY <1>1, <1>10, <1>11, <1>12 DEF Reader
<1>14. PICK h \in 0 .. sent[client] : At(h)
  BY <1>9
<1>15. At(h)'
  <2>1. UNCHANGED <<sent, pc, reply, replies, inp, todo, owner, cur, rbuf, frag_opcode,
                    frag_buffer, handshaken, cst>>
    BY <1>1 DEF vars, sockets, config, locals, maps
  <2>2. Flow(client)' = Flow(client) /\ Part(client)' = Part(client)
    BY <2>1 DEF Flow, Reading, Part, Phase, FdsOf
  <2> QED
    BY <1>14, <2>1, <2>2 DEF At
<1>16. UNCHANGED <<cst, pc, sent>>
  BY <1>1 DEF vars, sockets, config, locals
<1> QED
  BY <1>5, <1>13, <1>15, <1>16 DEF Exchange

\* Lockstep is inductive.
LEMMA LockstepInit == SInit => Lockstep
  BY DEF SInit, Lockstep

LEMMA LockstepNext ==
  ASSUME Sound, Sound', Delivery, Demo, Lockstep, [SNext]_svars
  PROVE  Lockstep'
<1>1. CASE UNCHANGED svars
  <2>1. /\ UNCHANGED <<step, exit, replies, taken, printed, cuts, merged>>
        /\ UNCHANGED <<sent, pc, reply, inp, todo, owner, cur, rbuf, frag_opcode,
                       frag_buffer, handshaken, cst>>
    BY <1>1 DEF svars, vars, sockets, config, locals, maps
  <2>2. Flow(client)' = Flow(client) /\ Part(client)' = Part(client)
    BY <2>1 DEF Flow, Reading, Part, Phase, FdsOf
  <2>3. ASSUME Exchange PROVE Exchange'
    <3>1. pc # "dead"
      BY <2>3 DEF Exchange
    <3> QED
      BY <2>1, <2>2, <2>3, <3>1, SamePlace
  <2> QED
    BY <2>1, <2>3 DEF Lockstep, Reader
<1>2. CASE ServerProgram
  BY <1>2, ServerLockstep
<1>3. CASE ResetArrives
  <2>1. cst[client] # "up"
    BY <1>3 DEF ResetArrives, Demo
  <2> QED
    BY <1>3, <2>1 DEF ResetArrives, Lockstep, Exchange
<1>4. CASE Network /\ ~ResetArrives
  <2>1. /\ Deliver(client)
        /\ UNCHANGED <<step, exit, replies, taken, printed, cuts, merged>>
    BY <1>4 DEF Network
  <2>2. client \in Conns /\ TypeOK
    BY SessionAssumption DEF Sound, Attended
  <2>3. Flow(client)' = Flow(client)
    BY <2>1, <2>2, FlowDelivered
  <2>4. Part(client)' = Part(client) /\ UNCHANGED <<cst, sent, pc, reply>>
    BY <2>1, ClientConnection DEF Deliver, locals
  <2>5. ASSUME Exchange PROVE Exchange'
    <3>1. pc # "dead" /\ pc' = pc
      BY <2>1, <2>5 DEF Exchange, Deliver, locals
    <3> QED
      BY <2>1, <2>3, <2>4, <2>5, <3>1, SamePlace
  <2> QED
    BY <2>1, <2>5 DEF Lockstep, Reader
<1>5. CASE SConnect
  BY <1>5, ConnectLockstep
<1>6. CASE SSend
  BY <1>6, SendLockstep
<1>7. CASE SRecv
  BY <1>7, RecvLockstep
<1>8. CASE SRecvFails
  <2>1. step \in Receives /\ step \in 1 .. 12 /\ step' # 0 /\ cst[client] = "closed" /\ cuts' = cuts
    BY <1>8, ScriptReceives DEF SRecvFails, Receives
  <2>2. cuts' # 0
    BY <2>1 DEF Lockstep, Exchange
  <2> QED
    BY <2>1, <2>2 DEF Lockstep
<1>9. CASE SClose
  <2>1. step = 13 /\ exit' = "done" /\ UNCHANGED <<step, printed, cuts>>
    BY <1>9, ScriptTables DEF SClose
  <2> QED
    BY <2>1 DEF Lockstep
<1>10. CASE SRejects
  <2>1. exit # "no" /\ UNCHANGED <<step, exit, printed, cuts>>
    BY <1>10 DEF SRejects
  <2>2. ~(step \in 1 .. 12 /\ cuts = 0)
    BY <2>1 DEF Lockstep, Reader
  <2> QED
    BY <2>1, <2>2 DEF Lockstep
<1> QED
  BY <1>1, <1>2, <1>3, <1>4, <1>5, <1>6, <1>7, <1>8, <1>9, <1>10 DEF SNext, ClientProgram

-----------------------------------------------------------------------------
(* What the demo shows.                                                    *)

\* When nothing is on its way the server has dealt with everything.
LEMMA PendingSome ==
  ASSUME NEW s \in 0 .. 6, NEW h \in 0 .. s, s <= h + 1 \/ (h = 3 /\ s = 5),
         Pending(h, s) = <<>>
  PROVE  h = s
<1>1. \A n \in 0 .. 6 : Item(n) \in Seq(Unit) /\ Len(Item(n)) > 0
  <2> SUFFICES ASSUME NEW n \in 0 .. 6 PROVE Item(n) \in Seq(Unit) /\ Len(Item(n)) > 0
    OBVIOUS
  <2>1. PICK a, k : a \in Seq(Unit) /\ a = Item(n) /\ Units(a, n, k)
    BY ItemUnits
  <2>2. Len(a) = HeaderLen + k.len /\ k.len \in Nat
    BY <2>1 DEF Units
  <2> QED
    BY <2>1, <2>2 DEF HeaderLen
<1>2. CASE s = h + 1
  <2>1. Pending(h, s) = Item(h) /\ h \in 0 .. 6
    BY <1>2 DEF Pending
  <2> QED
    BY <1>1, <2>1, EmptySeq
<1>3. CASE h = 3 /\ s = 5
  <2>1. PICK a \in Seq(Unit), b \in Seq(Unit) : a = Item(3) /\ b = Item(4) /\ Len(a) > 0
    BY <1>1
  <2>2. PICK c \in Seq(Unit) : c = a \o b /\ Len(c) = Len(a) + Len(b)
    BY ConcatProperties
  <2>3. c = <<>>
    BY <1>3, <2>1, <2>2 DEF Pending
  <2>4. Len(a) \in Nat /\ Len(b) \in Nat /\ Len(c) = 0
    BY <2>3, LenProperties
  <2> QED
    BY <2>1, <2>2, <2>4
<1> QED
  BY <1>2, <1>3

\* Where both wait, the client has been sent every reply it is owed but the one
\* that is lost.
LEMMA WaitsStuck ==
  ASSUME Sound, Demo, Lockstep, Waiting, cuts = 0
  PROVE  step = 9 /\ merged /\ Part(client) = Half
<1>1. step \in Receives /\ step \in 1 .. 12
  BY ScriptReceives DEF Waiting, Receives
<1>2. Exchange /\ Reader
  BY <1>1 DEF Lockstep
<1>3. PICK s \in 1 .. 6, r \in 0 .. 4 :
        s = sent[client] /\ s = SentBefore[step] /\ r = ReadBefore[step] /\ Due(s) = r + 1
  BY <1>1, <1>2, StockUp, ReplyAwaited DEF Exchange
<1>4. Flow(client) = <<>> /\ pc # "send"
  <2>1. <<>> \o (<<>> \o <<>>) = <<>>
    BY EmptySeq, ConcatEmptySeq
  <2> QED
    BY <2>1 DEF Waiting, Flow, Reading
<1>5. Len(replies) = r
  <2>1. taken = 2 * r /\ taken = 2 * Len(replies) /\ Len(replies) \in Nat
    BY <1>2, <1>3, StockUp DEF Waiting, Reader, Exchange
  <2> QED
    BY <2>1
<1>6. Stuck
  <2> SUFFICES ASSUME NEW h \in 0 .. s, At(h) PROVE FALSE
    BY <1>2, <1>3 DEF Exchange
  <2>1. h = s
    BY <1>3, <1>4, PendingSome DEF At
  <2>2. Len(replies) = Due(s)
    BY <1>4, <2>1, RepliesAt
  <2> QED
    BY <1>3, <1>5, <2>2
<1> QED
  BY <1>6 DEF Stuck

\* The replies printed so far are the first of those expected.
LEMMA ShownFirst ==
  ASSUME NEW n \in -1 .. 4
  PROVE  IsPrefix(Shown(n), Expected)
<1>1. PICK S : S = {Expected[i] : i \in 1 .. 4}
  OBVIOUS
<1>2. Expected \in Seq(S) /\ Len(Expected) = 4
  <2>1. PICK a, b, c, d : Expected = <<a, b, c, d>>
    BY DEF Expected
  <2>2. a \in S /\ b \in S /\ c \in S /\ d \in S
    BY <1>1, <2>1
  <2> QED
    BY <2>1, <2>2
<1>3. PICK m \in 0 .. 4 : Shown(n) \in Seq(S) /\ Shown(n) = Shown(m) /\ Len(Shown(n)) = m
  <2>1. CASE n = -1
    <3>1. Shown(n) = <<>> /\ Shown(0) = <<>>
      BY <2>1 DEF Shown
    <3> QED
      BY <3>1, EmptySeq
  <2>2. CASE n # -1
    <3>1. Shown(n) \in Seq(S) /\ DOMAIN Shown(n) = 1 .. n /\ n \in Nat
      BY <1>1, <2>2, SeqDef DEF Shown
    <3> QED
      BY <3>1, LenProperties
  <2> QED
    BY <2>1, <2>2
<1>4. SubSeq(Shown(n), 1, m) = SubSeq(Expected, 1, m)
  <2>1. /\ SubSeq(Shown(n), 1, m) = [i \in 1 .. m |-> Shown(n)[i + 1 - 1]]
        /\ SubSeq(Expected, 1, m) = [i \in 1 .. m |-> Expected[i + 1 - 1]]
    BY <1>2, <1>3
  <2>2. \A i \in 1 .. m : Shown(n)[i + 1 - 1] = Expected[i + 1 - 1]
    BY <1>3 DEF Shown
  <2> QED
    BY <2>1, <2>2
<1> QED
  BY <1>2, <1>3, <1>4 DEF IsPrefix

\* While TCP cuts nothing the client and the server go through the script together.
THEOREM LockstepHolds == SSpec => []Lockstep
<1>1. Inv /\ Accounted /\ Talk => Sound
  BY InvAttended DEF Sound
<1>2. Sound /\ Sound' /\ Delivery /\ Demo /\ Lockstep /\ [SNext]_svars => Lockstep'
  BY LockstepNext
<1> QED
  BY <1>1, <1>2, LockstepInit, DemoIsServer, DemoHolds, InvHolds, AllAccounted, TalkHolds,
     DeliveryHolds, PTL DEF SSpec

\* When TCP cuts no frame and no reply, client.cpp and server.cpp never wait for
\* each other but where the client has sent both fragments and one recv of
\* handle_frame has returned them (client.cpp:106-108, server_impl.cpp:154).
THEOREM HangsOnlyOnFragmentsHolds == SSpec => []HangsOnlyOnFragments
<1>1. Inv /\ Accounted /\ Talk /\ Demo /\ Lockstep => HangsOnlyOnFragments
  BY InvAttended, WaitsStuck DEF Sound, Half, HangsOnlyOnFragments
<1> QED
  BY <1>1, LockstepHolds, DemoIsServer, DemoHolds, InvHolds, AllAccounted, TalkHolds, PTL

\* What main() prints is what it sent at that place, in order, whatever recv
\* merges, as long as TCP cuts nothing (client.cpp:64-137, handle_frame).
THEOREM EchoMatchesHolds == SSpec => []EchoMatches
<1>1. ASSUME Demo, Lockstep, cuts = 0
      PROVE  IsPrefix(printed, Expected)
  <2>1. CASE step = 0
    <3>1. printed = Shown(0)
      BY <1>1, <2>1 DEF Lockstep, Shown
    <3> QED
      BY <3>1, ShownFirst
  <2>2. CASE step \in 1 .. 12
    <3>1. PICK n \in -1 .. 4 : n = ReadBefore[step] - 1
      BY <2>2, Following
    <3> QED
      BY <1>1, <2>2, <3>1, ShownFirst DEF Lockstep, Reader
  <2>3. CASE step = 13
    <3>1. printed = Expected
      BY <1>1, <2>3 DEF Lockstep
    <3>2. Shown(4) = Expected
      BY DEF Shown, Expected
    <3>3. PICK n \in -1 .. 4 : n = 4
      OBVIOUS
    <3> QED
      BY <3>1, <3>2, <3>3, ShownFirst
  <2> QED
    BY <1>1, <2>1, <2>2, <2>3 DEF Demo, SessionType
<1>2. Demo /\ Lockstep => EchoMatches
  BY <1>1 DEF EchoMatches
<1> QED
  BY <1>2, LockstepHolds, DemoHolds, PTL

\* A client that got a connection, and saw no frame or reply cut, ends only by
\* closing after it has printed all four replies (client.cpp:18-145).
THEOREM CleanSessionHolds == SSpec => []CleanSession
<1>1. ASSUME Demo, Lockstep, cuts = 0, exit # "no", step > 0
      PROVE  exit = "done" /\ printed = Expected
  <2>1. step \notin 1 .. 12
    BY <1>1 DEF Lockstep, Reader
  <2>2. step = 13
    BY <1>1, <2>1 DEF Demo, SessionType
  <2> QED
    BY <1>1, <2>2 DEF Lockstep
<1>2. Demo /\ Lockstep => CleanSession
  BY <1>1 DEF CleanSession
<1> QED
  BY <1>2, LockstepHolds, DemoHolds, PTL

=============================================================================
