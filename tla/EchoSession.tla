---------------------------- MODULE EchoSession ----------------------------
(***************************************************************************)
(* The demo: the program of src/server.cpp, which never sets the stop flag *)
(* nor the limits, and one run of the program of src/client.cpp against    *)
(* it.  The client sends, waits for one recv and goes on, whatever recv    *)
(* returned; it parses the first frame of what it got and prints it if it  *)
(* is the reply expected at that place.                                    *)
(*                                                                         *)
(* Server gives the way from client to server.  The way back carries what  *)
(* the server has written: each reply is two units, so that a recv of the  *)
(* client can return part of one, or one and part of the next.             *)
(***************************************************************************)
EXTENDS ServerProperties

CONSTANTS
  client,      \* the only connection
  request,     \* what client.cpp sends before the upgrade and after it
  hello, bdata, frag1, frag2, ping, goodbye,
  MaxCuts      \* bound: recvs that return part of a frame before TCP splits no more

\* The request is one the server accepts, and everything the client sends is
\* within the server's limits; the bounds leave room for the whole script.
ASSUME SessionAssumption ==
  /\ Conns = {client}
  /\ request \in Requests /\ request.op = "accepted" /\ HeaderLen + request.len <= HsLimit
  /\ Kinds = {hello, bdata, frag1, frag2, ping, goodbye}
  /\ hello.op = "text" /\ hello.fin /\ bdata.op = "binary" /\ bdata.fin
  /\ frag1.op = "text" /\ ~frag1.fin /\ frag2.op = "cont" /\ frag2.fin
  /\ ping.op = "ping" /\ goodbye.op = "close"
  /\ \A k \in Kinds : k.len <= ParseLimit
  /\ MaxFrames >= 6 /\ SendCap > 6 /\ MaxCuts \in Nat

VARIABLES
  step,     \* where main() stands in Script
  exit,     \* how the client ended, once it has
  replies,  \* what the server has written to the client
  taken,    \* units of the replies the client has read
  reset,    \* a reset of the connection by the server's kernel
  stock,    \* units the client can read in all, after a reset
  printed,  \* the replies main() has printed
  cuts,     \* history: recvs, on either side, that began or ended within a frame
  merged    \* history: has a recv returned bytes of two?

svars == <<vars, step, exit, replies, taken, reset, stock, printed, cuts, merged>>

Send_(kind) == [call |-> "send", kind |-> kind]
Recv(op)    == [call |-> "recv", op |-> op]

\* main(), between connect() and close().
Script ==
  << Send_(request), Recv("http"),
     Send_(hello), Recv("text"),
     Send_(bdata), Recv("binary"),
     Send_(frag1), Send_(frag2), Recv("text"),
     Send_(ping), Recv("pong"),
     Send_(goodbye) >>

Calls(call) == step \in DOMAIN Script /\ Script[step].call = call /\ exit = "no"

\* Units there are for the client to read.
Stock == IF reset = "come" THEN stock ELSE 2 * Len(replies)

SInit ==
  /\ Init
  /\ step = 0 /\ exit = "no" /\ replies = <<>> /\ taken = 0
  /\ reset = "no" /\ stock = 0 /\ printed = <<>> /\ cuts = 0 /\ merged = FALSE

-----------------------------------------------------------------------------
(* The server and the network.                                             *)

\* What TCP has done, as a recv shows it.
Count(cut, two) ==
  /\ cuts' = IF cut THEN cuts + 1 ELSE cuts
  /\ merged' = (merged \/ two)

\* The recv of handle_frame; perform_handshake puts a request together again.
CountServer ==
  LET buf == Take(inp[client], RecvMax)
  IN  IF \E fd \in FdsOf(client) : HandleFrame(fd) /\ buf # <<>>
      THEN Count(buf[1].pos # 1 \/ Last(buf).pos # HeaderLen + Last(buf).kind.len,
                 buf[1].item # Last(buf).item)
      ELSE UNCHANGED <<cuts, merged>>

\* A send() that succeeds puts its frame or response on the way to the client.
CarryReply ==
  replies' = IF unread' = unread THEN replies
             ELSE Append(replies, [op |-> reply.op, data |-> reply.data])

\* Closing a socket with bytes unread, or on their way, resets the connection.
ServerProgram ==
  /\ Run \/ ServerStep
  /\ CountServer /\ CarryReply
  /\ reset' = IF /\ cst[client] # "closed" /\ cst'[client] = "closed"
                 /\ inp[client] # <<>> \/ todo[client] # <<>>
              THEN "due" ELSE reset
  /\ UNCHANGED <<step, exit, taken, stock, printed>>

\* The reset overtakes replies that have not arrived.
ResetArrives ==
  /\ reset = "due" /\ reset' = "come"
  /\ stock' \in taken .. 2 * Len(replies)
  /\ UNCHANGED <<vars, step, exit, replies, taken, printed, cuts, merged>>

MaySplit == cuts < MaxCuts

Network ==
  \/ /\ Deliver(client) /\ (todo'[client] = <<>> \/ MaySplit)
     /\ UNCHANGED <<step, exit, replies, taken, reset, stock, printed, cuts, merged>>
  \/ ResetArrives

-----------------------------------------------------------------------------
(* The client.                                                             *)

\* connect() fails when nobody listens.
SConnect ==
  /\ step = 0 /\ exit = "no"
  /\ \/ Connect(client) /\ step' = 1 /\ UNCHANGED exit
     \/ pc = "stopped" /\ exit' = "error" /\ UNCHANGED <<vars, step>>
  /\ UNCHANGED <<replies, taken, reset, stock, printed, cuts, merged>>

\* send() to a server that has closed succeeds once and brings a reset; after
\* the reset it fails, which main() ignores, or raises SIGPIPE.
SSend ==
  /\ Calls("send")
  /\ \/ /\ SendItem(client, Script[step].kind)
        /\ step' = step + 1 /\ UNCHANGED <<exit, reset>>
     \/ /\ cst[client] = "closed" /\ UNCHANGED vars
        /\ \/ /\ step' = step + 1 /\ UNCHANGED exit
              /\ reset' = IF reset = "no" THEN "due" ELSE reset
           \/ reset = "come" /\ exit' = "sigpipe" /\ UNCHANGED <<step, reset>>
  /\ UNCHANGED <<replies, taken, stock, printed, cuts, merged>>

Garbage == [op |-> "garbage", data |-> <<>>]

\* What main() prints when recv has returned the next n units: nothing when the
\* frame is not whole or has another opcode; when the buffer begins within a
\* reply what is parsed may be anything.
Printed(n) ==
  IF Script[step].op = "http" THEN {<<>>}
  ELSE IF taken % 2 = 1 THEN {<<>>, <<Garbage>>}
  ELSE LET r == replies[taken \div 2 + 1]
       IN  IF n > 1 /\ r.op = Script[step].op THEN {<<r>>} ELSE {<<>>}

SRecv ==
  /\ Calls("recv")
  /\ \E n \in 1 .. Stock - taken :
       /\ taken' = taken + n
       /\ taken' % 2 = 0 \/ taken' = Stock \/ MaySplit
       /\ \E out \in Printed(n) : printed' = printed \o out
       /\ Count(taken % 2 = 1 \/ n % 2 = 1, n > 2)
  /\ step' = step + 1
  /\ UNCHANGED <<vars, exit, replies, reset, stock>>

\* recv returns 0 or -1.  main() gives up when it is the response that is
\* missing, and goes on otherwise.
SRecvFails ==
  /\ Calls("recv")
  /\ cst[client] = "closed" /\ taken = Stock
  /\ IF Script[step].op = "http"
     THEN exit' = "error" /\ UNCHANGED step
     ELSE step' = step + 1 /\ UNCHANGED exit
  /\ UNCHANGED <<vars, replies, taken, reset, stock, printed, cuts, merged>>

\* close() with replies unread resets the connection.
SClose ==
  /\ step = Len(Script) + 1 /\ exit = "no"
  /\ \/ cst[client] = "closed" /\ UNCHANGED vars
     \/ taken = Stock /\ Finish(client)
     \/ taken < Stock /\ todo[client] = <<>> /\ Reset(client)
  /\ exit' = "done" /\ taken' = Stock
  /\ UNCHANGED <<step, replies, reset, stock, printed, cuts, merged>>

\* A reply to a client that has closed is answered with a reset.
SRejects ==
  /\ exit # "no" /\ cst[client] = "fin" /\ taken < Stock
  /\ Reset(client)
  /\ UNCHANGED <<step, exit, replies, taken, reset, stock, printed, cuts, merged>>

ClientProgram == SConnect \/ SSend \/ SRecv \/ SRecvFails \/ SClose

SNext == ServerProgram \/ Network \/ ClientProgram \/ SRejects

SSpec ==
  /\ SInit /\ [][SNext]_svars
  /\ WF_svars(ServerProgram) /\ WF_svars(Network) /\ WF_svars(ClientProgram)

-----------------------------------------------------------------------------
Body(n, kind) == Drop(Wire(client, n, kind), HeaderLen)

\* The four replies client.cpp is written to print.
Expected ==
  << [op |-> "text", data |-> Body(1, hello)],
     [op |-> "binary", data |-> Body(2, bdata)],
     [op |-> "text", data |-> Body(3, frag1) \o Body(4, frag2)],
     [op |-> "pong", data |-> Body(5, ping)] >>

\* Both wait: the client in recv for a reply, the server in select.
Waiting ==
  /\ Calls("recv") /\ taken = Stock /\ cst[client] = "up"
  /\ pc = "loop" /\ inp[client] = <<>> /\ todo[client] = <<>> /\ acceptq = <<>>

\* Client and server end up waiting for each other at one place only, unless
\* TCP cuts a frame or a reply: the client has sent both fragments, and the
\* server has read them in one recv and holds the first.
HangsOnlyOnFragments ==
  Waiting /\ cuts = 0 =>
    /\ step = 9 /\ merged
    /\ Part(client) = [op |-> "text", data |-> Body(3, frag1)]

\* Whatever TCP merges, as long as it cuts nothing: what the client prints is
\* what it sent at that place, and it does not print the next reply before this.
EchoMatches == cuts = 0 => IsPrefix(printed, Expected)

\* Whatever TCP merges, as long as it cuts nothing: a client that got a connection
\* ends only by printing all four replies, closing, and being done.
CleanSession ==
  cuts = 0 /\ exit # "no" /\ step > 0 => exit = "done" /\ printed = Expected

\* The client ends, or it and the server wait for each other after TCP has
\* merged or cut something; nothing else keeps the demo from its end.
EndsOrHangs == <>(exit # "no" \/ (Waiting /\ (merged \/ cuts > 0)))

\* README.md:15, "Example echo client and server to demonstrate usage": the
\* client ends.  It does not when its fragments arrive in one recv.
SessionEnds == <>(exit # "no")

=============================================================================
