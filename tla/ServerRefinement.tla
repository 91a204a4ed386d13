-------------------------- MODULE ServerRefinement --------------------------
(***************************************************************************)
(* The proof that Server implements EchoService: with one thread, tables   *)
(* indexed by descriptor and descriptors that are used again, it does for  *)
(* each connection what the service does.                                  *)
(***************************************************************************)
EXTENDS ServerProofs, ServerProperties

-----------------------------------------------------------------------------
(* A connection as the service sees it.                                    *)

\* What the service sees of every connection but c stays as it is.
Focus(c) ==
  \A d \in Conns \ {c} :
    Phase(d)' = Phase(d) /\ Part(d)' = Part(d) /\ Owed(d)' = Owed(d)

Nothing == [op |-> "cont", data |-> <<>>]

\* Then the service's variables change at c at most.
LEMMA FocusViews ==
  ASSUME NEW c \in Conns, Focus(c)
  PROVE  /\ [d \in Conns |-> Phase(d)'] = [[d \in Conns |-> Phase(d)] EXCEPT ![c] = Phase(c)']
         /\ [d \in Conns |-> Part(d)'] = [[d \in Conns |-> Part(d)] EXCEPT ![c] = Part(c)']
         /\ [d \in Conns |-> Owed(d)'] = [[d \in Conns |-> Owed(d)] EXCEPT ![c] = Owed(c)']
  BY DEF Focus

-----------------------------------------------------------------------------
(* The steps of the service, in terms of the server's variables.           *)

LEMMA SameFrames == Service!Frame = Frame
  BY DEF Service!Frame, Frame, Service!Byte, Byte, Service!Unit, Unit, Service!Opcodes, Opcodes,
         Service!FrameKind, FrameKind, Service!RequestKind, RequestKind

LEMMA StutterStep ==
  ASSUME \A c \in Conns : Phase(c)' = Phase(c) /\ Part(c)' = Part(c) /\ Owed(c)' = Owed(c),
         UNCHANGED <<heard, max_payload, said>>
  PROVE  UNCHANGED Service!vars
  BY DEF Service!vars

LEMMA OpenStep ==
  ASSUME NEW c \in Conns, Focus(c),
         Phase(c) = "none", Phase(c)' = "open", Part(c)' = Part(c), Owed(c)' = Owed(c),
         UNCHANGED <<heard, max_payload>>,
         said' = [said EXCEPT ![c] = @ \o <<Written("send", Switching), Mark("open")>>]
  PROVE  Service!Open(c)
<1>1. Service!Says(c, <<Service!Outcome("send", Service!Upgrade), Service!Callback("open")>>)
  BY DEF Service!Says, Service!Outcome, Service!Upgrade, Service!Callback,
         Written, Switching, Mark, Record
<1>2. /\ [d \in Conns |-> Part(d)'] = [d \in Conns |-> Part(d)]
      /\ [d \in Conns |-> Owed(d)'] = [d \in Conns |-> Owed(d)]
  BY DEF Focus
<1> QED
  BY <1>1, <1>2, FocusViews DEF Service!Open

\* The end of a connection that is owed nothing: at recv's end of file, or when
\* its 101 could not be written.
LEMMA EndStep ==
  ASSUME NEW c \in Conns, Focus(c),
         Phase(c) # "closed", Phase(c)' = "closed", Part(c)' = Nothing,
         Owed(c) = NoReply, Owed(c)' = NoReply,
         UNCHANGED <<heard, max_payload>>
  PROVE  /\ said' = [said EXCEPT ![c] = @ \o Append(<<>>, Mark("close"))] => Service!Close(c)
         /\ /\ said' = [said EXCEPT ![c] = @ \o Append(<<Written("lost", Switching)>>, Mark("close"))]
            /\ Phase(c) = "none"
            => Service!Refuse(c)
<1>1. [d \in Conns |-> Owed(d)'] = [d \in Conns |-> Owed(d)]
  BY DEF Focus
<1>2. ASSUME NEW evs, said' = [said EXCEPT ![c] = @ \o Append(evs, Mark("close"))]
      PROVE  Service!EndOf(c, evs)
  <2>1. Service!Says(c, Append(evs, Service!Callback("close")))
    BY <1>2 DEF Service!Says, Service!Callback, Mark, Record
  <2> QED
    BY <1>1, <2>1, FocusViews DEF Service!EndOf, Service!Nothing, Nothing
<1>3. Service!Outcome("lost", Service!Upgrade) = Written("lost", Switching)
  BY DEF Service!Outcome, Service!Upgrade, Written, Switching, Record
<1> QED
  BY <1>2, <1>3 DEF Service!Close, Service!Refuse

\* A frame was read, f, and leaves the connection with what Whole, Start,
\* Continue or Control say of it.
LEMMA HearStep ==
  ASSUME NEW c \in Conns, Focus(c), NEW f \in Frame, heard \in [Conns -> Seq(Frame)],
         Phase(c) = "open", Phase(c)' = Phase(c), Owed(c) = NoReply,
         UNCHANGED max_payload,
         heard' = [heard EXCEPT ![c] = Append(@, f)],
         IF max_payload >= 0 /\ Len(f.data) > max_payload
         THEN Service!TooBig(c)
         ELSE \/ Service!Whole(c, f) \/ Service!Start(c, f)
              \/ Service!Continue(c, f) \/ Service!Control(c, f)
  PROVE  Service!Hear(c)
<1>1. heard'[c] = Append(heard[c], f) /\ heard[c] \in Seq(Frame)
  OBVIOUS
<1>2. heard'[c] # <<>> /\ Service!Last(heard'[c]) = f /\ f \in Service!Frame
  BY <1>1, AppendProperties, SameFrames DEF Service!Last
<1>3. [d \in Conns |-> Phase(d)'] = [d \in Conns |-> Phase(d)]
  BY DEF Focus
<1>4. [d \in Conns |-> Phase(d)][c] = "open" /\ [d \in Conns |-> Owed(d)][c] = NoReply
  OBVIOUS
<1> QED
  BY <1>2, <1>3, <1>4 DEF Service!Hear

LEMMA OwesStep ==
  ASSUME NEW c \in Conns, Focus(c), NEW op, NEW data, NEW code,
         Owed(c)' = [op |-> op, data |-> data, code |-> code]
  PROVE  Service!Owes(c, op, data, code)
<1>1. [d \in Conns |-> Owed(d)'] = [[d \in Conns |-> Owed(d)] EXCEPT ![c] = Owed(c)']
  BY FocusViews
<1> QED
  BY <1>1 DEF Service!Owes

LEMMA MisreadStep ==
  ASSUME NEW c \in Conns, Focus(c),
         Phase(c) = "open", Phase(c)' = Phase(c), Part(c)' = Part(c), Owed(c) = NoReply,
         Owed(c)' = [op |-> "close", data |-> <<>>, code |-> 1002],
         UNCHANGED <<heard, max_payload, said>>
  PROVE  Service!Misread(c)
<1>1. /\ [d \in Conns |-> Phase(d)'] = [d \in Conns |-> Phase(d)]
      /\ [d \in Conns |-> Part(d)'] = [d \in Conns |-> Part(d)]
  BY DEF Focus
<1>2. [d \in Conns |-> Phase(d)][c] = "open" /\ [d \in Conns |-> Owed(d)][c] = NoReply
  OBVIOUS
<1>3. Service!Owes(c, "close", <<>>, 1002)
  BY OwesStep
<1> QED
  BY <1>1, <1>2, <1>3 DEF Service!Misread

\* The reply is out, or the peer is: r is what was owed.
LEMMA ReplyStep ==
  ASSUME NEW c \in Conns, Focus(c), NEW e \in {"send", "lost"}, NEW r,
         Owed(c) = [op |-> r.op, data |-> r.data, code |-> r.code],
         Owed(c) # NoReply, Owed(c)' = NoReply,
         UNCHANGED <<heard, max_payload>>,
         IF r.op = "close"
         THEN /\ Phase(c)' = "closed" /\ Part(c)' = Nothing
              /\ said' = [said EXCEPT ![c] = @ \o Append(<<Written(e, r)>>, Mark("close"))]
         ELSE /\ Phase(c)' = Phase(c) /\ Part(c)' = Part(c)
              /\ said' = [said EXCEPT ![c] = @ \o <<Written(e, r)>>]
  PROVE  Service!Reply(c)
<1>1. [d \in Conns |-> Owed(d)][c] = [op |-> r.op, data |-> r.data, code |-> r.code]
  OBVIOUS
<1>2. Service!Outcome(e, [d \in Conns |-> Owed(d)][c]) = Written(e, r)
  BY <1>1 DEF Service!Outcome, Written, Record
<1>5. /\ [d \in Conns |-> Owed(d)'] = [[d \in Conns |-> Owed(d)] EXCEPT ![c] = NoReply]
      /\ [d \in Conns |-> Owed(d)][c] # NoReply
  BY FocusViews
<1>3. CASE r.op = "close"
  <2>1. Service!Callback("close") = Mark("close")
    BY DEF Service!Callback, Mark, Record
  <2>2. Service!Says(c, <<Service!Outcome(e, [d \in Conns |-> Owed(d)][c]), Service!Callback("close")>>)
    BY <1>2, <1>3, <2>1 DEF Service!Says
  <2>3. /\ [d \in Conns |-> Phase(d)'] = [[d \in Conns |-> Phase(d)] EXCEPT ![c] = "closed"]
        /\ [d \in Conns |-> Part(d)'] = [[d \in Conns |-> Part(d)] EXCEPT ![c] = Service!Nothing]
    BY <1>3, FocusViews DEF Service!Nothing, Nothing
  <2> QED
    BY <1>1, <1>3, <1>5, <2>2, <2>3 DEF Service!Reply
<1>4. CASE r.op # "close"
  <2>1. /\ [d \in Conns |-> Phase(d)'] = [d \in Conns |-> Phase(d)]
        /\ [d \in Conns |-> Part(d)'] = [d \in Conns |-> Part(d)]
    BY <1>4 DEF Focus
  <2>2. Service!Says(c, <<Service!Outcome(e, [d \in Conns |-> Owed(d)][c])>>)
    BY <1>2, <1>4 DEF Service!Says
  <2> QED
    BY <1>1, <1>4, <1>5, <2>1, <2>2 DEF Service!Reply
<1> QED
  BY <1>3, <1>4

\* Connections nobody accepted are closed with the listening socket.
LEMMA AbandonStep ==
  ASSUME NEW S \in SUBSET Conns, S # {},
         \A c \in S : Phase(c) = "none" /\ said[c] = <<>> /\ Phase(c)' = "closed",
         \A c \in Conns \ S : Phase(c)' = Phase(c),
         \A c \in Conns : Part(c)' = Part(c) /\ Owed(c)' = Owed(c),
         UNCHANGED <<heard, max_payload, said>>
  PROVE  Service!Abandon(S)
<1>1. /\ [d \in Conns |-> Owed(d)'] = [d \in Conns |-> Owed(d)]
      /\ [d \in Conns |-> Part(d)'] = [d \in Conns |-> Part(d)]
      /\ [d \in Conns |-> Phase(d)'] = [d \in Conns |-> IF d \in S THEN "closed" ELSE Phase(d)]
  OBVIOUS
<1>2. \A c \in S : [d \in Conns |-> Phase(d)][c] = "none" /\ said[c] = <<>>
  OBVIOUS
<1>3. [c \in Conns |-> IF c \in S THEN "closed" ELSE Phase(c)]
        = [c \in Conns |-> IF c \in S THEN "closed" ELSE [d \in Conns |-> Phase(d)][c]]
  OBVIOUS
<1> QED
  BY <1>1, <1>2, <1>3 DEF Service!Abandon

LEMMA SetLimitStep ==
  ASSUME \A c \in Conns : Phase(c)' = Phase(c) /\ Part(c)' = Part(c) /\ Owed(c)' = Owed(c),
         UNCHANGED <<heard, said>>, max_payload' \in Int
  PROVE  Service!SetLimit
  BY DEF Service!SetLimit

-----------------------------------------------------------------------------
(* What a step of the server shows of its connections.                     *)

\* What the server owes, and what has been said, given where the thread is.
Talk ==
  /\ pc = "hs" => ~handshaken[cur]
  /\ pc \in {"send", "dead"} =>
       /\ handshaken[cur] <=> reply.next # "opened"
       /\ reply.next = "opened" => reply = Switching
       /\ reply.next = "close" <=> reply.op = "close"
  /\ \A c \in Conns : c \in Queued \/ cst[c] = "new" => said[c] = <<>>

Sound == Attended /\ Accounted /\ Talk

\* A reply owed is a record without a successor, which NoReply is not.
LEMMA OwedIsNot == \A op, data, code : [op |-> op, data |-> data, code |-> code] # NoReply
<1> SUFFICES ASSUME NEW op, NEW data, NEW code,
                    [op |-> op, data |-> data, code |-> code] = NoReply
             PROVE  FALSE
  OBVIOUS
<1>1. DOMAIN [op |-> op, data |-> data, code |-> code] = {"op", "data", "code"}
  OBVIOUS
<1>2. DOMAIN NoReply = {"op", "data", "code", "next"}
  BY DEF NoReply, CloseWith
<1> QED
  BY <1>1, <1>2

\* A connection behind a descriptor is behind no other, and alive.
LEMMA Behind ==
  ASSUME Accounted, NEW fd \in Fds, owner[fd] \in Conns
  PROVE  /\ FdsOf(owner[fd]) = {fd}
         /\ owner[fd] \notin Queued
         /\ cst[owner[fd]] \notin {"new", "closed"}
  BY DEF Accounted, FdsOf

\* It shows what the descriptor's entries say.
LEMMA ViewAt ==
  ASSUME NEW c \in Conns, NEW fd, FdsOf(c) = {fd}
  PROVE  /\ Phase(c) = IF cst[c] = "closed" THEN "closed"
                       ELSE IF handshaken[fd] THEN "open" ELSE "none"
         /\ Part(c) = IF frag_opcode[fd] = "cont" THEN Nothing
                      ELSE [op |-> frag_opcode[fd], data |-> frag_buffer[fd]]
<1>1. CASE frag_opcode[fd] = "cont"
  BY <1>1 DEF Phase, Part, Nothing
<1>2. CASE frag_opcode[fd] # "cont"
  <2>1. {g \in FdsOf(c) : frag_opcode[g] # "cont"} = {fd}
    BY <1>2
  <2>2. (CHOOSE g \in {fd} : TRUE) = fd
    OBVIOUS
  <2> QED
    BY <1>2, <2>1, <2>2 DEF Phase, Part
<1> QED
  BY <1>1, <1>2

LEMMA ViewAtNext ==
  ASSUME NEW c \in Conns, NEW fd, FdsOf(c)' = {fd}
  PROVE  /\ Phase(c)' = IF cst'[c] = "closed" THEN "closed"
                        ELSE IF handshaken'[fd] THEN "open" ELSE "none"
         /\ Part(c)' = IF frag_opcode'[fd] = "cont" THEN Nothing
                       ELSE [op |-> frag_opcode'[fd], data |-> frag_buffer'[fd]]
<1>1. CASE frag_opcode'[fd] = "cont"
  BY <1>1 DEF Phase, Part, Nothing
<1>2. CASE frag_opcode'[fd] # "cont"
  <2>1. {g \in FdsOf(c)' : frag_opcode'[g] # "cont"} = {fd}
    BY <1>2
  <2>2. (CHOOSE g \in {fd} : TRUE) = fd
    OBVIOUS
  <2> QED
    BY <1>2, <2>1, <2>2 DEF Phase, Part
<1> QED
  BY <1>1, <1>2

\* A connection behind no descriptor shows no message and no upgrade.
LEMMA ViewOff ==
  ASSUME NEW c \in Conns
  PROVE  /\ FdsOf(c) = {} => /\ Phase(c) = IF cst[c] = "closed" THEN "closed" ELSE "none"
                             /\ Part(c) = Nothing
         /\ FdsOf(c)' = {} => /\ Phase(c)' = IF cst'[c] = "closed" THEN "closed" ELSE "none"
                              /\ Part(c)' = Nothing
  BY DEF Phase, Part, Nothing

\* Nothing shows of a step that leaves a connection its descriptor, the
\* descriptor its entries and the client its end open.
LEMMA ViewKept ==
  ASSUME NEW c \in Conns, FdsOf(c)' = FdsOf(c),
         cst'[c] = "closed" <=> cst[c] = "closed",
         \A fd \in FdsOf(c) : /\ handshaken'[fd] = handshaken[fd]
                              /\ frag_opcode'[fd] = frag_opcode[fd]
                              /\ frag_buffer'[fd] = frag_buffer[fd]
  PROVE  Phase(c)' = Phase(c) /\ Part(c)' = Part(c)
<1>1. Phase(c)' = Phase(c)
  BY DEF Phase
<1>2. PICK held : /\ held = {fd \in FdsOf(c) : frag_opcode[fd] # "cont"}
                  /\ held = {fd \in FdsOf(c)' : frag_opcode'[fd] # "cont"}
  OBVIOUS
<1>3. /\ Part(c) = IF held = {} THEN Nothing
                   ELSE LET fd == CHOOSE fd \in held : TRUE
                        IN  [op |-> frag_opcode[fd], data |-> frag_buffer[fd]]
      /\ Part(c)' = IF held = {} THEN Nothing
                    ELSE LET fd == CHOOSE fd \in held : TRUE
                         IN  [op |-> frag_opcode'[fd], data |-> frag_buffer'[fd]]
  BY <1>2 DEF Part, Nothing
<1>4. ASSUME held # {}
      PROVE  Part(c)' = Part(c)
  <2>1. PICK g : g = CHOOSE fd \in held : TRUE
    OBVIOUS
  <2>2. g \in held
    BY <1>4, <2>1
  <2>3. /\ Part(c) = [op |-> frag_opcode[g], data |-> frag_buffer[g]]
        /\ Part(c)' = [op |-> frag_opcode'[g], data |-> frag_buffer'[g]]
    BY <1>3, <1>4, <2>1
  <2> QED
    BY <1>2, <2>2, <2>3
<1> QED
  BY <1>1, <1>3, <1>4

\* Nothing is owed but by the thread that is in send().
LEMMA OwedBySend ==
  ASSUME NEW c \in Conns
  PROVE  /\ pc \notin {"send", "dead"} => Owed(c) = NoReply
         /\ pc' \notin {"send", "dead"} => Owed(c)' = NoReply
         /\ UNCHANGED <<pc, cur, reply>> /\ owner'[cur] = owner[cur] => Owed(c)' = Owed(c)
  BY DEF Owed

-----------------------------------------------------------------------------
(* Each step of the server is a step of the service or none.               *)

EchoStep == [Service!Next]_(Service!vars)

\* Steps the service does not see.
LEMMA Unseen ==
  ASSUME Attended, UNCHANGED <<maps>>,
         \A c \in Conns : FdsOf(c)' = FdsOf(c) /\ (cst'[c] = "closed" <=> cst[c] = "closed"),
         pc' \in {"send", "dead"} <=> pc \in {"send", "dead"},
         pc \in {"send", "dead"} => UNCHANGED <<cur, reply>>
  PROVE  \A c \in Conns : Phase(c)' = Phase(c) /\ Part(c)' = Part(c) /\ Owed(c)' = Owed(c)
<1> SUFFICES ASSUME NEW c \in Conns
             PROVE  Phase(c)' = Phase(c) /\ Part(c)' = Part(c) /\ Owed(c)' = Owed(c)
  OBVIOUS
<1>1. Phase(c)' = Phase(c) /\ Part(c)' = Part(c)
  BY ViewKept DEF maps
<1>2. Owed(c)' = Owed(c)
  <2>1. CASE pc \notin {"send", "dead"}
    BY <2>1, OwedBySend
  <2>2. CASE pc \in {"send", "dead"}
    <3>1. cur \in Fds /\ (owner'[cur] = c <=> owner[cur] = c)
      BY <2>2 DEF Attended, FdsOf
    <3> QED
      BY <2>2, <3>1 DEF Owed
  <2> QED
    BY <2>1, <2>2
<1> QED
  BY <1>1, <1>2

LEMMA UnseenStep ==
  ASSUME Attended, UNCHANGED <<maps, history, max_payload>>,
         \A c \in Conns : FdsOf(c)' = FdsOf(c) /\ (cst'[c] = "closed" <=> cst[c] = "closed"),
         pc' \in {"send", "dead"} <=> pc \in {"send", "dead"},
         pc \in {"send", "dead"} => UNCHANGED <<cur, reply>>
  PROVE  EchoStep
<1>1. \A c \in Conns : Phase(c)' = Phase(c) /\ Part(c)' = Part(c) /\ Owed(c)' = Owed(c)
  BY Unseen
<1> QED
  BY <1>1, StutterStep DEF EchoStep, history

\* Clients and network.
LEMMA EchoClient ==
  ASSUME Attended, NEW c \in Conns, Client(c)
  PROVE  EchoStep
<1>1. /\ UNCHANGED <<owner, maps, history, max_payload, pc, cur, reply>>
      /\ \A d \in Conns : cst'[d] = "closed" <=> cst[d] = "closed"
  <2>1. cst \in [Conns -> {"new", "up", "fin", "rst", "pipe", "closed"}]
    BY DEF Attended, TypeOK, SocketTypes
  <2>2. CASE Connect(c) \/ Finish(c) \/ Reset(c)
    BY <2>1, <2>2 DEF Connect, Finish, Reset, config, locals
  <2>3. CASE SendRequest(c) \/ SendFrame(c) \/ Deliver(c) \/ Read(c)
    BY <2>3 DEF SendRequest, SendFrame, SendItem, Deliver, Read, config, locals
  <2> QED
    BY <2>2, <2>3 DEF Client
<1> QED
  BY <1>1, UnseenStep DEF FdsOf

\* The application changes descriptors the service knows nothing of, and sets
\* the limit.
LEMMA EchoApplication ==
  ASSUME Attended, Application
  PROVE  EchoStep
<1>0. /\ owner \in [Fds -> Conns \cup {Free, App, Listener}]
      /\ {Free, App, Listener} \cap Conns = {}
  BY ServerAssumption DEF Attended, TypeOK, SocketTypes
<1>1. CASE (\E n \in Backlogs : SetBacklog(n)) \/ SetStop
  BY <1>1, UnseenStep DEF SetBacklog, SetStop, sockets, config, locals, FdsOf
<1>2. ASSUME NEW n \in MaxPayloads, SetMaxPayload(n)
      PROVE  EchoStep
  <2>1. \A c \in Conns : Phase(c)' = Phase(c) /\ Part(c)' = Part(c) /\ Owed(c)' = Owed(c)
    BY <1>2, Unseen DEF SetMaxPayload, sockets, locals, FdsOf
  <2>2. max_payload' \in Int /\ UNCHANGED <<heard, said>>
    BY <1>2, ServerAssumption DEF SetMaxPayload, history
  <2> QED
    BY <2>1, <2>2, SetLimitStep DEF EchoStep, Service!Next
<1>3. ASSUME NEW fd \in Fds, NEW o \in {Free, App},
             owner[fd] \in {Free, App}, owner' = [owner EXCEPT ![fd] = o],
             UNCHANGED <<maps, history, max_payload, cst, pc, cur, reply>>
      PROVE  EchoStep
  <2>1. \A c \in Conns : FdsOf(c)' = FdsOf(c)
    BY <1>0, <1>3, FdsOfKept
  <2> QED
    BY <1>3, <2>1, UnseenStep
<1>4. CASE AppOpen
  <2>1. PICK fd \in NextFds : owner' = [owner EXCEPT ![fd] = App]
    BY <1>4 DEF AppOpen
  <2>2. fd \in Fds /\ owner[fd] = Free
    BY DEF NextFds, FreeFds
  <2> QED
    BY <1>3, <1>4, <2>1, <2>2 DEF AppOpen, config, locals
<1>5. ASSUME NEW fd \in Fds, AppClose(fd) PROVE EchoStep
  BY <1>3, <1>5 DEF AppClose, config, locals
<1> QED
  BY <1>1, <1>2, <1>4, <1>5 DEF Application

\* So does run() until it is in its loop, and select.
LEMMA RunFds ==
  ASSUME Attended, Run
  PROVE  \A c \in Conns : FdsOf(c)' = FdsOf(c)
<1>0. /\ owner \in [Fds -> Conns \cup {Free, App, Listener}]
      /\ {Free, App, Listener} \cap Conns = {}
  BY ServerAssumption DEF Attended, TypeOK, SocketTypes
<1>1. CASE UNCHANGED owner
  BY <1>1 DEF FdsOf
<1>2. CASE ~UNCHANGED owner
  <2>1. PICK fd \in NextFds : owner' = [owner EXCEPT ![fd] = Listener]
    BY <1>2 DEF Run
  <2>2. fd \in Fds /\ owner[fd] = Free
    BY DEF NextFds, FreeFds
  <2> QED
    BY <1>0, <2>1, <2>2, FdsOfKept
<1> QED
  BY <1>1, <1>2

LEMMA EchoRun ==
  ASSUME Attended, Run
  PROVE  EchoStep
  BY RunFds, UnseenStep DEF Run, config

LEMMA EchoSelect ==
  ASSUME Attended, NEW others, SelectAlso(others)
  PROVE  EchoStep
  BY UnseenStep DEF SelectAlso, sockets, config, FdsOf

\* Leaving the loop abandons the connections in the queue.
LEMMA EchoLeave ==
  ASSUME Sound, Leave
  PROVE  EchoStep
<1>1. /\ owner \in [Fds -> Conns \cup {Free, App, Listener}]
      /\ {Free, Listener} \cap Conns = {} /\ lfd \in Fds /\ owner[lfd] = Listener
      /\ owner' = [owner EXCEPT ![lfd] = Free]
  BY ServerAssumption DEF Sound, Attended, TypeOK, SocketTypes, Running, Leave
<1>2. Queued \subseteq Conns
  <2>1. acceptq \in Seq(Conns)
    BY DEF Sound, Attended, TypeOK, SocketTypes
  <2> QED
    BY <2>1 DEF Queued
<1>3. \A c \in Conns : FdsOf(c)' = FdsOf(c)
  BY <1>1, FdsOfKept
<1>4. \A c \in Conns : cst'[c] = IF c \in Queued THEN "closed" ELSE cst[c]
  BY DEF Leave
<1>5. UNCHANGED <<heard, max_payload, said, maps>> /\ pc = "loop" /\ pc' = "stopped"
  BY DEF Leave, history, config
<1>6. \A c \in Conns : Owed(c)' = Owed(c)
  BY <1>5, OwedBySend
<1>7. ASSUME NEW c \in Queued
      PROVE  /\ Phase(c) = "none" /\ said[c] = <<>> /\ Phase(c)' = "closed"
             /\ Part(c)' = Part(c)
  <2>1. c \in Conns /\ FdsOf(c) = {} /\ cst[c] # "closed" /\ said[c] = <<>>
    BY <1>2, <1>7 DEF Sound, Accounted, Talk
  <2> QED
    BY <1>3, <1>4, <2>1, ViewOff
<1>8. ASSUME NEW c \in Conns \ Queued
      PROVE  Phase(c)' = Phase(c) /\ Part(c)' = Part(c)
  BY <1>3, <1>4, <1>5, <1>8, ViewKept DEF maps
<1>9. CASE Queued = {}
  BY <1>5, <1>6, <1>8, <1>9, StutterStep DEF EchoStep
<1>10. CASE Queued # {}
  <2>1. Service!Abandon(Queued)
    BY <1>2, <1>5, <1>6, <1>7, <1>8, <1>10, AbandonStep
  <2> QED
    BY <1>2, <2>1 DEF EchoStep, Service!Next
<1> QED
  BY <1>9, <1>10

\* Accepting a connection gives it a descriptor with nothing in the maps.
LEMMA AcceptViews ==
  ASSUME Sound, Accept
  PROVE  \A c \in Conns : Phase(c)' = Phase(c) /\ Part(c)' = Part(c)
<1>0. /\ owner \in [Fds -> Conns \cup {Free, App, Listener}] /\ Free \notin Conns
      /\ acceptq \in Seq(Conns) /\ handshaken \in [Fds -> BOOLEAN]
      /\ UNCHANGED <<cst, frag_buffer, frag_opcode>>
  BY ServerAssumption DEF Sound, Attended, TypeOK, SocketTypes, MemberTypes, Accept
<1>1. CASE UNCHANGED <<owner, handshaken>>
  BY <1>0, <1>1, ViewKept DEF FdsOf
<1>2. ASSUME NEW cfd \in NextFds, acceptq # <<>>,
             owner' = [owner EXCEPT ![cfd] = Head(acceptq)],
             handshaken' = [handshaken EXCEPT ![cfd] = FALSE]
      PROVE  \A c \in Conns : Phase(c)' = Phase(c) /\ Part(c)' = Part(c)
  <2>1. cfd \in Fds /\ owner[cfd] = Free /\ frag_opcode[cfd] = "cont" /\ ~handshaken[cfd]
    BY <1>0 DEF NextFds, FreeFds, Sound, Attended
  <2>2. PICK h \in Conns : h = Head(acceptq) /\ h \in Queued
    <3>1. Head(acceptq) \in Conns /\ 1 \in DOMAIN acceptq /\ Head(acceptq) = acceptq[1]
      BY <1>0, <1>2, HeadTailProperties, LenProperties, EmptySeq
    <3> QED
      BY <3>1 DEF Queued
  <2>3. FdsOf(h) = {} /\ cst[h] # "closed"
    BY <2>2 DEF Sound, Accounted
  <2>4. \A fd \in Fds : owner'[fd] = IF fd = cfd THEN h ELSE owner[fd]
    BY <1>0, <1>2, <2>1, <2>2
  <2>5. FdsOf(h)' = {cfd}
    BY <2>1, <2>3, <2>4 DEF FdsOf
  <2>6. Phase(h) = "none" /\ Part(h) = Nothing
    BY <2>3, ViewOff
  <2>7. Phase(h)' = "none" /\ Part(h)' = Nothing
    BY <1>0, <1>2, <2>1, <2>3, <2>5, ViewAtNext
  <2>8. ASSUME NEW c \in Conns \ {h} PROVE Phase(c)' = Phase(c) /\ Part(c)' = Part(c)
    <3>1. FdsOf(c)' = FdsOf(c) /\ cfd \notin FdsOf(c)
      BY <1>0, <2>1, <2>4 DEF FdsOf
    <3>2. \A fd \in FdsOf(c) : handshaken'[fd] = handshaken[fd]
      BY <1>0, <1>2, <3>1 DEF FdsOf
    <3> QED
      BY <1>0, <3>1, <3>2, ViewKept
  <2> QED
    BY <2>6, <2>7, <2>8
<1> QED
  BY <1>1, <1>2 DEF Accept

LEMMA EchoAccept ==
  ASSUME Sound, Accept
  PROVE  EchoStep
<1>1. /\ UNCHANGED <<heard, max_payload, said>>
      /\ pc = "scan" /\ pc' \in {"loop", "scan"}
  BY DEF Accept, Visit, Resume, config, history
<1>2. \A c \in Conns : Owed(c)' = Owed(c)
  BY <1>1, OwedBySend
<1> QED
  BY <1>1, <1>2, AcceptViews, StutterStep DEF EchoStep

\* cleanup_client closes its connection and shows nothing of another.
LEMMA CleanupViews ==
  ASSUME Sound, NEW fd \in Fds, NEW c \in Conns, owner[fd] = c, NEW evs, CleanupClient(fd, evs)
  PROVE  /\ Phase(c)' = "closed" /\ Part(c)' = Nothing
         /\ Phase(c) # "closed"
         /\ \A d \in Conns \ {c} : Phase(d)' = Phase(d) /\ Part(d)' = Part(d)
         /\ UNCHANGED <<heard, max_payload>>
         /\ said' = [said EXCEPT ![c] = @ \o Append(evs, Mark("close"))]
<1>1. /\ owner \in [Fds -> Conns \cup {Free, App, Listener}] /\ Free \notin Conns
      /\ cst \in [Conns -> {"new", "up", "fin", "rst", "pipe", "closed"}]
      /\ handshaken \in [Fds -> BOOLEAN]
      /\ frag_buffer \in [Fds -> Seq(Byte)]
      /\ frag_opcode \in [Fds -> {"cont", "text", "binary"}]
  BY ServerAssumption DEF Sound, Attended, TypeOK, SocketTypes, MemberTypes
<1>2. /\ owner' = [owner EXCEPT ![fd] = Free]
      /\ cst' = [cst EXCEPT ![c] = "closed"]
      /\ handshaken' = [handshaken EXCEPT ![fd] = FALSE]
      /\ frag_buffer' = [frag_buffer EXCEPT ![fd] = <<>>]
      /\ frag_opcode' = [frag_opcode EXCEPT ![fd] = "cont"]
  BY DEF CleanupClient, CloseFd, EraseMaps, Store
<1>3. FdsOf(c) = {fd} /\ cst[c] # "closed"
  BY Behind DEF Sound
<1>4. FdsOf(c)' = {}
  BY <1>1, <1>2, <1>3 DEF FdsOf
<1>5. Phase(c)' = "closed" /\ Part(c)' = Nothing /\ Phase(c) # "closed"
  BY <1>1, <1>2, <1>3, <1>4, ViewOff, ViewAt
<1>6. ASSUME NEW d \in Conns \ {c} PROVE Phase(d)' = Phase(d) /\ Part(d)' = Part(d)
  <2>1. FdsOf(d)' = FdsOf(d) /\ fd \notin FdsOf(d)
    BY <1>1, <1>2 DEF FdsOf
  <2>2. \A g \in FdsOf(d) : /\ handshaken'[g] = handshaken[g]
                            /\ frag_opcode'[g] = frag_opcode[g]
                            /\ frag_buffer'[g] = frag_buffer[g]
    BY <1>1, <1>2, <2>1 DEF FdsOf
  <2> QED
    BY <1>1, <1>2, <2>1, <2>2, ViewKept
<1> QED
  <2>1. /\ UNCHANGED <<heard, max_payload>>
        /\ said' = [said EXCEPT ![c] = @ \o Append(evs, Mark("close"))]
    BY DEF CleanupClient, config
  <2>2. \A d \in Conns \ {c} : Phase(d)' = Phase(d) /\ Part(d)' = Part(d)
    BY <1>6
  <2> QED
    BY <1>5, <2>1, <2>2

\* Serving fd shows at its connection only, and there what becomes of fd's
\* entries.
LEMMA ServeViews ==
  ASSUME Sound, NEW fd \in Fds, owner[fd] \in Conns, UNCHANGED owner,
         \A c \in Conns : cst'[c] = "closed" <=> cst[c] = "closed",
         \A g \in Fds \ {fd} : /\ handshaken'[g] = handshaken[g]
                               /\ frag_opcode'[g] = frag_opcode[g]
                               /\ frag_buffer'[g] = frag_buffer[g]
  PROVE  /\ Phase(owner[fd]) = IF handshaken[fd] THEN "open" ELSE "none"
         /\ Phase(owner[fd])' = IF handshaken'[fd] THEN "open" ELSE "none"
         /\ Part(owner[fd]) = IF frag_opcode[fd] = "cont" THEN Nothing
                              ELSE [op |-> frag_opcode[fd], data |-> frag_buffer[fd]]
         /\ Part(owner[fd])' = IF frag_opcode'[fd] = "cont" THEN Nothing
                               ELSE [op |-> frag_opcode'[fd], data |-> frag_buffer'[fd]]
         /\ \A d \in Conns \ {owner[fd]} : Phase(d)' = Phase(d) /\ Part(d)' = Part(d)
<1> PICK c \in Conns : c = owner[fd]
  OBVIOUS
<1>1. FdsOf(c) = {fd} /\ cst[c] # "closed"
  BY Behind DEF Sound
<1>2. \A d \in Conns : FdsOf(d)' = FdsOf(d)
  BY DEF FdsOf
<1>3. cst'[c] # "closed" /\ FdsOf(c)' = {fd}
  BY <1>1, <1>2
<1>4. ASSUME NEW d \in Conns \ {c} PROVE Phase(d)' = Phase(d) /\ Part(d)' = Part(d)
  <2>1. \A g \in FdsOf(d) : g \in Fds \ {fd}
    BY DEF FdsOf
  <2> QED
    BY <1>2, <2>1, ViewKept
<1> QED
  BY <1>1, <1>3, <1>4, ViewAt, ViewAtNext

\* The handshake is silent until the connection is upgraded or closed.
LEMMA EchoHandshake ==
  ASSUME Sound, NEW fd \in Fds, HandshakeEof(fd) \/ HandshakeRecv(fd)
  PROVE  EchoStep
<1> PICK c : c = owner[fd]
  OBVIOUS
<1>1. c \in Conns /\ pc \in {"scan", "hs"}
  BY DEF Sound, Attended, HandshakeEof, HandshakeRecv, InHandshake, Visit
<1>2. \A d \in Conns : Owed(d) = NoReply
  BY <1>1, OwedBySend
<1>3. CASE HandshakeFails(fd)
  <2>1. CleanupClient(fd, <<>>) /\ pc' \in {"loop", "scan"}
    BY <1>3 DEF HandshakeFails, Resume
  <2>2. \A d \in Conns : Owed(d)' = NoReply
    BY <2>1, OwedBySend
  <2>3. /\ Phase(c)' = "closed" /\ Part(c)' = Nothing /\ Phase(c) # "closed"
        /\ \A d \in Conns \ {c} : Phase(d)' = Phase(d) /\ Part(d)' = Part(d)
        /\ UNCHANGED <<heard, max_payload>>
        /\ said' = [said EXCEPT ![c] = @ \o Append(<<>>, Mark("close"))]
    BY <1>1, <2>1, CleanupViews
  <2>4. Focus(c)
    BY <1>2, <2>2, <2>3 DEF Focus
  <2>5. Service!Close(c)
    BY <1>1, <1>2, <2>2, <2>3, <2>4, EndStep
  <2> QED
    BY <1>1, <2>5 DEF EchoStep, Service!Next
<1>4. CASE ~HandshakeFails(fd)
  <2>1. /\ UNCHANGED <<owner, cst, maps, history, max_payload>>
        /\ Call(fd, Switching) \/ pc' = "hs"
    BY <1>4 DEF HandshakeEof, HandshakeRecv, config
  <2>2. \A d \in Conns : Owed(d)' = NoReply
    BY <2>1 DEF Call, Switching, Owed
  <2>3. \A d \in Conns : Phase(d)' = Phase(d) /\ Part(d)' = Part(d)
    BY <2>1, ViewKept DEF FdsOf, maps
  <2> QED
    BY <1>2, <2>1, <2>2, <2>3, StutterStep DEF EchoStep, history
<1> QED
  BY <1>3, <1>4

-----------------------------------------------------------------------------
(* handle_frame.                                                           *)

\* recv's end of file closes the connection.
LEMMA EchoFrameEof ==
  ASSUME Sound, NEW fd \in Fds, FrameEof(fd)
  PROVE  EchoStep
<1> PICK c : c = owner[fd]
  OBVIOUS
<1>1. /\ c \in Conns /\ pc = "scan" /\ CleanupClient(fd, <<>>) /\ pc' \in {"loop", "scan"}
  BY DEF Sound, Attended, FrameEof, Visit, Resume
<1>2. \A d \in Conns : Owed(d) = NoReply /\ Owed(d)' = NoReply
  BY <1>1, OwedBySend
<1>3. /\ Phase(c)' = "closed" /\ Part(c)' = Nothing /\ Phase(c) # "closed"
      /\ \A d \in Conns \ {c} : Phase(d)' = Phase(d) /\ Part(d)' = Part(d)
      /\ UNCHANGED <<heard, max_payload>>
      /\ said' = [said EXCEPT ![c] = @ \o Append(<<>>, Mark("close"))]
  BY <1>1, CleanupViews
<1>4. Focus(c)
  BY <1>2, <1>3 DEF Focus
<1>5. Service!Close(c)
  BY <1>1, <1>2, <1>3, <1>4, EndStep
<1> QED
  BY <1>1, <1>5 DEF EchoStep, Service!Next

\* The payload has the length its header announces.
LEMMA PayloadLength ==
  ASSUME NEW buf \in Seq(Unit), NEW h \in Kinds, Complete(buf, h)
  PROVE  Len(Payload(buf, h)) = h.len /\ h.len \in Nat
<1>1. h.len \in Nat /\ ParseLimit \in Nat
  BY FramingAssumption DEF FrameKind
<1>2. CASE h.len > ParseLimit
  BY <1>1, <1>2, LenProperties DEF Payload
<1>3. CASE ~(h.len > ParseLimit)
  <2>1. Len(buf) >= HeaderLen + h.len
    BY <1>3 DEF Complete
  <2> QED
    BY <1>1, <1>3, <2>1, SubSeqProperties DEF Payload, HeaderLen
<1> QED
  BY <1>1, <1>2, <1>3

\* handle_frame serves accepted connections.
LEMMA RecvFrameFd ==
  ASSUME Sound, NEW fd \in Fds, NEW h, RecvFrame(fd, h)
  PROVE  owner[fd] \in Conns
  BY DEF Sound, Attended, RecvFrame

\* What a frame shows, before its opcode is looked at: only its connection
\* changes, and what it owes is what send() is called with.
LEMMA FrameViews ==
  ASSUME Sound, NEW fd \in Fds, NEW h \in Kinds, RecvFrame(fd, h),
         NEW c \in Conns, c = owner[fd],
         \A g \in Fds \ {fd} : frag_opcode'[g] = frag_opcode[g] /\ frag_buffer'[g] = frag_buffer[g],
         pc' \in {"loop", "scan", "send"},
         pc' = "send" => cur' = fd /\ reply'.next # "opened"
  PROVE  /\ Focus(c)
         /\ Phase(c) = "open" /\ Phase(c)' = "open"
         /\ Part(c) = IF frag_opcode[fd] = "cont" THEN Nothing
                      ELSE [op |-> frag_opcode[fd], data |-> frag_buffer[fd]]
         /\ Part(c)' = IF frag_opcode'[fd] = "cont" THEN Nothing
                       ELSE [op |-> frag_opcode'[fd], data |-> frag_buffer'[fd]]
         /\ Owed(c) = NoReply
         /\ Owed(c)' = IF pc' = "send"
                       THEN [op |-> reply'.op, data |-> reply'.data, code |-> reply'.code]
                       ELSE NoReply
         /\ UNCHANGED max_payload
<1>1. /\ pc = "scan" /\ handshaken[fd]
      /\ UNCHANGED <<owner, cst, handshaken, max_payload>>
  BY DEF RecvFrame, Visit, config
<1>2. /\ Phase(c) = IF handshaken[fd] THEN "open" ELSE "none"
      /\ Phase(c)' = IF handshaken'[fd] THEN "open" ELSE "none"
      /\ Part(c) = IF frag_opcode[fd] = "cont" THEN Nothing
                   ELSE [op |-> frag_opcode[fd], data |-> frag_buffer[fd]]
      /\ Part(c)' = IF frag_opcode'[fd] = "cont" THEN Nothing
                    ELSE [op |-> frag_opcode'[fd], data |-> frag_buffer'[fd]]
      /\ \A d \in Conns \ {c} : Phase(d)' = Phase(d) /\ Part(d)' = Part(d)
  BY <1>1, ServeViews
<1>3. \A d \in Conns : Owed(d) = NoReply
  BY <1>1, OwedBySend
<1>4. \A d \in Conns \ {c} : Owed(d)' = NoReply
  BY <1>1 DEF Owed
<1>5. Focus(c)
  BY <1>2, <1>3, <1>4 DEF Focus
<1>6. Owed(c)' = IF pc' = "send"
                 THEN [op |-> reply'.op, data |-> reply'.data, code |-> reply'.code]
                 ELSE NoReply
  BY <1>1 DEF Owed
<1> QED
  BY <1>1, <1>2, <1>3, <1>5, <1>6

\* A frame that could not be read.
LEMMA EchoProtocolError ==
  ASSUME Sound, NEW fd \in Fds, NEW h \in Kinds, ProtocolError(fd, h)
  PROVE  EchoStep
<1> PICK c \in Conns : c = owner[fd]
  BY RecvFrameFd DEF ProtocolError, PayloadTooBig
<1>1. /\ RecvFrame(fd, h) /\ Call(fd, CloseWith(1002))
      /\ UNCHANGED <<frag_buffer, frag_opcode, heard, said>>
  BY DEF ProtocolError, history
<1>2. /\ pc' = "send" /\ cur' = fd /\ reply'.next # "opened"
      /\ reply'.op = "close" /\ reply'.data = <<>> /\ reply'.code = 1002
  BY <1>1 DEF Call, CloseWith
<1>3. /\ Focus(c) /\ Phase(c) = "open" /\ Phase(c)' = "open"
      /\ Part(c)' = Part(c) /\ Owed(c) = NoReply
      /\ Owed(c)' = [op |-> "close", data |-> <<>>, code |-> 1002]
      /\ UNCHANGED max_payload
  BY <1>1, <1>2, FrameViews
<1>4. Service!Misread(c)
  BY <1>1, <1>3, MisreadStep
<1> QED
  BY <1>3, <1>4 DEF EchoStep, Service!Next

\* What is read is a frame, as long as its header announces.
LEMMA FrameType ==
  ASSUME Sound, NEW fd \in Fds, NEW h \in Kinds, RecvFrame(fd, h), Complete(FrameBuffer(fd), h)
  PROVE  /\ Parsed(FrameBuffer(fd), h) \in Frame
         /\ Parsed(FrameBuffer(fd), h).data \in Seq(Byte)
         /\ Len(Parsed(FrameBuffer(fd), h).data) = h.len
<1>1. FrameBuffer(fd) \in Seq(Unit)
  BY RecvFrameFd, TakeDropType, ServerAssumption
  DEF FrameBuffer, Sound, Attended, TypeOK, SocketTypes
<1> QED
  BY <1>1, ParsedType, PayloadLength DEF Parsed

\* A frame that was read: the service hears the frame f the server parsed, and
\* measures it as the server did.
LEMMA EchoHeard ==
  ASSUME Sound, NEW fd \in Fds, NEW h \in Kinds, RecvFrame(fd, h),
         Complete(FrameBuffer(fd), h), Hears(fd, Parsed(FrameBuffer(fd), h)),
         NEW c \in Conns, c = owner[fd], Focus(c),
         Phase(c) = "open", Phase(c)' = "open", Owed(c) = NoReply,
         NEW f, f = Parsed(FrameBuffer(fd), h),
         IF TooBig(h)
         THEN Service!TooBig(c)
         ELSE \/ Service!Whole(c, f) \/ Service!Start(c, f)
              \/ Service!Continue(c, f) \/ Service!Control(c, f)
  PROVE  EchoStep
<1>2. f \in Frame /\ Len(f.data) = h.len
  BY FrameType
<1>3. UNCHANGED max_payload /\ heard \in [Conns -> Seq(Frame)]
  BY DEF RecvFrame, config, Sound, Attended, TypeOK, HistoryTypes
<1>4. heard' = [heard EXCEPT ![c] = Append(@, f)]
  BY DEF Hears
<1>5. Service!Hear(c)
  BY <1>2, <1>3, <1>4, HearStep DEF TooBig
<1> QED
  BY <1>5 DEF EchoStep, Service!Next

LEMMA EchoTooBig ==
  ASSUME Sound, NEW fd \in Fds, NEW h \in Kinds, PayloadTooBig(fd, h)
  PROVE  EchoStep
<1> PICK c \in Conns : c = owner[fd]
  BY RecvFrameFd DEF ProtocolError, PayloadTooBig
<1>1. /\ RecvFrame(fd, h) /\ Complete(FrameBuffer(fd), h) /\ TooBig(h)
      /\ Hears(fd, Parsed(FrameBuffer(fd), h)) /\ Call(fd, CloseWith(1009))
      /\ UNCHANGED <<frag_buffer, frag_opcode, said>>
  BY DEF PayloadTooBig
<1>2. /\ pc' = "send" /\ cur' = fd /\ reply'.next # "opened"
      /\ reply'.op = "close" /\ reply'.data = <<>> /\ reply'.code = 1009
  BY <1>1 DEF Call, CloseWith
<1>3. /\ Focus(c) /\ Phase(c) = "open" /\ Phase(c)' = "open"
      /\ Part(c)' = Part(c) /\ Owed(c) = NoReply
      /\ Owed(c)' = [op |-> "close", data |-> <<>>, code |-> 1009]
  BY <1>1, <1>2, FrameViews
<1>4. [d \in Conns |-> Part(d)'] = [d \in Conns |-> Part(d)]
  BY <1>3 DEF Focus
<1>5. Service!TooBig(c)
  BY <1>1, <1>3, <1>4, OwesStep DEF Service!TooBig
<1> QED
  BY <1>1, <1>3, <1>5, EchoHeard

\* A message is delivered and its echo owed.
LEMMA DeliverStep ==
  ASSUME NEW c \in Conns, Focus(c), NEW op, NEW data,
         said' = [said EXCEPT ![c] = @ \o <<OnMessage(op, data)>>],
         Owed(c)' = [op |-> op, data |-> data, code |-> 0]
  PROVE  Service!Deliver(c, op, data)
<1>1. Service!Message(op, data) = OnMessage(op, data)
  BY DEF Service!Message, OnMessage, Record
<1>2. Service!Owes(c, op, data, 0)
  BY OwesStep
<1> QED
  BY <1>1, <1>2 DEF Service!Deliver, Service!Says

LEMMA EchoWhole ==
  ASSUME Sound, NEW fd \in Fds, NEW h \in Kinds, WholeMessage(fd, h)
  PROVE  EchoStep
<1> PICK c \in Conns : c = owner[fd]
  BY RecvFrameFd DEF WholeMessage, FirstFragment, FrameRead
<1> PICK f : f = Parsed(FrameBuffer(fd), h)
  OBVIOUS
<1>1. /\ RecvFrame(fd, h) /\ Complete(FrameBuffer(fd), h) /\ ~TooBig(h)
      /\ Hears(fd, Parsed(FrameBuffer(fd), h)) /\ Call(fd, Echo(f.op, f.data))
      /\ said' = [said EXCEPT ![c] = @ \o <<OnMessage(f.op, f.data)>>]
      /\ h.op \in {"text", "binary"} /\ h.fin
      /\ UNCHANGED <<frag_buffer, frag_opcode>>
  BY DEF WholeMessage, FrameRead, Observe
<1>2. /\ pc' = "send" /\ cur' = fd /\ reply'.next # "opened"
      /\ reply'.op = f.op /\ reply'.data = f.data /\ reply'.code = 0
  BY <1>1 DEF Call, Echo
<1>3. /\ Focus(c) /\ Phase(c) = "open" /\ Phase(c)' = "open"
      /\ Part(c)' = Part(c) /\ Owed(c) = NoReply
      /\ Owed(c)' = [op |-> f.op, data |-> f.data, code |-> 0]
  BY <1>1, <1>2, FrameViews
<1>4. [d \in Conns |-> Part(d)'] = [d \in Conns |-> Part(d)]
  BY <1>3 DEF Focus
<1>5. Service!Whole(c, f)
  BY <1>1, <1>3, <1>4, DeliverStep DEF Service!Whole, Service!Data, Parsed
<1> QED
  BY <1>1, <1>3, <1>5, EchoHeard

\* Nothing is owed after a fragment, and nothing said.
LEMMA FragmentStep ==
  ASSUME NEW c \in Conns, Focus(c), Owed(c) = NoReply, Owed(c)' = NoReply
  PROVE  [d \in Conns |-> Owed(d)'] = [d \in Conns |-> Owed(d)]
  BY DEF Focus

LEMMA EchoFirstFragment ==
  ASSUME Sound, NEW fd \in Fds, NEW h \in Kinds, FirstFragment(fd, h)
  PROVE  EchoStep
<1> PICK c \in Conns : c = owner[fd]
  BY RecvFrameFd DEF WholeMessage, FirstFragment, FrameRead
<1> PICK f : f = Parsed(FrameBuffer(fd), h)
  OBVIOUS
<1>0. /\ frag_buffer \in [Fds -> Seq(Byte)]
      /\ frag_opcode \in [Fds -> {"cont", "text", "binary"}]
  BY DEF Sound, Attended, TypeOK, MemberTypes
<1>1. /\ RecvFrame(fd, h) /\ Complete(FrameBuffer(fd), h) /\ ~TooBig(h)
      /\ Hears(fd, Parsed(FrameBuffer(fd), h)) /\ Store(fd, f.op, f.data)
      /\ h.op \in {"text", "binary"} /\ ~h.fin
      /\ UNCHANGED said /\ pc' \in {"loop", "scan"}
  BY DEF FirstFragment, FrameRead, Resume
<1>2. /\ frag_opcode'[fd] = f.op /\ frag_buffer'[fd] = f.data /\ f.op # "cont"
      /\ f.op = h.op /\ f.fin = h.fin
      /\ \A g \in Fds \ {fd} : frag_opcode'[g] = frag_opcode[g] /\ frag_buffer'[g] = frag_buffer[g]
  BY <1>0, <1>1 DEF Store, Parsed
<1>3. /\ Focus(c) /\ Phase(c) = "open" /\ Phase(c)' = "open"
      /\ Part(c)' = [op |-> f.op, data |-> f.data]
      /\ Owed(c) = NoReply /\ Owed(c)' = NoReply
  BY <1>1, <1>2, FrameViews
<1>4. /\ [d \in Conns |-> Owed(d)'] = [d \in Conns |-> Owed(d)]
      /\ [d \in Conns |-> Part(d)'] = [[d \in Conns |-> Part(d)] EXCEPT ![c] = [op |-> f.op, data |-> f.data]]
  BY <1>3, FragmentStep, FocusViews
<1>5. Service!Start(c, f)
  BY <1>1, <1>2, <1>4 DEF Service!Start, Service!Data
<1> QED
  BY <1>1, <1>3, <1>5, EchoHeard

\* A continuation of nothing is dropped, one that is not the last is kept, and
\* the last delivers the message.
LEMMA EchoContinuation ==
  ASSUME Sound, NEW fd \in Fds, NEW h \in Kinds, Continuation(fd, h)
  PROVE  EchoStep
<1> PICK c \in Conns : c = owner[fd]
  BY RecvFrameFd DEF Continuation, FrameRead
<1> PICK f : f = Parsed(FrameBuffer(fd), h)
  OBVIOUS
<1> PICK base : base = frag_opcode[fd]
  OBVIOUS
<1> PICK bufv : bufv = frag_buffer[fd] \o f.data
  OBVIOUS
<1>0. /\ frag_buffer \in [Fds -> Seq(Byte)]
      /\ frag_opcode \in [Fds -> {"cont", "text", "binary"}]
  BY DEF Sound, Attended, TypeOK, MemberTypes
<1>1. /\ RecvFrame(fd, h) /\ Complete(FrameBuffer(fd), h) /\ ~TooBig(h)
      /\ Hears(fd, Parsed(FrameBuffer(fd), h)) /\ h.op = "cont"
      /\ Assembled(fd, h.fin, base, bufv)
      /\ IF h.fin /\ base # "cont"
         THEN Call(fd, Echo(base, bufv)) /\ Observe(fd, <<OnMessage(base, bufv)>>)
         ELSE pc' = Resume(readfds') /\ Observe(fd, <<>>)
  BY DEF Continuation, FrameRead
<1>2. f.op = "cont" /\ f.fin = h.fin
  BY <1>1 DEF Parsed
<1>3. /\ frag_opcode'[fd] = IF h.fin THEN "cont" ELSE base
      /\ frag_buffer'[fd] = IF h.fin THEN <<>> ELSE bufv
      /\ \A g \in Fds \ {fd} : frag_opcode'[g] = frag_opcode[g] /\ frag_buffer'[g] = frag_buffer[g]
  BY <1>0, <1>1 DEF Assembled, Store
<1>4. IF h.fin /\ base # "cont"
      THEN /\ pc' = "send" /\ cur' = fd /\ reply'.next # "opened"
           /\ reply'.op = base /\ reply'.data = bufv /\ reply'.code = 0
           /\ said' = [said EXCEPT ![c] = @ \o <<OnMessage(base, bufv)>>]
      ELSE pc' \in {"loop", "scan"} /\ said' = said
  <2>1. CASE h.fin /\ base # "cont"
    <3>1. said' = [said EXCEPT ![c] = @ \o <<OnMessage(base, bufv)>>]
      BY <1>1, <2>1 DEF Observe
    <3>2. Call(fd, Echo(base, bufv))
      BY <1>1, <2>1
    <3> QED
      BY <2>1, <3>1, <3>2 DEF Call, Echo
  <2>2. CASE ~(h.fin /\ base # "cont")
    <3>1. said \in [Conns -> Seq(Event)]
      BY DEF Sound, Attended, TypeOK, HistoryTypes
    <3>2. said[c] \o <<>> = said[c]
      BY <3>1, ConcatEmptySeq
    <3> QED
      BY <1>1, <2>2, <3>1, <3>2 DEF Observe, Resume
  <2> QED
    BY <2>1, <2>2
<1>5. /\ Focus(c) /\ Phase(c) = "open" /\ Phase(c)' = "open" /\ Owed(c) = NoReply
      /\ Part(c) = IF base = "cont" THEN Nothing ELSE [op |-> base, data |-> frag_buffer[fd]]
      /\ Part(c)' = IF h.fin \/ base = "cont" THEN Nothing ELSE [op |-> base, data |-> bufv]
      /\ Owed(c)' = IF h.fin /\ base # "cont"
                    THEN [op |-> base, data |-> bufv, code |-> 0] ELSE NoReply
  <2>1. /\ pc' \in {"loop", "scan", "send"}
        /\ pc' = "send" => cur' = fd /\ reply'.next # "opened"
    BY <1>4
  <2>2. /\ Focus(c) /\ Phase(c) = "open" /\ Phase(c)' = "open" /\ Owed(c) = NoReply
        /\ Part(c) = IF frag_opcode[fd] = "cont" THEN Nothing
                     ELSE [op |-> frag_opcode[fd], data |-> frag_buffer[fd]]
        /\ Part(c)' = IF frag_opcode'[fd] = "cont" THEN Nothing
                      ELSE [op |-> frag_opcode'[fd], data |-> frag_buffer'[fd]]
        /\ Owed(c)' = IF pc' = "send"
                      THEN [op |-> reply'.op, data |-> reply'.data, code |-> reply'.code]
                      ELSE NoReply
    BY <1>1, <1>3, <2>1, FrameViews
  <2> QED
    BY <1>3, <1>4, <2>2
<1>6. [d \in Conns |-> Part(d)][c] = Part(c)
  OBVIOUS
<1>7. [op |-> base, data |-> frag_buffer[fd]] # Nothing <=> base # "cont" \/ frag_buffer[fd] # <<>>
  BY DEF Nothing
<1>8. /\ [d \in Conns |-> Part(d)'] = [[d \in Conns |-> Part(d)] EXCEPT ![c] = Part(c)']
      /\ [d \in Conns |-> Owed(d)'] = [[d \in Conns |-> Owed(d)] EXCEPT ![c] = Owed(c)']
  BY <1>5, FocusViews
<1>9. CASE base = "cont"
  <2>1. /\ [d \in Conns |-> Part(d)'] = [d \in Conns |-> Part(d)]
        /\ [d \in Conns |-> Owed(d)'] = [d \in Conns |-> Owed(d)]
    BY <1>5, <1>9 DEF Focus
  <2>2. Service!Continue(c, f)
    BY <1>2, <1>4, <1>5, <1>6, <1>9, <2>1 DEF Service!Continue, Service!Nothing, Nothing
  <2> QED
    BY <1>1, <1>5, <2>2, EchoHeard
<1>10. CASE base # "cont" /\ ~h.fin
  <2>1. [d \in Conns |-> Owed(d)'] = [d \in Conns |-> Owed(d)]
    BY <1>5, <1>10 DEF Focus
  <2>2. [d \in Conns |-> Part(d)'] =
          [[d \in Conns |-> Part(d)] EXCEPT
             ![c] = [op |-> [d \in Conns |-> Part(d)][c].op,
                     data |-> [d \in Conns |-> Part(d)][c].data \o f.data]]
    <3>1. Part(c).op = base /\ Part(c).data = frag_buffer[fd]
      BY <1>5, <1>10
    <3>2. [op |-> Part(c).op, data |-> Part(c).data \o f.data] = Part(c)'
      BY <1>5, <1>10, <3>1
    <3> QED
      BY <1>6, <1>8, <3>2
  <2>3. [d \in Conns |-> Part(d)][c] # Service!Nothing
    BY <1>5, <1>6, <1>7, <1>10 DEF Service!Nothing, Nothing
  <2>4. Service!Continue(c, f)
    BY <1>2, <1>4, <1>10, <2>1, <2>2, <2>3 DEF Service!Continue
  <2> QED
    BY <1>1, <1>5, <2>4, EchoHeard
<1>11. CASE base # "cont" /\ h.fin
  <2>1. [d \in Conns |-> Part(d)'] = [[d \in Conns |-> Part(d)] EXCEPT ![c] = Service!Nothing]
    BY <1>5, <1>8, <1>11 DEF Service!Nothing, Nothing
  <2>2. Service!Deliver(c, base, bufv)
    BY <1>4, <1>5, <1>11, DeliverStep
  <2>3. /\ [d \in Conns |-> Part(d)][c] # Service!Nothing
        /\ [d \in Conns |-> Part(d)][c].op = base
        /\ [d \in Conns |-> Part(d)][c].data = frag_buffer[fd]
    BY <1>5, <1>6, <1>7, <1>11 DEF Service!Nothing, Nothing
  <2>4. Service!Continue(c, f)
    BY <1>2, <1>11, <2>1, <2>2, <2>3 DEF Service!Continue
  <2> QED
    BY <1>1, <1>5, <2>4, EchoHeard
<1> QED
  BY <1>9, <1>10, <1>11

\* Pings, closes and opcodes nobody understands are answered.
LEMMA EchoControl ==
  ASSUME Sound, NEW fd \in Fds, NEW h \in Kinds, Ping(fd, h) \/ CloseOrUnknown(fd, h)
  PROVE  EchoStep
<1> PICK c \in Conns : c = owner[fd]
  BY RecvFrameFd DEF Ping, CloseOrUnknown, FrameRead
<1> PICK f : f = Parsed(FrameBuffer(fd), h)
  OBVIOUS
<1>1. /\ RecvFrame(fd, h) /\ Complete(FrameBuffer(fd), h) /\ ~TooBig(h)
      /\ Hears(fd, Parsed(FrameBuffer(fd), h))
      /\ UNCHANGED <<frag_buffer, frag_opcode, said>>
  BY DEF Ping, CloseOrUnknown, FrameRead
<1>2. /\ pc' = "send" /\ cur' = fd /\ reply'.next # "opened"
      /\ \/ f.op = "ping" /\ reply'.op = "pong" /\ reply'.data = f.data /\ reply'.code = 0
         \/ f.op = "close" /\ reply'.op = "close" /\ reply'.data = <<>> /\ reply'.code = 1000
         \/ /\ f.op \in {"pong", "reserved"}
            /\ reply'.op = "close" /\ reply'.data = <<>> /\ reply'.code = 1002
  <2>1. h.op \in Opcodes /\ f.op = h.op
    BY FramingAssumption DEF FrameKind, Parsed
  <2>2. CASE Ping(fd, h)
    BY <2>1, <2>2 DEF Ping, Call, Pong, Parsed
  <2>3. CASE CloseOrUnknown(fd, h)
    BY <2>1, <2>3 DEF CloseOrUnknown, Call, CloseWith, Opcodes
  <2> QED
    BY <2>2, <2>3
<1>3. /\ Focus(c) /\ Phase(c) = "open" /\ Phase(c)' = "open"
      /\ Part(c)' = Part(c) /\ Owed(c) = NoReply
      /\ Owed(c)' = [op |-> reply'.op, data |-> reply'.data, code |-> reply'.code]
  BY <1>1, <1>2, FrameViews
<1>4. [d \in Conns |-> Part(d)'] = [d \in Conns |-> Part(d)]
  BY <1>3 DEF Focus
<1>5. Service!Owes(c, reply'.op, reply'.data, reply'.code)
  BY <1>3, OwesStep
<1>6. Service!Control(c, f)
  BY <1>1, <1>2, <1>4, <1>5 DEF Service!Control
<1> QED
  BY <1>1, <1>3, <1>6, EchoHeard

LEMMA EchoHandleFrame ==
  ASSUME Sound, NEW fd \in Fds, HandleFrame(fd)
  PROVE  EchoStep
  BY EchoFrameEof, EchoProtocolError, EchoTooBig, EchoWhole, EchoFirstFragment,
     EchoContinuation, EchoControl DEF HandleFrame

-----------------------------------------------------------------------------
(* send().                                                                 *)

LEMMA EchoSend ==
  ASSUME Sound, Send
  PROVE  EchoStep
<1>0. /\ pc = "send" /\ cur \in Fds /\ owner[cur] \in Conns
  BY DEF Sound, Attended, Send, Opened, NotOpened, SigPipe, Replied, Closed, SendReturns
<1> PICK c \in Conns : c = owner[cur]
  BY <1>0
<1>1. /\ handshaken[cur] <=> reply.next # "opened"
      /\ reply.next = "opened" => reply = Switching
      /\ reply.next = "close" <=> reply.op = "close"
  BY <1>0 DEF Sound, Talk
<1>2. \A d \in Conns \ {c} : Owed(d) = NoReply
  BY DEF Owed
<1>3. Owed(c) = IF reply.next = "opened" THEN NoReply
                ELSE [op |-> reply.op, data |-> reply.data, code |-> reply.code]
  BY <1>0 DEF Owed
<1>4. /\ Phase(c) = IF handshaken[cur] THEN "open" ELSE "none"
      /\ cst[c] # "closed"
  <2>1. FdsOf(c) = {cur} /\ cst[c] # "closed"
    BY <1>0, Behind DEF Sound
  <2> QED
    BY <2>1, ViewAt
<1>5. ASSUME NEW e, SendReturns(e)
      PROVE  \A d \in Conns : Owed(d)' = NoReply
  BY <1>5, OwedBySend DEF SendReturns, Resume
<1>6. CASE SigPipe
  BY <1>6, UnseenStep DEF Sound, SigPipe, sockets, config, FdsOf
<1>7. CASE Opened
  <2>1. /\ UNCHANGED <<owner, cst, frag_buffer, frag_opcode, heard, max_payload>>
        /\ handshaken' = [handshaken EXCEPT ![cur] = TRUE]
        /\ said' = [said EXCEPT ![c] = @ \o <<Written("send", Switching), Mark("open")>>]
        /\ reply.next = "opened"
    BY <1>1, <1>7 DEF Opened, Observe, config
  <2>2. handshaken'[cur] /\ \A g \in Fds \ {cur} : handshaken'[g] = handshaken[g]
    BY <1>0, <2>1 DEF Sound, Attended, TypeOK, MemberTypes
  <2>3. /\ Phase(c)' = "open" /\ Part(c)' = Part(c)
        /\ \A d \in Conns \ {c} : Phase(d)' = Phase(d) /\ Part(d)' = Part(d)
    BY <1>0, <2>1, <2>2, ServeViews
  <2>4. \A d \in Conns : Owed(d) = NoReply /\ Owed(d)' = NoReply
    BY <1>2, <1>3, <1>5, <1>7, <2>1 DEF Opened
  <2>5. Focus(c)
    BY <2>3, <2>4 DEF Focus
  <2>6. Service!Open(c)
    BY <1>1, <1>4, <2>1, <2>3, <2>4, <2>5, OpenStep
  <2> QED
    BY <2>6 DEF EchoStep, Service!Next
<1>8. CASE NotOpened
  <2>1. /\ CleanupClient(cur, <<Written("lost", Switching)>>) /\ reply.next = "opened"
        /\ SendReturns("lost")
    BY <1>1, <1>8 DEF NotOpened
  <2>2. /\ Phase(c)' = "closed" /\ Part(c)' = Nothing
        /\ \A d \in Conns \ {c} : Phase(d)' = Phase(d) /\ Part(d)' = Part(d)
        /\ UNCHANGED <<heard, max_payload>>
        /\ said' = [said EXCEPT ![c] = @ \o Append(<<Written("lost", Switching)>>, Mark("close"))]
    BY <1>0, <2>1, CleanupViews
  <2>3. \A d \in Conns : Owed(d) = NoReply /\ Owed(d)' = NoReply
    BY <1>2, <1>3, <1>5, <2>1
  <2>4. Focus(c)
    BY <2>2, <2>3 DEF Focus
  <2>5. Service!Refuse(c)
    BY <1>1, <1>4, <2>1, <2>2, <2>3, <2>4, EndStep
  <2> QED
    BY <2>5 DEF EchoStep, Service!Next
<1>9. ASSUME NEW e \in {"send", "lost"}, Replied(e)
      PROVE  EchoStep
  <2>1. /\ UNCHANGED <<owner, maps, heard, max_payload>>
        /\ cst' = [cst EXCEPT ![c] = IF e = "lost" THEN "pipe" ELSE @]
        /\ said' = [said EXCEPT ![c] = @ \o <<Written(e, reply)>>]
        /\ SendReturns(e) /\ reply.next = "keep"
    BY <1>9 DEF Replied, Observe, config
  <2>2. \A d \in Conns : cst'[d] = "closed" <=> cst[d] = "closed"
    BY <1>4, <2>1 DEF Sound, Attended, TypeOK, SocketTypes
  <2>3. \A d \in Conns : Phase(d)' = Phase(d) /\ Part(d)' = Part(d)
    BY <2>1, <2>2, ViewKept DEF FdsOf, maps
  <2>4. \A d \in Conns : Owed(d)' = NoReply
    BY <1>5, <2>1
  <2>5. Focus(c)
    BY <1>2, <2>3, <2>4 DEF Focus
  <2>6. /\ Owed(c) = [op |-> reply.op, data |-> reply.data, code |-> reply.code]
        /\ Owed(c) # NoReply /\ reply.op # "close"
    BY <1>1, <1>3, <2>1, OwedIsNot
  <2>7. Service!Reply(c)
    BY <2>1, <2>3, <2>4, <2>5, <2>6, ReplyStep
  <2> QED
    BY <2>7 DEF EchoStep, Service!Next
<1>10. ASSUME NEW e \in {"send", "lost"}, Closed(e)
       PROVE  EchoStep
  <2>1. /\ CleanupClient(cur, <<Written(e, reply)>>) /\ reply.next = "close"
        /\ SendReturns(e)
    BY <1>10 DEF Closed
  <2>2. /\ Phase(c)' = "closed" /\ Part(c)' = Nothing
        /\ \A d \in Conns \ {c} : Phase(d)' = Phase(d) /\ Part(d)' = Part(d)
        /\ UNCHANGED <<heard, max_payload>>
        /\ said' = [said EXCEPT ![c] = @ \o Append(<<Written(e, reply)>>, Mark("close"))]
    BY <1>0, <2>1, CleanupViews
  <2>3. \A d \in Conns : Owed(d)' = NoReply
    BY <1>5, <2>1
  <2>4. Focus(c)
    BY <1>2, <2>2, <2>3 DEF Focus
  <2>5. /\ Owed(c) = [op |-> reply.op, data |-> reply.data, code |-> reply.code]
        /\ Owed(c) # NoReply /\ reply.op = "close"
    BY <1>1, <1>3, <2>1, OwedIsNot
  <2>6. Service!Reply(c)
    BY <2>2, <2>3, <2>4, <2>5, ReplyStep
  <2> QED
    BY <2>6 DEF EchoStep, Service!Next
<1> QED
  BY <1>6, <1>7, <1>8, <1>9, <1>10 DEF Send

-----------------------------------------------------------------------------
(* Talk is preserved.                                                      *)

\* Where the thread is and what it has been called with.
Reach ==
  /\ pc = "hs" => ~handshaken[cur]
  /\ pc \in {"send", "dead"} =>
       /\ handshaken[cur] <=> reply.next # "opened"
       /\ reply.next = "opened" => reply = Switching
       /\ reply.next = "close" <=> reply.op = "close"

\* Nothing is said to a connection before it is accepted.
Silent == \A c \in Conns : c \in Queued \/ cst[c] = "new" => said[c] = <<>>

LEMMA TalkParts == /\ Talk <=> Reach /\ Silent
                   /\ Talk' <=> Reach' /\ Silent'
  BY DEF Talk, Reach, Silent

LEMMA ReachAway ==
  \/ pc' \notin {"hs", "send", "dead"}
  \/ Reach /\ UNCHANGED <<pc, cur, reply, handshaken>>
  => Reach'
  BY DEF Reach

LEMMA SilentKept ==
  ASSUME Silent, UNCHANGED said,
         \A c \in Conns : c \in Queued' \/ cst'[c] = "new" => c \in Queued \/ cst[c] = "new"
  PROVE  Silent'
  BY DEF Silent

\* Something may be said to the connection behind a descriptor.
LEMMA SilentAt ==
  ASSUME Sound, NEW fd \in Fds, owner[fd] \in Conns, UNCHANGED acceptq,
         \A c \in Conns : cst'[c] = "new" => cst[c] = "new",
         NEW evs, said' = [said EXCEPT ![owner[fd]] = evs]
  PROVE  Silent'
<1>1. owner[fd] \notin Queued /\ cst[owner[fd]] # "new"
  BY Behind DEF Sound
<1>2. Queued' = Queued
  BY DEF Queued
<1>3. Silent /\ said \in [Conns -> Seq(Event)]
  BY TalkParts DEF Sound, Attended, TypeOK, HistoryTypes
<1>4. ASSUME NEW c \in Conns, c \in Queued' \/ cst'[c] = "new"
      PROVE  said'[c] = <<>>
  <2>1. c # owner[fd] /\ (c \in Queued \/ cst[c] = "new")
    BY <1>1, <1>2, <1>4
  <2> QED
    BY <1>3, <2>1 DEF Silent
<1> QED
  BY <1>4 DEF Silent

LEMMA TalkClient ==
  ASSUME Sound, NEW c \in Conns, Client(c)
  PROVE  Talk'
<1>1. UNCHANGED <<said, pc, cur, reply, handshaken>>
  BY DEF Client, Connect, SendRequest, SendFrame, SendItem, Deliver, Read, Finish, Reset,
         maps, locals, history
<1>2. /\ cst \in [Conns -> {"new", "up", "fin", "rst", "pipe", "closed"}]
      /\ acceptq \in Seq(Conns)
  BY DEF Sound, Attended, TypeOK, SocketTypes
<1>3. ASSUME NEW d \in Conns, d \in Queued' \/ cst'[d] = "new"
      PROVE  d \in Queued \/ cst[d] = "new"
  <2>1. CASE Connect(c)
    <3>1. cst[c] = "new" /\ cst' = [cst EXCEPT ![c] = "up"] /\ acceptq' = Append(acceptq, c)
      BY <2>1 DEF Connect
    <3>2. /\ DOMAIN acceptq = 1 .. Len(acceptq) /\ DOMAIN acceptq' = 1 .. Len(acceptq) + 1
          /\ Len(acceptq) \in Nat /\ acceptq'[Len(acceptq) + 1] = c
          /\ \A i \in 1 .. Len(acceptq) : acceptq'[i] = acceptq[i]
      BY <1>2, <3>1, AppendProperties, LenProperties
    <3>3. Queued' \subseteq Queued \cup {c}
      BY <3>2 DEF Queued
    <3> QED
      BY <1>2, <1>3, <3>1, <3>3
  <2>2. CASE ~Connect(c)
    <3>1. /\ acceptq' = acceptq
          /\ \/ cst' = cst
             \/ \E x \in {"fin", "rst", "pipe"} : cst' = [cst EXCEPT ![c] = x]
      BY <2>2 DEF Client, SendRequest, SendFrame, SendItem, Deliver, Read, Finish, Reset
    <3> QED
      BY <1>2, <1>3, <3>1 DEF Queued
  <2> QED
    BY <2>1, <2>2
<1> QED
  BY <1>1, <1>3, TalkParts, ReachAway, SilentKept DEF Sound

LEMMA TalkApplication ==
  ASSUME Sound, Application \/ Run \/ \E others : SelectAlso(others)
  PROVE  Talk'
<1>1. /\ UNCHANGED <<said, acceptq, cst>>
      /\ pc' \notin {"hs", "send", "dead"} \/ UNCHANGED <<pc, cur, reply, handshaken>>
  BY DEF Application, SetBacklog, SetMaxPayload, SetStop, AppOpen, AppClose, Run, SelectAlso,
         sockets, maps, locals, history
<1> QED
  BY <1>1, TalkParts, ReachAway, SilentKept DEF Sound, Queued

LEMMA TalkLeave ==
  ASSUME Sound, Leave
  PROVE  Talk'
<1>1. /\ pc' = "stopped" /\ acceptq' = <<>> /\ UNCHANGED said
      /\ \A c \in Conns : cst'[c] = "new" => cst[c] = "new"
  BY DEF Leave, history
<1> QED
  BY <1>1, TalkParts, ReachAway, SilentKept DEF Sound, Queued

LEMMA TalkAccept ==
  ASSUME Sound, Accept
  PROVE  Talk'
<1>1. UNCHANGED <<cst, said>> /\ pc' \in {"loop", "scan"}
  BY DEF Accept, Resume, history
<1>2. acceptq \in Seq(Conns) /\ acceptq # <<>> /\ acceptq' \in {acceptq, Tail(acceptq)}
  BY DEF Sound, Attended, TypeOK, SocketTypes, Accept
<1>3. Queued' \subseteq Queued
  <2>1. /\ Len(Tail(acceptq)) = Len(acceptq) - 1 /\ Tail(acceptq) \in Seq(Conns)
        /\ \A i \in 1 .. Len(Tail(acceptq)) : Tail(acceptq)[i] = acceptq[i + 1]
    BY <1>2, HeadTailProperties
  <2>2. \A i \in 1 .. Len(Tail(acceptq)) : Tail(acceptq)[i] \in Queued
    BY <1>2, <2>1, LenProperties DEF Queued
  <2> QED
    BY <1>2, <2>1, <2>2, LenProperties DEF Queued
<1> QED
  BY <1>1, <1>3, TalkParts, ReachAway, SilentKept DEF Sound

LEMMA TalkCleanup ==
  ASSUME Sound, NEW fd \in Fds, owner[fd] \in Conns, NEW evs, CleanupClient(fd, evs),
         pc' \in {"loop", "scan"}
  PROVE  Talk'
<1>1. /\ UNCHANGED acceptq
      /\ said' = [said EXCEPT ![owner[fd]] = @ \o Append(evs, Mark("close"))]
      /\ cst' = [cst EXCEPT ![owner[fd]] = "closed"]
  BY DEF CleanupClient
<1>2. cst \in [Conns -> {"new", "up", "fin", "rst", "pipe", "closed"}]
  BY DEF Sound, Attended, TypeOK, SocketTypes
<1>3. \A c \in Conns : cst'[c] = "new" => cst[c] = "new"
  BY <1>1, <1>2
<1> QED
  BY <1>1, <1>3, TalkParts, ReachAway, SilentAt

LEMMA TalkHandshake ==
  ASSUME Sound, NEW fd \in Fds, HandshakeEof(fd) \/ HandshakeRecv(fd)
  PROVE  Talk'
<1>1. owner[fd] \in Conns /\ ~handshaken[fd]
  BY DEF Sound, Attended, Talk, HandshakeEof, HandshakeRecv, InHandshake
<1>2. CASE HandshakeFails(fd)
  BY <1>1, <1>2, TalkCleanup DEF HandshakeFails, Resume
<1>3. CASE ~HandshakeFails(fd)
  <2>1. /\ UNCHANGED <<cst, acceptq, said, handshaken>>
        /\ Call(fd, Switching) \/ (pc' = "hs" /\ cur' = fd)
    BY <1>3 DEF HandshakeEof, HandshakeRecv, maps, history
  <2>2. Reach'
    BY <1>1, <2>1 DEF Reach, Call, Switching
  <2> QED
    BY <2>1, <2>2, TalkParts, SilentKept DEF Sound, Queued
<1> QED
  BY <1>2, <1>3

\* Replies to frames never open a connection, and close it when they are close
\* frames.
LEMMA TalkFrame ==
  ASSUME Sound, NEW fd \in Fds, NEW h \in Kinds, RecvFrame(fd, h),
         UNCHANGED said \/ \E evs : Observe(fd, evs),
         \/ pc' \in {"loop", "scan"}
         \/ /\ pc' = "send" /\ cur' = fd /\ reply'.next \in {"keep", "close"}
            /\ reply'.next = "close" <=> reply'.op = "close"
  PROVE  Talk'
<1>1. /\ owner[fd] \in Conns /\ handshaken[fd]
      /\ UNCHANGED <<cst, acceptq, handshaken>>
  BY DEF Sound, Attended, RecvFrame
<1>2. Reach'
  BY <1>1 DEF Reach
<1>3. Silent'
  <2>1. CASE UNCHANGED said
    BY <1>1, <2>1, TalkParts, SilentKept DEF Sound, Queued
  <2>2. ASSUME NEW evs, Observe(fd, evs)
        PROVE  Silent'
    BY <1>1, <2>2, SilentAt DEF Observe
  <2> QED
    BY <2>1, <2>2
<1> QED
  BY <1>2, <1>3, TalkParts

LEMMA TalkHandleFrame ==
  ASSUME Sound, NEW fd \in Fds, HandleFrame(fd)
  PROVE  Talk'
<1>1. CASE FrameEof(fd)
  BY <1>1, TalkCleanup DEF FrameEof, Resume, Sound, Attended
<1>2. ASSUME NEW h \in Kinds, ProtocolError(fd, h) \/ PayloadTooBig(fd, h)
      PROVE  Talk'
  BY <1>2, TalkFrame DEF ProtocolError, PayloadTooBig, Call, CloseWith, history
<1>3. ASSUME NEW h \in Kinds, WholeMessage(fd, h) \/ Ping(fd, h)
      PROVE  Talk'
  <2>1. h.op \in {"text", "binary"} \/ h.op = "ping"
    BY <1>3 DEF WholeMessage, Ping
  <2> QED
    BY <1>3, <2>1, TalkFrame DEF WholeMessage, Ping, FrameRead, Call, Echo, Pong, Parsed
<1>4. ASSUME NEW h \in Kinds, FirstFragment(fd, h) \/ CloseOrUnknown(fd, h)
      PROVE  Talk'
  BY <1>4, TalkFrame DEF FirstFragment, CloseOrUnknown, FrameRead, Resume, Call, CloseWith
<1>5. ASSUME NEW h \in Kinds, Continuation(fd, h)
      PROVE  Talk'
  <2> PICK base, bufv : /\ base = frag_opcode[fd]
                        /\ bufv = frag_buffer[fd] \o Parsed(FrameBuffer(fd), h).data
    OBVIOUS
  <2>1. base \in {"cont", "text", "binary"}
    BY DEF Sound, Attended, TypeOK, MemberTypes
  <2>2. /\ RecvFrame(fd, h) /\ \E evs : Observe(fd, evs)
        /\ \/ pc' \in {"loop", "scan"}
           \/ Call(fd, Echo(base, bufv))
    BY <1>5 DEF Continuation, FrameRead, Resume
  <2> QED
    <3>1. \/ pc' \in {"loop", "scan"}
          \/ pc' = "send" /\ cur' = fd /\ reply'.next = "keep" /\ reply'.op = base
      <4> PICK r : r = Echo(base, bufv)
        OBVIOUS
      <4>1. r.next = "keep" /\ r.op = base
        BY Zenon DEF Echo
      <4> QED
        BY <2>2, <4>1 DEF Call
    <3> QED
      BY <2>1, <2>2, <3>1, TalkFrame
<1> QED
  BY <1>1, <1>2, <1>3, <1>4, <1>5 DEF HandleFrame

LEMMA TalkSend ==
  ASSUME Sound, Send
  PROVE  Talk'
<1>0. /\ pc = "send" /\ cur \in Fds /\ owner[cur] \in Conns
  BY DEF Sound, Attended, Send, Opened, NotOpened, SigPipe, Replied, Closed, SendReturns
<1>1. CASE NotOpened \/ \E e \in {"send", "lost"} : Closed(e)
  BY <1>0, <1>1, TalkCleanup DEF NotOpened, Closed, SendReturns, Resume
<1>2. CASE Opened
  <2>1. pc' \in {"loop", "scan"} /\ UNCHANGED <<acceptq, cst>>
    BY <1>2 DEF Opened, SendReturns, Resume
  <2>2. Silent'
    BY <1>0, <1>2, <2>1, SilentAt DEF Opened, Observe
  <2> QED
    BY <2>1, <2>2, TalkParts, ReachAway
<1>3. ASSUME NEW e \in {"send", "lost"}, Replied(e)
      PROVE  Talk'
  <2>1. pc' \in {"loop", "scan"} /\ UNCHANGED acceptq
    BY <1>3 DEF Replied, SendReturns, Resume
  <2>2. \A c \in Conns : cst'[c] = "new" => cst[c] = "new"
    BY <1>3 DEF Replied, Sound, Attended, TypeOK, SocketTypes
  <2>3. Silent'
    BY <1>0, <1>3, <2>1, <2>2, SilentAt DEF Replied, Observe
  <2> QED
    BY <2>1, <2>3, TalkParts, ReachAway
<1>4. CASE SigPipe
  <2>1. pc' = "dead" /\ UNCHANGED <<cst, acceptq, said, handshaken, cur, reply>>
    BY <1>4 DEF SigPipe, sockets, maps, history
  <2>2. Reach'
    BY <1>0, <2>1, TalkParts DEF Sound, Reach
  <2> QED
    BY <2>1, <2>2, TalkParts, SilentKept DEF Sound, Queued
<1> QED
  BY <1>1, <1>2, <1>3, <1>4 DEF Send

-----------------------------------------------------------------------------
(* The theorems.                                                           *)

LEMMA EchoInit == Init => Service!Init /\ Talk
<1> SUFFICES ASSUME Init PROVE Service!Init /\ Talk
  OBVIOUS
<1>1. \A c \in Conns : FdsOf(c) = {}
  BY ServerAssumption DEF Init, FdsOf
<1>2. /\ \A c \in Conns : cst[c] = "new" /\ heard[c] = <<>> /\ said[c] = <<>>
      /\ pc = "idle" /\ max_payload \in Int
      /\ heard = [c \in Conns |-> <<>>] /\ said = [c \in Conns |-> <<>>]
  BY FramingAssumption DEF Init
<1>3. \A c \in Conns : Phase(c) = "none" /\ Part(c) = Nothing /\ Owed(c) = NoReply
  BY <1>1, <1>2, ViewOff, OwedBySend
<1>4. Service!Init
  BY <1>2, <1>3 DEF Service!Init, Service!Nothing, Nothing
<1>5. Talk
  BY <1>2 DEF Talk
<1> QED
  BY <1>4, <1>5

\* Every step of the server is a step of the service or none, and keeps Talk.
LEMMA EchoNext ==
  ASSUME Sound, [Next]_vars
  PROVE  EchoStep /\ Talk'
<1>1. CASE UNCHANGED vars
  <2>1. EchoStep
    BY <1>1, UnseenStep DEF Sound, vars, sockets, config, locals, FdsOf
  <2>2. Talk'
    BY <1>1 DEF Sound, Talk, Queued, vars, sockets, maps, locals, history
  <2> QED
    BY <2>1, <2>2
<1>2. CASE Run \/ Application \/ \E c \in Conns : Client(c)
  BY <1>2, EchoRun, EchoApplication, EchoClient, TalkApplication, TalkClient DEF Sound
<1>3. CASE Select
  BY <1>3, EchoSelect, TalkApplication DEF Sound, Select
<1>4. CASE Leave
  BY <1>4, EchoLeave, TalkLeave
<1>5. CASE Accept
  BY <1>5, EchoAccept, TalkAccept
<1>6. CASE Send
  BY <1>6, EchoSend, TalkSend
<1>7. ASSUME NEW fd \in Fds, HandshakeEof(fd) \/ HandshakeRecv(fd) \/ HandleFrame(fd)
      PROVE  EchoStep /\ Talk'
  BY <1>7, EchoHandshake, TalkHandshake, EchoHandleFrame, TalkHandleFrame
<1> QED
  BY <1>1, <1>2, <1>3, <1>4, <1>5, <1>6, <1>7 DEF Next, ServerStep, Stop, SelectFails

\* Talk is an invariant, given the others.
THEOREM TalkHolds == Spec => []Talk
<1>1. Init => Talk
  BY EchoInit
<1>2. Inv /\ Accounted /\ Talk /\ [Next]_vars => Talk'
  BY InvAttended, EchoNext DEF Sound
<1> QED
  BY <1>1, <1>2, InvHolds, AllAccounted, PTL DEF Spec

\* The server implements the service: whatever the interleaving, and however
\* often a descriptor is handed out again, no connection's fragments, callbacks
\* or replies get into another's.
THEOREM EchoImplemented == Spec => ImplementsEcho
<1>1. Init => Service!Init
  BY EchoInit
<1>2. Inv /\ Accounted /\ Talk /\ [Next]_vars => [Service!Next]_(Service!vars)
  BY InvAttended, EchoNext DEF Sound, EchoStep
<1> QED
  BY <1>1, <1>2, InvHolds, AllAccounted, TalkHolds, PTL DEF Spec, ImplementsEcho, Service!Spec

-----------------------------------------------------------------------------
(* Invented payloads.                                                      *)

\* Only a payload that was not in the buffer holds the zero byte.
LEMMA ZeroFromResize ==
  ASSUME NEW buf \in Seq(Unit), NEW h \in Kinds, Complete(buf, h),
         Zero \in Range(Payload(buf, h))
  PROVE  h.len > ParseLimit
<1>1. h.len \in Nat /\ ParseLimit \in Nat /\ Zero \notin Unit
  BY FramingAssumption DEF FrameKind
<1>2. CASE ~(h.len > ParseLimit)
  <2>1. Len(buf) >= HeaderLen + h.len
    BY <1>2 DEF Complete
  <2>2. \A p \in DOMAIN SubSeq(buf, HeaderLen + 1, HeaderLen + h.len) :
          SubSeq(buf, HeaderLen + 1, HeaderLen + h.len)[p] \in Unit
    BY <1>1, <2>1 DEF HeaderLen
  <2> QED
    BY <1>1, <1>2, <2>2 DEF Payload, Range
<1> QED
  BY <1>2

\* A frame is heard where one is read, and is the last of what was heard.
LEMMA HeardNew ==
  ASSUME Sound, NEW fd \in Fds, NEW f \in Frame, Hears(fd, f), owner[fd] \in Conns,
         NEW c \in Conns, NEW i \in DOMAIN heard'[c] \ DOMAIN heard[c]
  PROVE  heard'[c][i] = f
<1>1. heard \in [Conns -> Seq(Frame)]
  BY DEF Sound, Attended, TypeOK, HistoryTypes
<1>2. CASE c = owner[fd]
  <2>1. heard'[c] = Append(heard[c], f) /\ heard[c] \in Seq(Frame)
    BY <1>1, <1>2 DEF Hears
  <2>2. /\ DOMAIN heard[c] = 1 .. Len(heard[c]) /\ Len(heard[c]) \in Nat
        /\ DOMAIN heard'[c] = 1 .. Len(heard[c]) + 1
        /\ heard'[c][Len(heard[c]) + 1] = f
    BY <2>1, AppendProperties, LenProperties
  <2> QED
    BY <2>2
<1>3. CASE c # owner[fd]
  BY <1>1, <1>3 DEF Hears
<1> QED
  BY <1>2, <1>3

LEMMA InventedStep ==
  ASSUME Sound, [Next]_vars, NEW c \in Conns,
         NEW i \in DOMAIN heard'[c] \ DOMAIN heard[c],
         Zero \in Range(heard'[c][i].data), max_payload \in 0 .. ParseLimit
  PROVE  reply' = CloseWith(1009) /\ said' = said
<1>1. heard' # heard
  OBVIOUS
<1>2. PICK fd \in Fds : HandleFrame(fd)
  <2>1. ~UNCHANGED vars /\ ~Run /\ ~Application /\ ~Select /\ ~Leave /\ ~Accept /\ ~Send
    BY <1>1 DEF vars, history, Run, Application, SetBacklog, SetMaxPayload, SetStop, AppOpen,
                AppClose, Select, SelectAlso, Leave, Accept, Send, Opened, NotOpened, SigPipe,
                Replied, Closed, CleanupClient
  <2>2. \A d \in Conns : ~Client(d)
    BY <1>1 DEF Client, Connect, SendRequest, SendFrame, SendItem, Deliver, Read, Finish, Reset, history
  <2>3. \A fd \in Fds : ~HandshakeEof(fd) /\ ~HandshakeRecv(fd)
    BY <1>1 DEF HandshakeEof, HandshakeRecv, HandshakeFails, CleanupClient, history
  <2> QED
    BY <2>1, <2>2, <2>3 DEF Next, ServerStep, Stop, SelectFails
<1>3. PICK h \in Kinds : FrameRead(fd, h) \/ PayloadTooBig(fd, h)
  BY <1>1, <1>2 DEF HandleFrame, FrameEof, CleanupClient, ProtocolError, WholeMessage,
                    FirstFragment, Continuation, Ping, CloseOrUnknown, history
<1>4. /\ RecvFrame(fd, h) /\ Complete(FrameBuffer(fd), h)
      /\ Hears(fd, Parsed(FrameBuffer(fd), h))
  BY <1>3 DEF FrameRead, PayloadTooBig
<1>5. owner[fd] \in Conns /\ Parsed(FrameBuffer(fd), h) \in Frame
  BY <1>4, RecvFrameFd, FrameType
<1>6. heard'[c][i] = Parsed(FrameBuffer(fd), h)
  BY <1>4, <1>5, HeardNew
<1>7. Zero \in Range(Payload(FrameBuffer(fd), h))
  BY <1>6 DEF Parsed
<1>8. FrameBuffer(fd) \in Seq(Unit)
  BY <1>5, TakeDropType, ServerAssumption DEF FrameBuffer, Sound, Attended, TypeOK, SocketTypes
<1>9. h.len > ParseLimit
  BY <1>4, <1>7, <1>8, ZeroFromResize
<1>10. h.len \in Nat /\ ParseLimit \in Nat
  BY FramingAssumption DEF FrameKind
<1>11. TooBig(h)
  BY <1>9, <1>10 DEF TooBig
<1> QED
  BY <1>3, <1>11 DEF FrameRead, PayloadTooBig, Call

\* The zeros parse_frame makes up for a payload it did not copy are refused with
\* 1009 before anything is made of them, for every maximum a setter can give
\* that is within parse_frame's own limit.
THEOREM InventedIsRefused == Spec => InventedRefused
<1>1. Inv /\ Accounted /\ Talk /\ [Next]_vars
        => [\A c \in Conns : \A i \in DOMAIN heard'[c] \ DOMAIN heard[c] :
              Zero \in Range(heard'[c][i].data)
                => \/ reply' = CloseWith(1009) /\ said' = said
                   \/ max_payload \notin 0 .. ParseLimit]_vars
  BY InvAttended, InventedStep DEF Sound
<1> QED
  BY <1>1, InvHolds, AllAccounted, TalkHolds, PTL DEF Spec, InventedRefused

=============================================================================
