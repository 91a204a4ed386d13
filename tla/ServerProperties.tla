-------------------------- MODULE ServerProperties --------------------------
(***************************************************************************)
(* What Server should satisfy beyond ServerInvariants: it implements       *)
(* EchoService, and it makes progress when its clients do.                 *)
(* The last section states what the documentation says and the code does   *)
(* not do.                                                                 *)
(***************************************************************************)
EXTENDS ServerInvariants, SequencesExt

(* The promise to each connection.                                         *)

Phase(c) ==
  IF cst[c] = "closed" THEN "closed"
  ELSE IF \E fd \in FdsOf(c) : handshaken[fd] THEN "open" ELSE "none"

\* The fragments held for c, wherever its descriptor keeps them.
Part(c) ==
  LET held == {fd \in FdsOf(c) : frag_opcode[fd] # "cont"}
  IN  IF held = {} THEN [op |-> "cont", data |-> <<>>]
      ELSE LET fd == CHOOSE fd \in held : TRUE
           IN  [op |-> frag_opcode[fd], data |-> frag_buffer[fd]]

Owed(c) ==
  IF pc \in {"send", "dead"} /\ owner[cur] = c /\ reply.next # "opened"
  THEN [op |-> reply.op, data |-> reply.data, code |-> reply.code]
  ELSE NoReply

Service == INSTANCE EchoService WITH
  phase <- [c \in Conns |-> Phase(c)],
  part  <- [c \in Conns |-> Part(c)],
  owed  <- [c \in Conns |-> Owed(c)],
  limit <- max_payload

\* The server implements the service: with its descriptors, its shared maps and
\* its one thread it does for each connection what EchoService says, so that
\* no connection's fragments, callbacks or replies get into another's, through
\* reuse of a descriptor least of all.
ImplementsEcho == Service!Spec

\* The calls of on_message among what was said to c.
Messages(c) == {i \in DOMAIN said[c] : said[c][i].ev = "message"}

Before(a, b) == a.item < b.item \/ (a.item = b.item /\ a.pos < b.pos)

\* But for the zeros of an oversize payload, data are bytes of c's frames, in
\* the order c sent them.
InOrder(c, data) ==
  \A p \in DOMAIN data :
    data[p] # Zero =>
      /\ data[p].conn = c /\ data[p].item > 0
      /\ \A q \in DOMAIN data : p < q /\ data[q] # Zero => Before(data[p], data[q])

\* No byte a client sent is delivered to on_message twice, whatever frames and
\* segments it arrived in, or out of its place in a message, and none under
\* another connection or from the HTTP request.
DeliveredOnce ==
  \A c \in Conns : \A i, j \in Messages(c) :
    IF i = j THEN InOrder(c, said[c][i].data)
    ELSE Range(said[c][i].data) \cap Range(said[c][j].data) \subseteq {Zero}

\* parse_frame fills a payload above 64KB with zeros and leaves it to the server
\* to refuse it (frame.cpp:38).  It does, with 1009 and before anything else is
\* made of the frame, unless the maximum allows more than 64KB or, being
\* negative, anything.
InventedRefused ==
  [][\A c \in Conns : \A i \in DOMAIN heard'[c] \ DOMAIN heard[c] :
       Zero \in Range(heard'[c][i].data)
         => \/ reply' = CloseWith(1009) /\ said' = said
            \/ max_payload \notin 0 .. ParseLimit]_vars

-----------------------------------------------------------------------------
(* Progress.  The server thread is always scheduled.  Whether it gets on   *)
(* depends on the clients: patient ones send the request they connected    *)
(* for, unless they leave, and read the replies they asked for.            *)

ServerFairness == WF_vars(ServerStep)

ClientFairness ==
  \A c \in Conns : WF_vars(SendRequest(c)) /\ WF_vars(Deliver(c)) /\ WF_vars(Read(c))

PatientSpec == Spec /\ ServerFairness /\ ClientFairness
ImpatientSpec == Spec /\ ServerFairness

\* Once the stop flag is set while run() is in its loop, run() ends.
StopEnds == (stop /\ Running) ~> Ended

\* A connection the kernel queued is taken off the queue while run() lasts.
Served == \A c \in Conns : (c \in Queued) ~> (c \notin Queued \/ Ended)

\* A connection whose client has shut down or reset it is closed and its
\* descriptor returned, unless the server ends first.
Reclaimed ==
  \A c \in Conns : Gone(c) ~> (cst[c] = "closed" \/ Ended)

-----------------------------------------------------------------------------
(* What the documentation, a comment or a test says and the code does not  *)
(* do.  Each of these is violated, by the run named after it.              *)

\* README.md:13, "Configurable maximum payload size": no message longer than
\* the maximum reaches on_message.  Fragments are measured one by one.
MessagesWithinLimit ==
  \A c \in Conns : \A i \in Messages(c) : Len(said[c][i].data) <= max_payload

\* README.md:12-13, "appropriate close codes (1002, 1009)" and "Configurable
\* maximum payload size": clients whose frames are all well formed and within
\* the maximum are not closed for an error.  They are with 1002 when a frame
\* arrives in two segments or does not fit the 4096 bytes of one recv.
WithinLimitServed ==
  (\A k \in Kinds : k.len <= max_payload /\ k.op # "reserved")
    => \A c \in Conns : \A e \in Range(said[c]) : e.code \notin {1002, 1009}

=============================================================================
