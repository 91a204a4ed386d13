---------------------------- MODULE EchoService ----------------------------
(***************************************************************************)
(* What WebSocketServer promises, connection by connection: the frames it  *)
(* understands go in, callbacks and replies come out.  There are no        *)
(* descriptors here, no buffers shared through them and no select loop:    *)
(* each connection has a message assembler of its own, delivers a message  *)
(* before it echoes it, owes at most one reply at a time, and is silent    *)
(* once it is closed.                                                      *)
(*                                                                         *)
(* Frames are inputs: a step that hears one appends it to heard, and what  *)
(* it does is a function of that frame.                                    *)
(***************************************************************************)
EXTENDS Framing, SequencesExt

CONSTANT NoReply    \* a connection that is owed nothing

VARIABLES
  phase,    \* "none" before the upgrade, "open", then "closed"
  heard,    \* the frames read from each connection
  part,     \* the message being assembled: its opcode and its bytes so far
  owed,     \* the reply each connection is owed
  limit,    \* the longest payload accepted; any length when negative
  said      \* callbacks made and replies written, in order

vars == <<phase, heard, part, owed, limit, said>>

Data == {"text", "binary"}

\* No message is being assembled.
Nothing == [op |-> "cont", data |-> <<>>]

Init ==
  /\ phase = [c \in Conns |-> "none"]
  /\ heard = [c \in Conns |-> <<>>]
  /\ part  = [c \in Conns |-> Nothing]
  /\ owed  = [c \in Conns |-> NoReply]
  /\ limit \in Int
  /\ said  = [c \in Conns |-> <<>>]

Says(c, evs) == said' = [said EXCEPT ![c] = @ \o evs]
Owes(c, op, data, code) ==
  owed' = [owed EXCEPT ![c] = [op |-> op, data |-> data, code |-> code]]

Callback(ev)       == [ev |-> ev, op |-> "none", data |-> <<>>, code |-> 0]
Message(op, data)  == [ev |-> "message", op |-> op, data |-> data, code |-> 0]
Outcome(ev, r)     == [ev |-> ev, op |-> r.op, data |-> r.data, code |-> r.code]
Upgrade            == [op |-> "http", data |-> <<>>, code |-> 0]

-----------------------------------------------------------------------------
\* The upgrade succeeds: the 101 is written, then on_open is called.
Open(c) ==
  /\ phase[c] = "none"
  /\ phase' = [phase EXCEPT ![c] = "open"]
  /\ Says(c, <<Outcome("send", Upgrade), Callback("open")>>)
  /\ UNCHANGED <<heard, part, owed, limit>>

\* A message is delivered before its echo is owed.
Deliver(c, op, data) ==
  /\ Says(c, <<Message(op, data)>>)
  /\ Owes(c, op, data, 0)

\* What frame f, the newest heard, makes of connection c.
Whole(c, f) ==
  /\ f.op \in Data /\ f.fin
  /\ Deliver(c, f.op, f.data)
  /\ UNCHANGED part

Start(c, f) ==
  /\ f.op \in Data /\ ~f.fin
  /\ part' = [part EXCEPT ![c] = [op |-> f.op, data |-> f.data]]
  /\ UNCHANGED <<owed, said>>

\* A continuation of nothing is accepted and dropped.
Continue(c, f) ==
  /\ f.op = "cont"
  /\ \/ /\ part[c] = Nothing
        /\ UNCHANGED <<part, owed, said>>
     \/ /\ part[c] # Nothing /\ ~f.fin
        /\ part' = [part EXCEPT ![c] = [op |-> @.op, data |-> @.data \o f.data]]
        /\ UNCHANGED <<owed, said>>
     \/ /\ part[c] # Nothing /\ f.fin
        /\ Deliver(c, part[c].op, part[c].data \o f.data)
        /\ part' = [part EXCEPT ![c] = Nothing]

Control(c, f) ==
  /\ \/ f.op = "ping" /\ Owes(c, "pong", f.data, 0)
     \/ f.op = "close" /\ Owes(c, "close", <<>>, 1000)
     \/ f.op \in {"pong", "reserved"} /\ Owes(c, "close", <<>>, 1002)
  /\ UNCHANGED <<part, said>>

TooBig(c) == Owes(c, "close", <<>>, 1009) /\ UNCHANGED <<part, said>>

Hear(c) ==
  /\ phase[c] = "open" /\ owed[c] = NoReply
  /\ heard'[c] # <<>>
  /\ LET f == Last(heard'[c])
     IN  /\ f \in Frame
         /\ heard' = [heard EXCEPT ![c] = Append(@, f)]
         /\ IF limit >= 0 /\ Len(f.data) > limit
            THEN TooBig(c)
            ELSE Whole(c, f) \/ Start(c, f) \/ Continue(c, f) \/ Control(c, f)
  /\ UNCHANGED <<phase, limit>>

\* What arrived could not be read as a frame.
Misread(c) ==
  /\ phase[c] = "open" /\ owed[c] = NoReply
  /\ Owes(c, "close", <<>>, 1002)
  /\ UNCHANGED <<phase, heard, part, limit, said>>

\* The reply is written, or lost with the peer.  A close frame is the last
\* thing a connection is sent.
Reply(c) ==
  /\ owed[c] # NoReply
  /\ owed' = [owed EXCEPT ![c] = NoReply]
  /\ \E e \in {"send", "lost"} :
       IF owed[c].op = "close"
       THEN /\ phase' = [phase EXCEPT ![c] = "closed"]
            /\ part' = [part EXCEPT ![c] = Nothing]
            /\ Says(c, <<Outcome(e, owed[c]), Callback("close")>>)
       ELSE Says(c, <<Outcome(e, owed[c])>>) /\ UNCHANGED <<phase, part>>
  /\ UNCHANGED <<heard, limit>>

\* The peer is gone, or its upgrade failed: on_close is called once, whether or
\* not on_open was, and a message half assembled is dropped.
EndOf(c, evs) ==
  /\ phase[c] # "closed" /\ owed[c] = NoReply
  /\ phase' = [phase EXCEPT ![c] = "closed"]
  /\ part' = [part EXCEPT ![c] = Nothing]
  /\ Says(c, Append(evs, Callback("close")))
  /\ UNCHANGED <<heard, owed, limit>>

Close(c) == EndOf(c, <<>>)
Refuse(c) == phase[c] = "none" /\ EndOf(c, <<Outcome("lost", Upgrade)>>)

\* The service ends with connections it never took up: they hear nothing.
Abandon(S) ==
  /\ S # {} /\ \A c \in S : phase[c] = "none" /\ said[c] = <<>>
  /\ phase' = [c \in Conns |-> IF c \in S THEN "closed" ELSE phase[c]]
  /\ UNCHANGED <<heard, part, owed, limit, said>>

\* The limit may change at any time, and holds for the next frame heard.
SetLimit ==
  /\ limit' \in Int
  /\ UNCHANGED <<phase, heard, part, owed, said>>

Next ==
  \/ SetLimit
  \/ \E c \in Conns : Open(c) \/ Hear(c) \/ Misread(c) \/ Reply(c) \/ Close(c) \/ Refuse(c)
  \/ \E S \in SUBSET Conns : Abandon(S)

Spec == Init /\ [][Next]_vars

=============================================================================
