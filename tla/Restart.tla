------------------------------ MODULE Restart ------------------------------
(***************************************************************************)
(* WebSocketServer over several calls of run() on one object, which src/   *)
(* neither forbids nor expects.  run() gives nothing back when it returns: *)
(* the clients it accepted stay open, in master_ and in the maps, the      *)
(* number of the closed listening socket stays in master_ too, and a       *)
(* socket whose bind or listen failed stays open.  The next call starts    *)
(* with all of that and sets fdmax_ to its own listening socket.           *)
(*                                                                         *)
(* Between two calls the clients' bytes are delivered and the application  *)
(* opens and closes descriptors: Server's actions at pc = "idle".          *)
(***************************************************************************)
EXTENDS ServerInvariants

CONSTANT MaxRuns   \* bound: calls of run() on one object

ASSUME RestartAssumption == MaxRuns \in Nat

VARIABLES
  runs,       \* calls of run() so far
  listened,   \* history: the numbers listening sockets have had
  kept        \* history: the connections an earlier call left open

rvars == <<vars, runs, listened, kept>>

RInit == Init /\ runs = 0 /\ listened = {} /\ kept = {}

Open == {c \in Conns : FdsOf(c) # {}}

\* The call of run() that Server models, as often as the owner likes.
FirstSteps == Run /\ runs' = runs + 1 /\ listened' = listened \cup ({lfd'} \cap Fds) /\ UNCHANGED kept

\* The owner is about to call run() again, with the stop flag it used before or
\* with another.
Again ==
  /\ pc = "stopped" /\ runs < MaxRuns
  /\ pc' = "idle"
  /\ stop' \in {FALSE, stop}
  /\ kept' = Open
  /\ UNCHANGED <<sockets, backlog, max_payload, fdset, maps,
                 readfds, cur, rbuf, reply, seen, history, runs, listened>>

-----------------------------------------------------------------------------
(* A number in master_ that the server has closed is the application's once *)
(* socket() or open() has handed it out again.                              *)

Foreign(fd) == owner[fd] \notin Conns /\ fd # lfd

\* select may report such a descriptor or not: what it is is not known.
SelectForeign ==
  \E others \in SUBSET {fd \in Watched : Foreign(fd)} \ {{}} : SelectAlso(others)

\* perform_handshake on such a descriptor.  recv fails on anything but a socket,
\* and a socket of the application's does not bring a WebSocket request (one that
\* keeps recv waiting is a step not taken): the server closes the descriptor.
\* When it was closed meanwhile close() fails, and nothing else differs.
ServeForeign(fd) ==
  /\ Visit(fd) /\ Foreign(fd)
  /\ CloseFd(fd) /\ ClearFd(fd) /\ EraseMaps(fd)
  /\ pc' = Resume(readfds')
  /\ UNCHANGED <<acceptq, cst, todo, inp, unread, sent, config, lfd, fdmax,
                 cur, rbuf, reply, history>>

RNext ==
  \/ FirstSteps
  \/ Again
  \/ /\ \/ ServerStep \/ SelectFails
        \/ Application
        \/ \E c \in Conns : Client(c)
        \/ SelectForeign
        \/ \E fd \in Fds : ServeForeign(fd)
     /\ UNCHANGED <<runs, listened, kept>>

RSpec == RInit /\ [][RNext]_rvars

-----------------------------------------------------------------------------
\* A connection is in master_ for as long as it is open, through the return of
\* run() and into the next call, and the maps hold nothing for any other
\* descriptor: an upgraded client is still upgraded, half a message still half.
KeptInMaster ==
  \A fd \in Fds :
    IF owner[fd] \in Conns
    THEN fd \in master
    ELSE ~handshaken[fd] /\ frag_buffer[fd] = <<>> /\ frag_opcode[fd] = "cont"

\* fdmax_ is overwritten by each call, so that select may no longer look at a
\* connection an earlier call accepted; one of this call's it always looks at.
WatchedUnlessKept ==
  Running => \A fd \in Fds : owner[fd] \in Conns \ kept => fd \in Watched

\* The server closes a descriptor of the application's only under a number that
\* a listening socket of its own has had, never under one of its clients'.
OnlyListenersNumbers ==
  [][\A fd \in readfds \ readfds' :
       owner[fd] = App /\ owner'[fd] = Free => fd \in listened]_rvars

=============================================================================
