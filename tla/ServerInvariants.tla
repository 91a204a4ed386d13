-------------------------- MODULE ServerInvariants --------------------------
(***************************************************************************)
(* The invariants of Server that relate its tables (master_, fdmax_,       *)
(* handshaken_, the fragment maps, the descriptors select reported) to     *)
(* what the operating system has.  ServerProofs proves them.               *)
(***************************************************************************)
EXTENDS Server

Running == pc \in {"loop", "scan", "hs", "send"}

\* The descriptors that refer to connection c.
FdsOf(c) == {fd \in Fds : owner[fd] = c}

\* While run() is in its loop, master_ holds the listening socket and every
\* accepted connection, all within fdmax_, and nothing that was closed; a
\* closed descriptor has left nothing in handshaken_, frag_buffer_ or
\* frag_opcode_ for the connection that is given the same number next.
FdTables ==
  /\ Running =>
       /\ lfd \in master /\ owner[lfd] = Listener
       /\ master = {fd \in Fds : owner[fd] \in Conns \cup {Listener}}
       /\ \A fd \in master : fd <= fdmax
  /\ \A fd \in Fds : owner[fd] \notin Conns =>
       ~handshaken[fd] /\ frag_buffer[fd] = <<>> /\ frag_opcode[fd] = "cont"

\* What the pass finds set in readfds is still what select saw there: no
\* descriptor was closed and handed out again before its turn.
ReadSetFresh == \A fd \in readfds : owner[fd] = seen[fd]

\* Where the thread is: nothing is left of a pass when it is over, what a pass
\* has still to visit is in master_, and the descriptor the thread is blocked on
\* is an accepted connection, which the pass will not visit again.
ThreadState ==
  /\ pc = "idle" => master = {} /\ \A fd \in Fds : owner[fd] \in {Free, App}
  /\ pc \in {"idle", "loop", "stopped"} => readfds = {}
  /\ readfds \subseteq master
  /\ pc \in {"hs", "send", "dead"} => cur \in Fds \ readfds /\ owner[cur] \in Conns
  /\ \A fd \in Fds : owner[fd] = Listener => fd = lfd

\* The inductive invariant these need: each is preserved only given the others.
Inv == TypeOK /\ FdTables /\ ReadSetFresh /\ ThreadState

\* Every connection is in exactly one place: in the accept queue once, behind
\* one descriptor, or, before connect and after the server closed it, nowhere.
Accounted ==
  /\ \A i, j \in DOMAIN acceptq : acceptq[i] = acceptq[j] => i = j
  /\ \A c \in Conns :
       LET queued == c \in Queued
       IN  /\ FdsOf(c) # {} => ~queued
           /\ \A fd, g \in FdsOf(c) : fd = g
           /\ cst[c] \notin {"new", "closed"} <=> queued \/ FdsOf(c) # {}

=============================================================================
