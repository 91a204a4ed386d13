--------------------------- MODULE RestartProofs ---------------------------
(***************************************************************************)
(* Proofs of what Restart says of several calls of run() on one object,    *)
(* for any number of calls, descriptors and connections.                   *)
(***************************************************************************)
EXTENDS Restart, ServerDelivery

\* Only as much of the types as the rest needs.
RTypes ==
  /\ owner \in [Fds -> Conns \cup {Free, App, Listener}]
  /\ acceptq \in Seq(Conns)
  /\ handshaken \in [Fds -> BOOLEAN]
  /\ frag_buffer = [fd \in Fds |-> frag_buffer[fd]]
  /\ frag_opcode = [fd \in Fds |-> frag_opcode[fd]]
  /\ fdmax \in Int

\* Where the thread is: the listening socket is its own while it runs, and what
\* it is blocked on is a connection the pass will not visit again.
Placed ==
  /\ Running => lfd \in Fds /\ owner[lfd] = Listener
  /\ pc \in {"hs", "send"} => cur \in Fds \ readfds /\ owner[cur] \in Conns
  /\ pc = "idle" => \A fd \in Fds : owner[fd] \in Conns => owner[fd] \in kept

\* What master_ holds that is no connection has been a listening socket.
Remembered ==
  /\ readfds \subseteq master /\ master \subseteq Fds
  /\ \A fd \in master : owner[fd] \in Conns \/ fd \in listened

RInv == RTypes /\ Placed /\ Remembered /\ KeptInMaster /\ WatchedUnlessKept

-----------------------------------------------------------------------------
USE ServerAssumption DEF ServerAssumption

LEMMA RInit_ == RInit => RInv
<1> SUFFICES ASSUME RInit PROVE RInv
  OBVIOUS
<1>1. \A fd \in Fds : owner[fd] \in {Free, App}
  BY DEF RInit, Init
<1>2. RTypes
  <2>1. owner \in [Fds -> Conns \cup {Free, App, Listener}]
    BY DEF RInit, Init
  <2>2. acceptq \in Seq(Conns)
    BY DEF RInit, Init
  <2>3. handshaken \in [Fds -> BOOLEAN] /\ fdmax \in Int
    BY DEF RInit, Init
  <2>4. frag_buffer = [fd \in Fds |-> frag_buffer[fd]] /\ frag_opcode = [fd \in Fds |-> frag_opcode[fd]]
    BY DEF RInit, Init
  <2> QED
    BY <2>1, <2>2, <2>3, <2>4 DEF RTypes
<1>3. Placed
  BY <1>1 DEF RInit, Init, Placed, Running
<1>4. Remembered
  BY DEF RInit, Init, Remembered
<1>5. KeptInMaster
  BY <1>1 DEF RInit, Init, KeptInMaster
<1>6. WatchedUnlessKept
  BY DEF RInit, Init, WatchedUnlessKept, Running
<1> QED
  BY <1>2, <1>3, <1>4, <1>5, <1>6 DEF RInv

-----------------------------------------------------------------------------
(* The kinds of steps, by what they may do to the variables RInv is about. *)

\* Clients and setters: the queue may grow and nothing else changes.
Outside ==
  /\ acceptq' \in Seq(Conns)
  /\ UNCHANGED <<owner, maps, fdset, pc, readfds, cur, kept, listened>>

\* The application opens or closes a descriptor of its own.
AppChanges(fd, x) ==
  /\ fd \in Fds /\ owner[fd] \in {Free, App} /\ x \in {Free, App}
  /\ owner' = [owner EXCEPT ![fd] = x]
  /\ UNCHANGED <<acceptq, maps, fdset, pc, readfds, cur, kept, listened>>

\* Where the thread goes.
Moves ==
  /\ Running
  /\ pc' \in {"loop", "scan", "hs", "send", "dead"}
  /\ readfds' \subseteq master
  /\ pc' \in {"hs", "send"} => cur' \in Fds \ readfds' /\ owner[cur'] \in Conns

\* The thread goes on and may change the maps at connection fd.
Serves(fd) ==
  /\ Moves
  /\ owner[fd] \in Conns \/ UNCHANGED maps
  /\ UNCHANGED <<owner, acceptq, fdset, kept, listened>>
  /\ handshaken' \in [Fds -> BOOLEAN]
  /\ frag_buffer' = [g \in Fds |-> frag_buffer'[g]]
  /\ frag_opcode' = [g \in Fds |-> frag_opcode'[g]]
  /\ \A g \in Fds \ {fd} :
       /\ handshaken'[g] = handshaken[g]
       /\ frag_buffer'[g] = frag_buffer[g] /\ frag_opcode'[g] = frag_opcode[g]

\* The thread closes fd, which it has visited.
Closes(fd) ==
  /\ fd \in Fds \ {lfd} /\ Running /\ pc' \in {"loop", "scan"}
  /\ readfds' \subseteq readfds \ {fd}
  /\ CloseFd(fd) /\ ClearFd(fd) /\ EraseMaps(fd)
  /\ UNCHANGED <<acceptq, lfd, fdmax, kept, listened>>

LEMMA Outside_ == RInv /\ Outside => RInv'
  BY DEF RInv, Outside, RTypes, Placed, Remembered, KeptInMaster, WatchedUnlessKept,
         Running, Watched, maps, fdset

LEMMA AppChanges_ == ASSUME NEW fd, NEW x, RInv, AppChanges(fd, x) PROVE RInv'
<1> USE DEF AppChanges, RInv, maps, fdset
<1>1. \A g \in Fds : owner'[g] = owner[g] \/ {owner[g], owner'[g]} \cap (Conns \cup {Listener}) = {}
  BY DEF RTypes
<1>2. RTypes'
  BY DEF RTypes
<1>3. Placed'
  BY <1>1 DEF Placed, Running
<1>4. Remembered'
  BY <1>1 DEF Remembered
<1>5. KeptInMaster'
  BY <1>1 DEF KeptInMaster
<1>6. WatchedUnlessKept'
  BY <1>1 DEF WatchedUnlessKept, Running, Watched
<1> QED
  BY <1>2, <1>3, <1>4, <1>5, <1>6

LEMMA Serves_ == ASSUME NEW fd, RInv, Serves(fd) PROVE RInv'
<1> USE DEF Serves, RInv, fdset
<1>1. RTypes'
  BY DEF RTypes
<1>2. Placed'
  BY DEF Placed, Moves, Running
<1>3. Remembered'
  BY DEF Remembered, Moves
<1>4. KeptInMaster'
  BY DEF KeptInMaster, maps
<1>5. WatchedUnlessKept'
  BY DEF WatchedUnlessKept, Moves, Running, Watched
<1> QED
  BY <1>1, <1>2, <1>3, <1>4, <1>5

LEMMA Closes_ == ASSUME NEW fd, RInv, Closes(fd) PROVE RInv'
<1> USE DEF Closes, RInv, CloseFd, ClearFd, EraseMaps, Store
<1>1. /\ fd \in Fds /\ owner'[fd] = Free
      /\ \A g \in Fds \ {fd} : owner'[g] = owner[g]
  BY DEF RTypes
<1>2. RTypes'
  BY DEF RTypes
<1>3. Placed'
  BY <1>1 DEF Placed, Running
<1>4. Remembered'
  BY <1>1 DEF Remembered
<1>5. KeptInMaster'
  BY <1>1 DEF KeptInMaster, RTypes
<1>6. WatchedUnlessKept'
  BY <1>1 DEF WatchedUnlessKept, Running, Watched
<1> QED
  BY <1>2, <1>3, <1>4, <1>5, <1>6

-----------------------------------------------------------------------------
(* The steps of Server and Restart, kind by kind.                          *)

LEMMA Visited == ASSUME NEW fd, RInv, Visit(fd)
  PROVE /\ pc = "scan" /\ fd \in readfds /\ fd \in master /\ fd \in Fds
        /\ readfds' = readfds \ {fd} /\ readfds' \subseteq master
  BY DEF RInv, Remembered, Visit, Lowest

LEMMA Resumes == \A rs : Resume(rs) \in {"loop", "scan"}
  BY DEF Resume

\* An upgraded descriptor is a connection.
LEMMA UpgradedFd == ASSUME NEW fd \in Fds, RInv, handshaken[fd] PROVE owner[fd] \in Conns
  BY DEF RInv, KeptInMaster

LEMMA ClientStep ==
  ASSUME NEW c \in Conns, RInv, Client(c), UNCHANGED <<runs, listened, kept>>
  PROVE  RInv'
<1>1. acceptq \in Seq(Conns)
  BY DEF RInv, RTypes
<1>2. CASE Connect(c)
  BY <1>1, <1>2, Outside_ DEF Connect, Outside, locals
<1>3. CASE SendRequest(c)
  BY <1>1, <1>3, Outside_ DEF SendRequest, SendItem, Outside, locals
<1>4. CASE SendFrame(c)
  BY <1>1, <1>4, Outside_ DEF SendFrame, SendItem, Outside, locals
<1>5. CASE Deliver(c)
  BY <1>1, <1>5, Outside_ DEF Deliver, Outside, locals
<1>6. CASE Read(c) \/ Finish(c) \/ Reset(c)
  BY <1>1, <1>6, Outside_ DEF Read, Finish, Reset, Outside, locals
<1> QED
  BY <1>2, <1>3, <1>4, <1>5, <1>6 DEF Client

LEMMA ApplicationStep ==
  ASSUME RInv, Application, UNCHANGED <<runs, listened, kept>>
  PROVE  RInv'
<1>1. acceptq \in Seq(Conns)
  BY DEF RInv, RTypes
<1>2. CASE (\E n \in Backlogs : SetBacklog(n)) \/ (\E n \in MaxPayloads : SetMaxPayload(n)) \/ SetStop
  BY <1>1, <1>2, Outside_ DEF SetBacklog, SetMaxPayload, SetStop, Outside, locals, sockets
<1>3. CASE AppOpen
  <2>1. PICK fd \in NextFds : owner' = [owner EXCEPT ![fd] = App]
    BY <1>3 DEF AppOpen
  <2>2. AppChanges(fd, App)
    BY <1>3, <2>1 DEF AppOpen, AppChanges, NextFds, FreeFds, locals
  <2> QED
    BY <2>2, AppChanges_
<1>4. CASE \E fd \in Fds : AppClose(fd)
  <2>1. PICK fd \in Fds : AppClose(fd)
    BY <1>4
  <2>2. AppChanges(fd, Free)
    BY <2>1 DEF AppClose, AppChanges, locals
  <2> QED
    BY <2>2, AppChanges_
<1> QED
  BY <1>2, <1>3, <1>4 DEF Application

\* select reports only what is in master_.
LEMMA SelectStep ==
  ASSUME NEW others, others \subseteq Watched, RInv, SelectAlso(others),
         UNCHANGED <<runs, listened, kept>>
  PROVE  RInv'
<1>1. Serves(lfd)
  BY DEF SelectAlso, Serves, Moves, Running, Watched, RInv, RTypes, Remembered, sockets, fdset, maps
<1> QED
  BY <1>1, Serves_

\* The number of the listening socket stays in master_, where it is remembered.
LEMMA LeaveStep == ASSUME RInv, Leave, UNCHANGED <<runs, listened, kept>> PROVE RInv'
<1> USE DEF RInv, Leave, maps, fdset
<1>1. \A g \in Fds : owner'[g] = owner[g] \/ {owner[g], owner'[g]} \cap Conns = {}
  BY DEF RTypes, Placed, Running
<1>2. RTypes'
  <2>1. owner' \in [Fds -> Conns \cup {Free, App, Listener}]
    BY DEF RTypes
  <2>2. acceptq' \in Seq(Conns)
    OBVIOUS
  <2> QED
    BY <2>1, <2>2 DEF RTypes
<1>3. Placed' /\ WatchedUnlessKept'
  BY DEF Placed, Running, WatchedUnlessKept
<1>4. Remembered'
  BY <1>1 DEF Remembered
<1>5. KeptInMaster'
  BY <1>1 DEF KeptInMaster
<1> QED
  BY <1>2, <1>3, <1>4, <1>5

LEMMA AcceptStep == ASSUME RInv, Accept, UNCHANGED <<runs, listened, kept>> PROVE RInv'
<1>1. /\ pc = "scan" /\ pc' \in {"loop", "scan"} /\ lfd \in Fds
      /\ readfds' \subseteq master /\ readfds' \subseteq readfds
  BY Visited, Resumes DEF Accept
<1>2. CASE UNCHANGED <<owner, acceptq, master, fdmax, handshaken>>
  <2>1. Serves(lfd)
    BY <1>1, <1>2 DEF Accept, Serves, Moves, Running, RInv, RTypes, fdset, maps
  <2> QED
    BY <2>1, Serves_
<1>3. CASE ~UNCHANGED <<owner, acceptq, master, fdmax, handshaken>>
  <2>1. PICK cfd \in NextFds :
          /\ owner' = [owner EXCEPT ![cfd] = Head(acceptq)]
          /\ acceptq' = Tail(acceptq)
          /\ master' = master \cup {cfd}
          /\ fdmax' = Higher(cfd, fdmax)
          /\ handshaken' = [handshaken EXCEPT ![cfd] = FALSE]
    BY <1>3 DEF Accept
  <2>2. /\ cfd \in Fds /\ owner[cfd] = Free /\ cfd # lfd
        /\ UNCHANGED <<lfd, frag_buffer, frag_opcode, kept, listened>>
    BY <1>1 DEF Accept, NextFds, FreeFds, RInv, Placed, Running
  <2>3. Head(acceptq) \in Conns /\ Tail(acceptq) \in Seq(Conns)
    BY DEF Accept, RInv, RTypes
  <2>4. cfd \in Nat /\ fdmax \in Int /\ fdmax' \in Int /\ fdmax <= fdmax' /\ cfd <= fdmax'
    BY <2>1, <2>2 DEF RInv, RTypes, Higher
  <2>5. RTypes'
    BY <2>1, <2>2, <2>3, <2>4 DEF RInv, RTypes
  <2>6. Placed'
    BY <1>1, <2>1, <2>2, <2>3 DEF RInv, RTypes, Placed, Running
  <2>7. Remembered'
    BY <1>1, <2>1, <2>2, <2>3 DEF RInv, RTypes, Remembered
  <2>8. KeptInMaster'
    BY <2>1, <2>2, <2>3 DEF RInv, RTypes, KeptInMaster
  <2>9. WatchedUnlessKept'
    <3> SUFFICES ASSUME NEW g \in Fds, owner'[g] \in Conns \ kept PROVE g \in master' /\ g <= fdmax'
      BY <2>2 DEF WatchedUnlessKept, Watched
    <3>1. CASE g = cfd
      BY <3>1, <2>1, <2>4
    <3>2. CASE g # cfd
      <4>1. owner[g] \in Conns \ kept
        BY <3>2, <2>1, <2>2 DEF RInv, RTypes
      <4>2. g \in master /\ g <= fdmax /\ g \in Nat
        BY <4>1, <1>1 DEF RInv, WatchedUnlessKept, Running, Watched
      <4> QED
        BY <4>2, <2>1, <2>4
    <3> QED
      BY <3>1, <3>2
  <2> QED
    BY <2>5, <2>6, <2>7, <2>8, <2>9 DEF RInv
<1> QED
  BY <1>2, <1>3

\* cleanup_client at a connection the pass will not visit again.
LEMMA CleanupStep ==
  ASSUME NEW fd \in Fds, NEW evs, RInv, Running, owner[fd] \in Conns,
         readfds' \subseteq readfds \ {fd}, pc' \in {"loop", "scan"},
         CleanupClient(fd, evs), UNCHANGED <<runs, listened, kept>>
  PROVE  RInv'
<1>1. fd # lfd
  BY DEF RInv, Placed
<1>2. Closes(fd)
  BY <1>1 DEF CleanupClient, Closes
<1> QED
  BY <1>2, Closes_

LEMMA ForeignStep ==
  ASSUME NEW fd, RInv, ServeForeign(fd), UNCHANGED <<runs, listened, kept>>
  PROVE  RInv'
<1>1. Closes(fd)
  BY Visited, Resumes DEF ServeForeign, Closes, Foreign, Running
<1> QED
  BY <1>1, Closes_

-----------------------------------------------------------------------------
(* The steps that serve a connection.                                      *)

\* send is entered for a connection the pass has visited.
LEMMA CallServes ==
  ASSUME NEW fd \in Fds, NEW r, RInv, Visit(fd), owner[fd] \in Conns, Call(fd, r),
         UNCHANGED <<owner, acceptq, fdset, kept, listened, handshaken>>,
         \/ UNCHANGED <<frag_buffer, frag_opcode>>
         \/ \E op, data : Store(fd, op, data)
  PROVE  RInv'
<1>1. Moves
  BY Visited DEF Call, Moves, Running
<1>2. Serves(fd)
  BY <1>1 DEF Serves, Store, RInv, RTypes, maps
<1> QED
  BY <1>2, Serves_

\* The pass goes on after a fragment was stored.
LEMMA StoreServes ==
  ASSUME NEW fd \in Fds, RInv, Visit(fd), owner[fd] \in Conns, pc' = Resume(readfds'),
         UNCHANGED <<owner, acceptq, fdset, kept, listened, handshaken>>,
         \E op, data : Store(fd, op, data)
  PROVE  RInv'
<1>1. Moves
  BY Visited, Resumes DEF Moves, Running
<1>2. Serves(fd)
  BY <1>1 DEF Serves, Store, RInv, RTypes, maps
<1> QED
  BY <1>2, Serves_

LEMMA FrameStep ==
  ASSUME NEW fd \in Fds, RInv, HandleFrame(fd), UNCHANGED <<runs, listened, kept>>
  PROVE  RInv'
<1>1. CASE FrameEof(fd)
  <2>1. owner[fd] \in Conns
    BY <1>1, UpgradedFd DEF FrameEof
  <2>2. Running /\ readfds' \subseteq readfds \ {fd} /\ pc' \in {"loop", "scan"}
    BY <1>1, Visited, Resumes DEF FrameEof, Running
  <2> QED
    BY <1>1, <2>1, <2>2, CleanupStep DEF FrameEof
<1>2. CASE \E h \in Kinds :
             \/ ProtocolError(fd, h) \/ PayloadTooBig(fd, h)
             \/ WholeMessage(fd, h) \/ FirstFragment(fd, h) \/ Continuation(fd, h)
             \/ Ping(fd, h) \/ CloseOrUnknown(fd, h)
  <2>1. PICK h \in Kinds :
             \/ ProtocolError(fd, h) \/ PayloadTooBig(fd, h)
             \/ WholeMessage(fd, h) \/ FirstFragment(fd, h) \/ Continuation(fd, h)
             \/ Ping(fd, h) \/ CloseOrUnknown(fd, h)
    BY <1>2
  <2>2. RecvFrame(fd, h)
    BY <2>1 DEF ProtocolError, PayloadTooBig, FrameRead, WholeMessage, FirstFragment,
                Continuation, Ping, CloseOrUnknown
  <2>3. /\ Visit(fd) /\ owner[fd] \in Conns
        /\ UNCHANGED <<owner, acceptq, fdset, kept, listened, handshaken>>
    BY <2>2, UpgradedFd DEF RecvFrame
  <2>4. CASE ProtocolError(fd, h)
    BY <2>3, <2>4, CallServes DEF ProtocolError
  <2>5. CASE PayloadTooBig(fd, h)
    BY <2>3, <2>5, CallServes DEF PayloadTooBig
  <2>6. CASE WholeMessage(fd, h)
    BY <2>3, <2>6, CallServes DEF WholeMessage
  <2>7. CASE FirstFragment(fd, h)
    BY <2>3, <2>7, StoreServes DEF FirstFragment
  <2>8. CASE Continuation(fd, h)
    <3>1. \E op, data : Store(fd, op, data)
      BY <2>8 DEF Continuation, Assembled
    <3>2. CASE \E r : Call(fd, r)
      BY <2>3, <3>1, <3>2, CallServes
    <3>3. CASE pc' = Resume(readfds')
      BY <2>3, <3>1, <3>3, StoreServes
    <3> QED
      BY <2>8, <3>2, <3>3 DEF Continuation
  <2>9. CASE Ping(fd, h) \/ CloseOrUnknown(fd, h)
    BY <2>3, <2>9, CallServes DEF Ping, CloseOrUnknown
  <2> QED
    BY <2>1, <2>4, <2>5, <2>6, <2>7, <2>8, <2>9
<1> QED
  BY <1>1, <1>2 DEF HandleFrame

\* perform_handshake serves a connection the pass has visited, in its first
\* recv as in the others.
LEMMA InHandshake_ ==
  ASSUME NEW fd \in Fds, RInv, InHandshake(fd)
  PROVE  /\ Running /\ owner[fd] \in Conns /\ fd \notin readfds'
         /\ readfds' \subseteq readfds \ {fd} /\ readfds' \subseteq master
<1>1. CASE Visit(fd) /\ owner[fd] \in Conns
  BY <1>1, Visited DEF Running
<1>2. CASE pc = "hs" /\ fd = cur /\ UNCHANGED readfds
  BY <1>2 DEF RInv, Placed, Remembered, Running
<1> QED
  BY <1>1, <1>2 DEF InHandshake

LEMMA HandshakeStep ==
  ASSUME NEW fd \in Fds, RInv, HandshakeEof(fd) \/ HandshakeRecv(fd),
         UNCHANGED <<runs, listened, kept>>
  PROVE  RInv'
<1>1. InHandshake(fd)
  BY DEF HandshakeEof, HandshakeRecv
<1>2. CASE HandshakeFails(fd)
  BY <1>1, <1>2, InHandshake_, Resumes, CleanupStep DEF HandshakeFails
<1>3. CASE ~HandshakeFails(fd)
  <2>1. /\ pc' \in {"hs", "send"} /\ cur' = fd
        /\ UNCHANGED <<owner, acceptq, fdset, maps>>
    BY <1>3 DEF HandshakeEof, HandshakeRecv, Call
  <2>2. Moves
    BY <1>1, <2>1, InHandshake_ DEF Moves
  <2>3. Serves(fd)
    BY <2>1, <2>2 DEF Serves, RInv, RTypes, maps
  <2> QED
    BY <2>3, Serves_
<1> QED
  BY <1>2, <1>3

LEMMA SendStep ==
  ASSUME RInv, Send, UNCHANGED <<runs, listened, kept>>
  PROVE  RInv'
<1>1. /\ pc = "send" /\ cur \in Fds \ readfds /\ owner[cur] \in Conns
      /\ readfds \subseteq master /\ Running
  BY DEF Send, Opened, NotOpened, Replied, Closed, SigPipe, SendReturns, RInv, Placed,
         Remembered, Running
<1>2. CASE SigPipe
  <2>1. Serves(cur)
    BY <1>1, <1>2 DEF SigPipe, Serves, Moves, RInv, RTypes, maps, sockets
  <2> QED
    BY <2>1, Serves_
<1>3. ASSUME NEW e, SendReturns(e)
      PROVE  pc' \in {"loop", "scan"} /\ readfds' = readfds
  BY <1>3, Resumes DEF SendReturns
<1>4. CASE Opened
  <2>1. Moves
    BY <1>1, <1>3, <1>4 DEF Opened, Moves
  <2>2. Serves(cur)
    BY <1>1, <1>4, <2>1 DEF Opened, Serves, RInv, RTypes, maps
  <2> QED
    BY <2>2, Serves_
<1>5. CASE \E e \in {"send", "lost"} : Replied(e)
  <2>1. Moves
    BY <1>1, <1>3, <1>5 DEF Replied, Moves
  <2>2. Serves(cur)
    BY <1>1, <1>5, <2>1 DEF Replied, Serves, RInv, RTypes, maps
  <2> QED
    BY <2>2, Serves_
<1>6. CASE NotOpened
  BY <1>1, <1>3, <1>6, CleanupStep DEF NotOpened
<1>7. CASE \E e \in {"send", "lost"} : Closed(e)
  BY <1>1, <1>3, <1>7, CleanupStep DEF Closed
<1> QED
  BY <1>2, <1>4, <1>5, <1>6, <1>7 DEF Send

-----------------------------------------------------------------------------
(* The owner's steps, and all of them together.                            *)

LEMMA RunStep == ASSUME RInv, FirstSteps PROVE RInv'
<1> USE DEF FirstSteps, Run, maps
<1>1. pc = "idle" /\ UNCHANGED <<kept, maps, acceptq, readfds, cur>> /\ listened \subseteq listened'
  OBVIOUS
<1>2. \A fd \in Fds : owner[fd] \in Conns => owner[fd] \in kept
  BY <1>1 DEF RInv, Placed
<1>3. CASE FreeFds = {} /\ pc' = "stopped" /\ UNCHANGED <<owner, master, fdmax>>
  BY <1>1, <1>3 DEF RInv, RTypes, Placed, Remembered, KeptInMaster, WatchedUnlessKept, Running
<1>4. CASE \E fd \in NextFds :
             /\ lfd' = fd
             /\ owner' = [owner EXCEPT ![fd] = Listener]
             /\ \/ pc' = "loop" /\ Listening(fd)
                \/ pc' = "stopped" /\ UNCHANGED <<master, fdmax>>
  <2>1. PICK fd \in NextFds :
             /\ lfd' = fd
             /\ owner' = [owner EXCEPT ![fd] = Listener]
             /\ \/ pc' = "loop" /\ Listening(fd)
                \/ pc' = "stopped" /\ UNCHANGED <<master, fdmax>>
    BY <1>4
  <2>2. fd \in Fds /\ owner[fd] = Free /\ fd \in listened' /\ fd \in Nat
    BY <2>1 DEF NextFds, FreeFds
  <2>3. /\ master \subseteq master' /\ master' \subseteq master \cup {fd}
        /\ fdmax' \in Int /\ pc' \in {"loop", "stopped"}
    BY <2>1, <2>2 DEF Listening, RInv, RTypes
  <2>4. owner'[fd] = Listener /\ \A g \in Fds \ {fd} : owner'[g] = owner[g]
    BY <2>1, <2>2 DEF RInv, RTypes
  <2>5. RTypes'
    BY <1>1, <2>1, <2>2, <2>3 DEF RInv, RTypes
  <2>6. Placed'
    BY <2>1, <2>2, <2>3, <2>4 DEF Placed, Running
  <2>7. Remembered'
    BY <1>1, <2>2, <2>3, <2>4 DEF RInv, Remembered
  <2>8. KeptInMaster'
    BY <1>1, <2>2, <2>3, <2>4 DEF RInv, KeptInMaster
  <2>9. WatchedUnlessKept'
    BY <1>1, <1>2, <2>2, <2>4 DEF WatchedUnlessKept
  <2> QED
    BY <2>5, <2>6, <2>7, <2>8, <2>9 DEF RInv
<1> QED
  BY <1>3, <1>4

\* Every connection that is open is kept.
LEMMA AgainStep == ASSUME RInv, Again PROVE RInv'
<1>1. /\ pc' = "idle" /\ kept' = Open
      /\ UNCHANGED <<owner, acceptq, maps, fdset, readfds, cur, listened>>
  BY DEF Again, sockets
<1>2. \A fd \in Fds : owner[fd] \in Conns => owner[fd] \in kept'
  BY <1>1 DEF Open, FdsOf
<1>3. Placed' /\ WatchedUnlessKept'
  BY <1>1, <1>2 DEF Placed, WatchedUnlessKept, Running
<1> QED
  BY <1>1, <1>3 DEF RInv, RTypes, Remembered, KeptInMaster, maps, fdset

LEMMA RInvStep == RInv /\ [RNext]_rvars => RInv'
<1> SUFFICES ASSUME RInv, [RNext]_rvars PROVE RInv'
  OBVIOUS
<1>1. CASE UNCHANGED rvars
  BY <1>1 DEF rvars, vars, sockets, fdset, maps, locals, config, RInv, RTypes, Placed, Remembered,
              KeptInMaster, WatchedUnlessKept, Running, Watched
<1>2. CASE FirstSteps
  BY <1>2, RunStep
<1>3. CASE Again
  BY <1>3, AgainStep
<1>4. CASE UNCHANGED <<runs, listened, kept>>
  <2>1. CASE Select \/ SelectForeign
    BY <1>4, <2>1, SelectStep DEF Select, SelectForeign
  <2>2. CASE Stop \/ SelectFails
    BY <1>4, <2>2, LeaveStep DEF Stop, SelectFails
  <2>3. CASE Accept
    BY <1>4, <2>3, AcceptStep
  <2>4. CASE Send
    BY <1>4, <2>4, SendStep
  <2>5. CASE \E fd \in Fds : HandshakeEof(fd) \/ HandshakeRecv(fd) \/ HandleFrame(fd)
    BY <1>4, <2>5, HandshakeStep, FrameStep
  <2>6. CASE Application
    BY <1>4, <2>6, ApplicationStep
  <2>7. CASE \E c \in Conns : Client(c)
    BY <1>4, <2>7, ClientStep
  <2>8. CASE \E fd \in Fds : ServeForeign(fd)
    BY <1>4, <2>8, ForeignStep
  <2>9. CASE FirstSteps \/ Again
    BY <1>2, <1>3, <2>9
  <2> QED
    BY <1>1, <2>1, <2>2, <2>3, <2>4, <2>5, <2>6, <2>7, <2>8, <2>9 DEF RNext, ServerStep
<1> QED
  BY <1>1, <1>2, <1>3, <1>4 DEF RNext

-----------------------------------------------------------------------------
(* The results.                                                            *)

THEOREM RInvHolds == RSpec => []RInv
  BY RInit_, RInvStep, PTL DEF RSpec

\* However often run() is called, no connection it has accepted is ever lost
\* from master_, and the maps hold nothing for a descriptor that is none
\* (server_impl.cpp:84-106, cleanup_client).
THEOREM KeptInMasterHolds == RSpec => []KeptInMaster
  BY RInvHolds, PTL DEF RInv

\* In any call of run() select looks at every connection but those an earlier
\* call left open (server_impl.cpp:50-71, fdmax_).
THEOREM WatchedUnlessKeptHolds == RSpec => []WatchedUnlessKept
  BY RInvHolds, PTL DEF RInv

\* In any call of run() the pass closes a descriptor of the application's only
\* under a number a listening socket has had (server_impl.cpp:101, master_).
THEOREM OnlyListenersNumbersHolds == RSpec => OnlyListenersNumbers
<1> DEFINE A == \A fd \in readfds \ readfds' :
                  owner[fd] = App /\ owner'[fd] = Free => fd \in listened
<1>1. RInv => A
  BY DEF RInv, Remembered
<1>2. RInv /\ [RNext]_rvars => [A]_rvars
  BY <1>1
<1> QED
  BY <1>2, RInvHolds, PTL DEF RSpec, OnlyListenersNumbers

-----------------------------------------------------------------------------
(* The service over several calls of run().                                *)

\* What the steps of Server need of a state, besides RInv.
RSound ==
  /\ TypeOK /\ Accounted /\ Talk /\ Delivery
  /\ pc = "dead" => cur \in Fds /\ owner[cur] \in Conns

LEMMA RSound_ == RInv /\ RSound => Sound
  BY DEF RInv, RSound, Sound, Attended, Placed, KeptInMaster, Running

LEMMA RSoundInit == RInit => RSound
<1> SUFFICES ASSUME RInit PROVE RSound
  OBVIOUS
<1>1. Init
  BY DEF RInit
<1>2. Accounted
  BY <1>1 DEF Init, Accounted, Queued, FdsOf
<1> QED
  BY <1>1, <1>2, TypeInit, EchoInit, DeliveryInit DEF RSound, Init

\* The process dies of SIGPIPE only, and does nothing after it.
LEMMA DeadStep ==
  ASSUME [RNext]_rvars, pc' = "dead"
  PROVE  SigPipe \/ UNCHANGED <<pc, owner, cur>>
<1>1. CASE ServerStep
  <2>1. CASE Select \/ Stop \/ Accept
    BY <2>1 DEF Select, SelectAlso, Stop, Leave, Accept, Resume
  <2>2. CASE Send
    BY <2>2 DEF Send, Opened, NotOpened, Replied, Closed, SendReturns, Resume
  <2>3. ASSUME NEW fd \in Fds, HandshakeEof(fd) \/ HandshakeRecv(fd)
        PROVE  FALSE
    BY <2>3 DEF HandshakeEof, HandshakeRecv, HandshakeFails, Call, Resume
  <2>4. ASSUME NEW fd \in Fds, HandleFrame(fd)
        PROVE  FALSE
    BY <2>4, ZenonT(40) DEF HandleFrame, FrameEof, ProtocolError, PayloadTooBig, WholeMessage,
       FirstFragment, Continuation, Ping, CloseOrUnknown, Call, Resume
  <2> QED
    BY <1>1, <2>1, <2>2, <2>3, <2>4 DEF ServerStep
<1>2. CASE FirstSteps \/ Again \/ SelectFails \/ SelectForeign \/ \E fd \in Fds : ServeForeign(fd)
  BY <1>2 DEF FirstSteps, Run, Again, SelectFails, Leave, SelectForeign, SelectAlso, ServeForeign, Resume
<1>3. CASE Application \/ \E c \in Conns : Client(c)
  BY <1>3 DEF Application, SetBacklog, SetMaxPayload, SetStop, AppOpen, AppClose, Client, Connect,
     SendRequest, SendFrame, SendItem, Deliver, Read, Finish, Reset, Ended, locals, sockets
<1>4. CASE UNCHANGED rvars
  BY <1>4 DEF rvars, vars, locals, sockets
<1> QED
  BY <1>1, <1>2, <1>3, <1>4 DEF RNext

\* Calling run() again, and select and perform_handshake at a descriptor that is
\* no connection: the service sees none of it.
LEMMA RestartUnseen ==
  ASSUME RInv, RSound, Again \/ SelectForeign \/ \E fd \in Fds : ServeForeign(fd)
  PROVE  EchoStep /\ TypeOK' /\ Accounted' /\ Talk' /\ Delivery'
<1>1. Sound
  BY RSound_
<1>2. /\ owner \in [Fds -> Conns \cup {Free, App, Listener}]
      /\ {Free, App, Listener} \cap Conns = {}
      /\ SocketTypes /\ MemberTypes /\ LocalTypes /\ HistoryTypes
  BY DEF RSound, TypeOK, SocketTypes
<1>3. CASE Again
  <2>1. /\ UNCHANGED <<sockets, backlog, max_payload, fdset, maps, readfds, cur, rbuf, reply, seen, history>>
        /\ pc = "stopped" /\ pc' = "idle" /\ stop' \in {FALSE, stop}
    BY <1>3 DEF Again
  <2>2. TypeOK'
    BY <1>2, <2>1 DEF TypeOK, SocketTypes, MemberTypes, LocalTypes, HistoryTypes,
                      sockets, fdset, maps, history
  <2>3. Accounted'
    BY <2>1, AccountedKept DEF RSound, FdsOf, Live, sockets
  <2>4. EchoStep
    BY <1>1, <2>1, UnseenStep DEF Sound, FdsOf, sockets
  <2>5. Talk'
    BY <1>1, <2>1, TalkParts, ReachAway, SilentKept DEF Sound, Queued, sockets, history
  <2>6. Delivery'
    BY <1>1, <2>1, IdleDelivery DEF RSound, FdsOf, sockets, maps, history
  <2> QED
    BY <2>2, <2>3, <2>4, <2>5, <2>6
<1>4. CASE SelectForeign
  <2>1. PICK others \in SUBSET Watched : SelectAlso(others)
    BY <1>4 DEF SelectForeign
  <2>2. TypeOK'
    <3>1. readfds' \in SUBSET Fds /\ seen' \in [Fds -> Conns \cup {Free, App, Listener}]
      BY <1>2, <2>1 DEF SelectAlso, Watched, MemberTypes
    <3> QED
      BY <1>2, <2>1, <3>1 DEF SelectAlso, TypeOK, SocketTypes, MemberTypes, LocalTypes, HistoryTypes,
                      sockets, config, fdset, maps, history
  <2>3. Accounted'
    BY <2>1, AccountedKept DEF RSound, SelectAlso, FdsOf, Live, sockets
  <2> QED
    BY <1>1, <2>1, <2>2, <2>3, EchoSelect, TalkApplication, DeliveryApplication DEF Sound, RSound
<1>5. ASSUME NEW fd \in Fds, ServeForeign(fd)
      PROVE  EchoStep /\ TypeOK' /\ Accounted' /\ Talk' /\ Delivery'
  <2>1. /\ owner[fd] \notin Conns /\ owner' = [owner EXCEPT ![fd] = Free]
        /\ master' = master \ {fd} /\ EraseMaps(fd)
        /\ UNCHANGED <<acceptq, cst, todo, inp, unread, sent, config, lfd, fdmax,
                       cur, rbuf, reply, history>>
        /\ pc = "scan" /\ pc' \in {"loop", "scan"}
        /\ readfds' = readfds \ {fd} /\ seen' = [seen EXCEPT ![fd] = Free]
    BY <1>5 DEF ServeForeign, Foreign, CloseFd, ClearFd, Visit, Resume
  <2>2. UNCHANGED maps
    <3>1. ~handshaken[fd] /\ frag_buffer[fd] = <<>> /\ frag_opcode[fd] = "cont"
      BY <1>1, <2>1 DEF Sound, Attended
    <3> QED
      BY <1>2, <2>1, <3>1 DEF EraseMaps, Store, maps, MemberTypes
  <2>3. \A c \in Conns : FdsOf(c)' = FdsOf(c)
    BY <1>2, <2>1, FdsOfKept
  <2>4. TypeOK'
    BY <1>2, <2>1, <2>2 DEF TypeOK, SocketTypes, MemberTypes, LocalTypes, HistoryTypes,
                      config, maps, history
  <2>5. Accounted'
    BY <2>1, <2>3, AccountedKept DEF RSound, Live
  <2>6. EchoStep
    BY <1>1, <2>1, <2>2, <2>3, UnseenStep DEF Sound, config
  <2>7. Talk'
    BY <1>1, <2>1, TalkParts, ReachAway, SilentKept DEF Sound, Queued, history
  <2>8. Delivery'
    BY <1>1, <2>1, <2>2, <2>3, IdleDelivery DEF RSound, maps, history
  <2> QED
    BY <2>4, <2>5, <2>6, <2>7, <2>8
<1> QED
  BY <1>3, <1>4, <1>5

LEMMA RSoundStep ==
  ASSUME RInv, RSound, [RNext]_rvars
  PROVE  EchoStep /\ RSound'
<1>1. Sound
  BY RSound_
<1>2. EchoStep /\ TypeOK' /\ Accounted' /\ Talk' /\ Delivery'
  <2>1. CASE [Next]_vars
    BY <1>1, <2>1, TypeNext, AccountedNext, EchoNext, DeliveryNext DEF Sound, RSound
  <2>2. CASE Again \/ SelectForeign \/ \E fd \in Fds : ServeForeign(fd)
    BY <2>2, RestartUnseen
  <2> QED
    BY <2>1, <2>2 DEF RNext, FirstSteps, Next, rvars
<1>3. pc' = "dead" => cur' \in Fds /\ owner'[cur'] \in Conns
  BY <1>1, DeadStep DEF RSound, Sound, Attended, SigPipe, sockets
<1> QED
  BY <1>2, <1>3 DEF RSound

LEMMA RSoundHolds == RSpec => []RSound
<1>1. RInv /\ RSound /\ [RNext]_rvars => RSound'
  BY RSoundStep
<1> QED
  BY <1>1, RSoundInit, RInvHolds, PTL DEF RSpec

\* Through any number of calls of run() every connection stays in one place: in
\* the accept queue once, behind one descriptor, or gone.
THEOREM AccountedOverRuns == RSpec => []Accounted
<1>1. RSound => Accounted
  BY DEF RSound
<1> QED
  BY <1>1, RSoundHolds, PTL

\* Through any number of calls of run() no byte is delivered twice, out of its
\* place or under another connection, fragments that an earlier call left in
\* frag_buffer_ included.
THEOREM DeliveredOnceOverRuns == RSpec => []DeliveredOnce
<1>1. RSound => DeliveredOnce
  BY DEF RSound, Delivery, Conveyed, Apart, DeliveredOnce
<1> QED
  BY <1>1, RSoundHolds, PTL

\* What an earlier call of run() left open, in master_ and in the maps, disturbs
\* no connection: the object implements the service over all its calls.
THEOREM EchoOverRuns == RSpec => ImplementsEcho
<1>1. RInit => Service!Init
  BY EchoInit DEF RInit
<1>2. RInv /\ RSound /\ [RNext]_rvars => [Service!Next]_(Service!vars)
  BY RSoundStep DEF EchoStep
<1> QED
  BY <1>1, <1>2, RInvHolds, RSoundHolds, PTL DEF RSpec, ImplementsEcho, Service!Spec

=============================================================================
