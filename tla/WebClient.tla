----------------------------- MODULE WebClient -----------------------------
(***************************************************************************)
(* WebSocketClient of src/webclient.cpp: one object, used by one thread,   *)
(* among the other descriptors of its process.  Every socket the object    *)
(* makes is a connection of its own, numbered in order; only the newest    *)
(* is ever behind sockfd_.  At its other end is a peer that answers the    *)
(* request with 101 or with something else, sends frames, shuts down or    *)
(* resets as it likes; what the peers of older connections do nobody reads. *)
(*                                                                         *)
(* connect() and recv_message() block in recv, and the rest of the process *)
(* runs meanwhile.  The constructor with arguments is Construct followed   *)
(* by connect(), whose result it drops.                                    *)
(***************************************************************************)
EXTENDS Integers, Sequences, FiniteSets

CONSTANTS
  Fds,         \* the file descriptors of the process
  AppMax,      \* bound: descriptors the application holds at a time
  MaxTries,    \* bound: sockets the object makes
  MaxFrames,   \* bound: frames each end sends on a connection
  Free, App    \* owners of a descriptor that are not connections

Tries == 1 .. MaxTries

ASSUME WebClientAssumption ==
  /\ Fds \subseteq Nat
  /\ AppMax \in Nat /\ MaxTries \in Nat /\ MaxFrames \in Nat
  /\ Free # App /\ Free \notin Tries /\ App \notin Tries

VARIABLES
  owner,      \* what each descriptor refers to
  tries,      \* sockets made so far: the newest connection
  \* the newest connection
  peer,       \* the peer's end; "none" when ::connect failed
  answer,     \* what the peer has answered
  nsent,      \* frames the peer has sent
  down,       \* what the kernel holds for recv, or the network still carries
  \* the object
  sockfd, connected,
  pc,         \* where its thread is: outside, in connect() or in recv_message()
  \* history, of the newest connection but for fate
  up,         \* what the object has sent
  got,        \* the frames recv_message has returned
  reused,     \* was connect() called on a connected object?
  torn,       \* has recv returned part of a frame?
  merged,     \* has recv returned more than one thing?
  fate        \* what became of each connection

network == <<peer, answer, nsent, down>>
object  == <<sockfd, connected>>
history == <<up, got, reused, torn, merged>>
vars    == <<owner, tries, network, object, pc, history, fate>>

\* The response, item 0, has its status line in parts 1 and 2 of 3; a frame is
\* two parts, of which parse_frame needs both.
Unit        == [item : Nat, part : 1 .. 3]
PartsOf(n)  == IF n = 0 THEN 3 ELSE 2
Item(n)     == [i \in 1 .. PartsOf(n) |-> [item |-> n, part |-> i]]

Garbage == 0   \* what parse_frame may read in the middle of something

TypeOK ==
  /\ owner \in [Fds -> Tries \cup {Free, App}]
  /\ tries \in 0 .. MaxTries
  /\ peer \in {"none", "up", "fin", "rst"} /\ answer \in {"none", "101", "other"}
  /\ nsent \in 0 .. MaxFrames /\ down \in Seq(Unit)
  /\ sockfd \in Fds \cup {-1} /\ connected \in BOOLEAN
  /\ pc \in {"none", "idle", "connect", "recv", "gone", "dead"}
  /\ up \in Seq({"http", "frame", "close"}) /\ got \in Seq(Nat)
  /\ reused \in BOOLEAN /\ torn \in BOOLEAN /\ merged \in BOOLEAN
  /\ fate \in [Tries -> {"none", "trying", "failed", "made", "left", "closed"}]

Init ==
  /\ owner = [fd \in Fds |-> Free] /\ tries = 0
  /\ peer = "none" /\ answer = "none" /\ nsent = 0 /\ down = <<>>
  /\ sockfd = -1 /\ connected = FALSE /\ pc = "none"
  /\ up = <<>> /\ got = <<>>
  /\ reused = FALSE /\ torn = FALSE /\ merged = FALSE
  /\ fate = [c \in Tries |-> "none"]

-----------------------------------------------------------------------------
(* The peer, the network and the rest of the process.                      *)

FdsOf(c) == {fd \in Fds : owner[fd] = c}
NextFds  == {fd \in FdsOf(Free) : \A g \in FdsOf(Free) : fd <= g}

Alive == pc # "dead"

Answers ==
  /\ Alive /\ peer = "up" /\ answer = "none"
  /\ answer' \in {"101", "other"}
  /\ down' = Item(0)
  /\ UNCHANGED <<owner, tries, peer, nsent, object, pc, history, fate>>

SendsFrame ==
  /\ Alive /\ peer = "up" /\ answer = "101" /\ nsent < MaxFrames
  /\ nsent' = nsent + 1
  /\ down' = down \o Item(nsent')
  /\ UNCHANGED <<owner, tries, peer, answer, object, pc, history, fate>>

\* The peer shuts down: recv returns 0 when down is empty.
Leaves ==
  /\ Alive /\ peer = "up" /\ peer' = "fin"
  /\ UNCHANGED <<owner, tries, answer, nsent, down, object, pc, history, fate>>

\* The peer resets: what has not been read may be lost.
Resets ==
  /\ Alive /\ peer \in {"up", "fin"} /\ peer' = "rst"
  /\ \E n \in 0 .. Len(down) : down' = SubSeq(down, 1, n)
  /\ UNCHANGED <<owner, tries, answer, nsent, object, pc, history, fate>>

AppOpen ==
  /\ Alive /\ Cardinality(FdsOf(App)) < AppMax
  /\ \E fd \in NextFds : owner' = [owner EXCEPT ![fd] = App]
  /\ UNCHANGED <<tries, network, object, pc, history, fate>>

AppClose ==
  /\ Alive
  /\ \E fd \in FdsOf(App) : owner' = [owner EXCEPT ![fd] = Free]
  /\ UNCHANGED <<tries, network, object, pc, history, fate>>

Environment == Answers \/ SendsFrame \/ Leaves \/ Resets \/ AppOpen \/ AppClose

-----------------------------------------------------------------------------
(* connect().  Without a host it returns before it changes anything.       *)

Construct ==
  /\ pc = "none" /\ pc' = "idle"
  /\ UNCHANGED <<owner, tries, network, object, history, fate>>

\* What becomes of the connection of a connected object that connects again:
\* sockfd_ is overwritten.
LetGo ==
  IF connected /\ sockfd # -1 THEN [fate EXCEPT ![tries] = "left"] ELSE fate

NoSocket ==
  /\ pc = "idle" /\ FdsOf(Free) = {}
  /\ sockfd' = -1 /\ fate' = LetGo
  /\ UNCHANGED <<owner, tries, network, connected, pc, history>>

\* socket() gives the object its next connection; connect() then gets as far as
\* how says, and connected_ is as it was before.
Dial(how) ==
  /\ pc = "idle" /\ tries < MaxTries
  /\ tries' = tries + 1
  /\ \E fd \in NextFds :
       sockfd' = fd /\ owner' = [owner EXCEPT ![fd] = tries']
  /\ fate' = [LetGo EXCEPT ![tries'] = how]
  /\ reused' = connected
  /\ answer' = "none" /\ nsent' = 0 /\ down' = <<>>
  /\ got' = <<>> /\ torn' = FALSE /\ merged' = FALSE
  /\ UNCHANGED connected

\* ::connect fails, or it succeeds and the peer is gone before the request.
Refused ==
  /\ Dial("failed")
  /\ peer' \in {"none", "rst"} /\ up' = <<>> /\ UNCHANGED pc

\* The request is sent, and the thread waits in recv.
Asks ==
  /\ Dial("trying")
  /\ peer' = "up" /\ up' = <<"http">> /\ pc' = "connect"

\* Slip: the bytes stay in the socket.
Receives_Peek(n) ==
  /\ pc' = "idle"
  /\ UNCHANGED <<owner, tries, network, sockfd, up, reused, torn, merged>>

\* recv returns the first n units.
Receives(n) ==
  /\ pc' = "idle"
  /\ down' = SubSeq(down, n + 1, Len(down))
  /\ LET first == down[1]
         last  == down[n]
     IN  /\ torn' = (torn \/ first.part # 1 \/ last.part # PartsOf(last.item))
         /\ merged' = (merged \/ first.item # last.item)
  /\ UNCHANGED <<owner, tries, peer, answer, nsent, sockfd, up, reused>>

\* Slip: any response will do.
Switched_Any(n) == n >= 2

\* Does what recv returned hold "101 Switching Protocols"?
Switched(n) == answer = "101" /\ n >= 2

\* One recv decides: a status line that comes in two is a failure, and what
\* comes behind the response is dropped.
HandshakeRecv ==
  /\ pc = "connect"
  /\ \E n \in 1 .. Len(down) :
       /\ Receives(n)
       /\ \/ Switched(n) /\ connected' = TRUE /\ fate' = [fate EXCEPT ![tries] = "made"]
          \/ ~Switched(n) /\ UNCHANGED connected /\ fate' = [fate EXCEPT ![tries] = "failed"]
  /\ UNCHANGED got

\* recv returns 0 or -1.
Over == down = <<>> /\ peer \in {"fin", "rst"}

HandshakeFails ==
  /\ pc = "connect" /\ Over
  /\ pc' = "idle" /\ fate' = [fate EXCEPT ![tries] = "failed"]
  /\ UNCHANGED <<owner, tries, network, object, history>>

-----------------------------------------------------------------------------
(* send_text, send_binary, send_ping, recv_message, close, destructor.     *)

\* send() writes unless the peer has reset the connection, or there never was
\* one; it then fails, which changes nothing, or raises SIGPIPE.
Writes(what) ==
  /\ sockfd # -1 /\ peer \in {"up", "fin"} /\ up' = Append(up, what)

\* send_text, send_binary and send_ping differ in the frame they build.
SendFrame ==
  /\ pc = "idle" /\ connected
  /\ Len(up) <= MaxFrames /\ Writes("frame")
  /\ UNCHANGED <<owner, tries, network, object, pc, got, reused, torn, merged, fate>>

Broken == sockfd # -1 /\ peer \in {"none", "rst"}

SigPipe ==
  /\ pc = "idle" /\ connected /\ Broken
  /\ pc' = "dead"
  /\ UNCHANGED <<owner, tries, network, object, history, fate>>

\* On a descriptor that is not connected recv_message() returns at once.
RecvCall ==
  /\ pc = "idle" /\ connected /\ sockfd # -1 /\ peer # "none"
  /\ pc' = "recv"
  /\ UNCHANGED <<owner, tries, network, object, history, fate>>

\* What parse_frame makes of the first n units: one frame or none.
Parsed(n) ==
  IF down[1].part # 1 \/ down[1].item = 0 THEN {<<>>, <<Garbage>>}
  ELSE IF n > 1 THEN {<<down[1].item>>} ELSE {<<>>}

RecvMessage ==
  /\ pc = "recv"
  /\ \E n \in 1 .. Len(down) :
       /\ Receives(n)
       /\ \E f \in Parsed(n) : got' = got \o f
  /\ UNCHANGED <<connected, fate>>

\* recv returns 0 or -1 and recv_message() nullopt; connected_ stays as it is.
RecvFails ==
  /\ pc = "recv" /\ Over
  /\ pc' = "idle"
  /\ UNCHANGED <<owner, tries, network, object, history, fate>>

\* Slip: the object still thinks it is connected.
Disconnected_Stays == UNCHANGED connected

Disconnected == connected' = FALSE

\* close(): the close frame, if it can be sent, and ::close of sockfd_.
Closing ==
  /\ connected /\ Disconnected
  /\ \/ sockfd = -1 /\ UNCHANGED <<owner, up, fate>>
     \/ /\ sockfd # -1
        /\ Writes("close") \/ (Broken /\ UNCHANGED up)
        /\ owner' = [owner EXCEPT ![sockfd] = Free]
        /\ fate' = [fate EXCEPT ![tries] = "closed"]
  /\ UNCHANGED <<tries, network, sockfd, got, reused, torn, merged>>

Close == pc = "idle" /\ Closing /\ UNCHANGED pc

\* Slip: the destructor leaves the socket to the process.
AtEnd_Nothing == UNCHANGED <<owner, tries, network, object, history, fate>>

\* if(connected_) close();
AtEnd ==
  \/ Closing
  \/ ~connected /\ UNCHANGED <<owner, tries, network, object, history, fate>>

Destroy == pc = "idle" /\ pc' = "gone" /\ AtEnd

Next ==
  \/ Environment
  \/ Construct \/ NoSocket \/ Refused \/ Asks \/ HandshakeRecv \/ HandshakeFails
  \/ SendFrame \/ SigPipe \/ RecvCall \/ RecvMessage \/ RecvFails
  \/ Close \/ Destroy

Spec == Init /\ [][Next]_vars

-----------------------------------------------------------------------------
\* While connected_ is set, and while connect() or recv_message() waits, sockfd_
\* is the object's newest socket, or -1: nothing is written to or closed that
\* the application has got under a number the object had before.
OwnDescriptor ==
  /\ connected /\ sockfd # -1 => owner[sockfd] = tries
  /\ pc \in {"connect", "recv"} => sockfd # -1 /\ owner[sockfd] = tries

\* Frames are sent only to a peer that has answered 101, except by an object
\* that was connected already when it called connect(), which a failure leaves
\* with connected_ set; the request comes first, and a close frame last.
FramesOnlyUpgraded ==
  \A i \in DOMAIN up :
    /\ up[i] # "http" => answer = "101" \/ reused
    /\ up[i] = "http" <=> i = 1
    /\ up[i] = "close" => i = Len(up)

\* A connection keeps its one descriptor until close() or the destructor closes
\* it.  What is open when the object is gone is what a failed connect() left, or
\* what a connect() on a connected object let go of.
OnlyTheseLeak ==
  \A c \in Tries :
    /\ \A fd, g \in FdsOf(c) : fd = g
    /\ FdsOf(c) = {} <=> fate[c] \in {"none", "closed"}
    /\ pc = "gone" => fate[c] \notin {"trying", "made"}

\* recv_message() returns the peer's frames in order, each once, and none that
\* was not sent, unless recv has returned part of something; and it misses none,
\* unless recv has returned two things at once.
FramesInOrder ==
  ~torn =>
    /\ \A i, j \in DOMAIN got : i < j => got[i] < got[j]
    /\ \A i \in DOMAIN got : got[i] \in 1 .. nsent
    /\ ~merged /\ down = <<>> /\ peer # "rst" => Len(got) = nsent

=============================================================================
