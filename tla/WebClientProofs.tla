-------------------------- MODULE WebClientProofs --------------------------
(***************************************************************************)
(* Proofs of OwnDescriptor, OnlyTheseLeak, FramesOnlyUpgraded and          *)
(* FramesInOrder, for any number of descriptors, connections and frames.   *)
(***************************************************************************)
EXTENDS WebClient, SequenceTheorems, TLAPS

Fates == {"none", "trying", "failed", "made", "left", "closed"}
Whats == {"http", "frame", "close"}

Types ==
  /\ owner \in [Fds -> Tries \cup {Free, App}]
  /\ tries \in 0 .. MaxTries
  /\ sockfd \in Fds \cup {-1} /\ connected \in BOOLEAN
  /\ fate \in [Tries -> Fates]
  /\ up \in Seq(Whats)

\* Which connections have a descriptor.
Owned ==
  /\ \A fd, g \in Fds : owner[fd] \in Tries /\ owner[fd] = owner[g] => fd = g
  /\ \A c \in Tries : (\E fd \in Fds : owner[fd] = c) <=> fate[c] \notin {"none", "closed"}
  /\ \A c \in Tries : c > tries <=> fate[c] = "none"

\* Which of them the object still knows, and where its thread is meanwhile.
Known ==
  /\ \A c \in Tries : fate[c] = "trying" => c = tries /\ pc = "connect"
  /\ \A c \in Tries : fate[c] = "made" => c = tries /\ connected /\ sockfd # -1 /\ pc # "gone"
  /\ connected /\ sockfd # -1 => tries \in Tries /\ owner[sockfd] = tries
  /\ pc \in {"connect", "recv"} => sockfd # -1 /\ tries \in Tries /\ owner[sockfd] = tries
  /\ pc = "recv" => connected

\* What has gone up the newest connection.
Sent ==
  /\ connected /\ sockfd # -1 => answer = "101" \/ reused
  /\ peer \in {"up", "fin"} => up # <<>>
  /\ pc = "connect" => up = <<"http">>
  /\ \A i \in DOMAIN up :
       /\ up[i] # "http" => answer = "101" \/ reused
       /\ up[i] = "http" <=> i = 1
       /\ up[i] = "close" => i = Len(up) /\ ~connected

IInv == Types /\ Owned /\ Known /\ Sent

-----------------------------------------------------------------------------
USE WebClientAssumption DEF WebClientAssumption

LEMMA InitIInv == Init => IInv
<1> SUFFICES ASSUME Init PROVE IInv
  OBVIOUS
<1>1. Types
  <2>1. <<>> \in Seq(Whats)
    OBVIOUS
  <2>2. [c \in Tries |-> "none"] \in [Tries -> Fates]
    BY DEF Fates
  <2>3. owner \in [Fds -> Tries \cup {Free, App}] /\ tries \in 0 .. MaxTries
    BY DEF Init
  <2>4. sockfd \in Fds \cup {-1} /\ connected \in BOOLEAN
    BY DEF Init
  <2> QED
    BY <2>1, <2>2, <2>3, <2>4 DEF Init, Types
<1>2. Owned
  BY DEF Init, Owned, Tries
<1>3. Known /\ Sent
  BY DEF Init, Known, Sent
<1> QED
  BY <1>1, <1>2, <1>3 DEF IInv

LEMMA NewFd == \A fd \in NextFds : fd \in Fds /\ owner[fd] = Free
BY DEF NextFds, FdsOf

-----------------------------------------------------------------------------
(* The steps of each kind, without what the invariant does not look at.    *)

\* The peer, and the calls that change nothing but where the thread is.
Quiet == UNCHANGED <<owner, tries, object, fate, up, reused>>

QuietAction ==
  Answers \/ SendsFrame \/ Leaves \/ Resets \/ Construct \/ SigPipe
    \/ RecvCall \/ RecvMessage \/ RecvFails \/ UNCHANGED vars

LEMMA QuietCases ==
  ASSUME QuietAction
  PROVE  /\ Quiet
         /\ \/ pc' = pc
            \/ pc \in {"none", "idle", "recv"} /\ pc' \in {"idle", "dead"}
            \/ pc = "idle" /\ pc' = "recv" /\ connected /\ sockfd # -1
         /\ answer' = answer \/ answer = "none"
         /\ peer' = peer \/ peer' = "rst" \/ peer = "up"
<1>1. CASE Answers \/ SendsFrame \/ Leaves \/ Resets
  BY <1>1 DEF Answers, SendsFrame, Leaves, Resets, Quiet, object, history
<1>2. CASE Construct \/ SigPipe \/ RecvCall \/ RecvFails
  BY <1>2 DEF Construct, SigPipe, RecvCall, RecvFails, Quiet, network, object, history
<1>3. CASE RecvMessage
  BY <1>3 DEF RecvMessage, Receives, Quiet, object
<1>4. CASE UNCHANGED vars
  BY <1>4 DEF vars, Quiet, network, object, history
<1> QED
  BY <1>1, <1>2, <1>3, <1>4 DEF QuietAction

\* Closing, and what the destructor does instead when there is nothing to close.
LEMMA ClosingCases ==
  ASSUME Close \/ Destroy
  PROVE  /\ pc = "idle" /\ pc' \in {"idle", "gone"}
         /\ UNCHANGED <<tries, sockfd, peer, answer, reused>>
         /\ ~connected'
         /\ \/ (~connected \/ sockfd = -1) /\ UNCHANGED <<owner, up, fate>>
            \/ /\ connected /\ sockfd # -1
               /\ owner' = [owner EXCEPT ![sockfd] = Free]
               /\ fate' = [fate EXCEPT ![tries] = "closed"]
               /\ UNCHANGED up \/ (peer \in {"up", "fin"} /\ up' = Append(up, "close"))
BY DEF Close, Destroy, Closing, AtEnd, Disconnected, Writes, Broken, network, object, history

\* A new connection, got as far as how says.
LEMMA DialCases ==
  ASSUME NEW how \in {"failed", "trying"}, Dial(how), Types
  PROVE  /\ pc = "idle" /\ tries' = tries + 1 /\ tries' \in Tries
         /\ sockfd' \in Fds /\ owner[sockfd'] = Free /\ owner' = [owner EXCEPT ![sockfd'] = tries']
         /\ fate' = [LetGo EXCEPT ![tries'] = how]
         /\ UNCHANGED connected /\ reused' = connected
BY NewFd DEF Dial, Types, Tries

-----------------------------------------------------------------------------
(* Each kind of step keeps the invariant.                                  *)

LEMMA QuietKeeps ==
  ASSUME IInv, QuietAction
  PROVE  IInv'
<1>1. Types' /\ Owned'
  BY QuietCases DEF IInv, Types, Owned, Quiet, object
<1>2. Known'
  BY QuietCases DEF IInv, Types, Known, Quiet, object
<1>3. Sent'
  BY QuietCases DEF IInv, Sent, Quiet, object
<1> QED
  BY <1>1, <1>2, <1>3 DEF IInv

LEMMA AppKeeps ==
  ASSUME IInv, AppOpen \/ AppClose
  PROVE  IInv'
<1>1. UNCHANGED <<tries, network, object, pc, history, fate>>
  BY DEF AppOpen, AppClose
<1>2. PICK fd \in Fds : /\ owner[fd] \in {Free, App}
                        /\ \E o \in {Free, App} : owner' = [owner EXCEPT ![fd] = o]
  BY NewFd DEF AppOpen, AppClose, FdsOf
<1>3. owner' \in [Fds -> Tries \cup {Free, App}]
      /\ \A g \in Fds, c \in Tries : owner'[g] = c <=> owner[g] = c
  BY <1>2 DEF IInv, Types
<1>4. Types'
  BY <1>1, <1>3 DEF IInv, Types, object, history
<1>5. Owned'
  BY <1>1, <1>3 DEF IInv, Types, Owned
<1>6. Known'
  BY <1>1, <1>3 DEF IInv, Types, Known, object
<1>7. Sent'
  BY <1>1 DEF IInv, Sent, network, object, history
<1> QED
  BY <1>4, <1>5, <1>6, <1>7 DEF IInv

LEMMA LetGoIs ==
  ASSUME Types, Known
  PROVE  /\ LetGo \in [Tries -> Fates]
         /\ \A c \in Tries : LetGo[c] = IF connected /\ sockfd # -1 /\ c = tries
                                        THEN "left" ELSE fate[c]
BY DEF Types, Known, LetGo, Fates

LEMMA NoSocketKeeps ==
  ASSUME IInv, NoSocket
  PROVE  IInv'
<1>1. /\ pc = "idle" /\ sockfd' = -1 /\ fate' = LetGo
      /\ UNCHANGED <<owner, tries, peer, answer, connected, pc, up, reused>>
  BY DEF NoSocket, network, history
<1>2. Types'
  BY <1>1, LetGoIs DEF IInv, Types
<1>3. Owned'
  BY <1>1, LetGoIs DEF IInv, Types, Owned, Known
<1>4. Known'
  BY <1>1, LetGoIs DEF IInv, Types, Owned, Known
<1>5. Sent'
  BY <1>1 DEF IInv, Sent
<1> QED
  BY <1>2, <1>3, <1>4, <1>5 DEF IInv

LEMMA DialKeeps ==
  ASSUME IInv, Refused \/ Asks
  PROVE  IInv'
<1>1. PICK how \in {"failed", "trying"} :
        /\ Dial(how)
        /\ how = "failed" => pc' = pc /\ up' = <<>> /\ peer' \in {"none", "rst"}
        /\ how = "trying" => pc' = "connect" /\ up' = <<"http">>
  BY DEF Refused, Asks
<1> DEFINE new == tries + 1
<1>2. /\ pc = "idle" /\ tries' = new /\ new \in Tries
      /\ sockfd' \in Fds /\ owner[sockfd'] = Free /\ owner' = [owner EXCEPT ![sockfd'] = new]
      /\ fate' = [LetGo EXCEPT ![new] = how]
      /\ UNCHANGED connected /\ reused' = connected
  BY <1>1, DialCases DEF IInv
<1>3. /\ fate' \in [Tries -> Fates]
      /\ \A c \in Tries : fate'[c] = IF c = new THEN how ELSE LetGo[c]
      /\ \A fd \in Fds : owner'[fd] = IF fd = sockfd' THEN new ELSE owner[fd]
  BY <1>2, LetGoIs DEF IInv, Types, Fates
<1>4. new # tries /\ new \notin {Free, App} /\ sockfd' # -1
  BY <1>2 DEF IInv, Types, Tries
<1>5. fate[new] = "none" /\ \A fd \in Fds : owner[fd] # new
  BY <1>2, <1>4 DEF IInv, Types, Owned, Tries
<1>6. Types'
  <2>1. up' \in Seq(Whats)
    <3>1. <<>> \in Seq(Whats) /\ <<"http">> \in Seq(Whats)
      BY DEF Whats
    <3> QED
      BY <1>1, <3>1
  <2>2. owner' \in [Fds -> Tries \cup {Free, App}] /\ tries' \in 0 .. MaxTries
    BY <1>2 DEF IInv, Types, Tries
  <2> QED
    BY <1>2, <1>3, <2>1, <2>2 DEF IInv, Types
<1>7. Owned'
  <2>1. \A fd, g \in Fds : owner'[fd] \in Tries /\ owner'[fd] = owner'[g] => fd = g
    BY <1>3, <1>5 DEF IInv, Owned
  <2>2. \A c \in Tries : (\E fd \in Fds : owner'[fd] = c) <=> fate'[c] \notin {"none", "closed"}
    <3> SUFFICES ASSUME NEW c \in Tries
                 PROVE  (\E fd \in Fds : owner'[fd] = c) <=> fate'[c] \notin {"none", "closed"}
      OBVIOUS
    <3>1. CASE c = new
      BY <3>1, <1>2, <1>3
    <3>2. CASE c # new
      <4>1. (\E fd \in Fds : owner'[fd] = c) <=> \E fd \in Fds : owner[fd] = c
        BY <3>2, <1>2, <1>3
      <4>2. LetGo[c] \in {"none", "closed"} <=> fate[c] \in {"none", "closed"}
        BY LetGoIs DEF IInv, Types, Owned, Known
      <4> QED
        BY <3>2, <4>1, <4>2, <1>3 DEF IInv, Owned
    <3> QED
      BY <3>1, <3>2
  <2>3. \A c \in Tries : c > new <=> fate'[c] = "none"
    BY <1>1, <1>3, LetGoIs DEF IInv, Types, Owned, Tries
  <2> QED
    BY <1>2, <2>1, <2>2, <2>3 DEF Owned
<1>8. Known'
  <2>1. \A c \in Tries : LetGo[c] \notin {"trying", "made"}
    BY <1>2, LetGoIs DEF IInv, Known
  <2> QED
    BY <1>1, <1>2, <1>3, <1>4, <2>1 DEF Known
<1>9. Sent'
  BY <1>1, <1>2, <1>3, <1>4 DEF IInv, Sent, Asks, Refused
<1> QED
  BY <1>6, <1>7, <1>8, <1>9 DEF IInv

LEMMA AnsweredKeeps ==
  ASSUME IInv, HandshakeRecv \/ HandshakeFails
  PROVE  IInv'
<1>1. /\ pc = "connect" /\ pc' = "idle"
      /\ UNCHANGED <<owner, tries, peer, answer, sockfd, up, reused>>
      /\ \/ connected' = TRUE /\ answer = "101" /\ fate' = [fate EXCEPT ![tries] = "made"]
         \/ UNCHANGED connected /\ fate' = [fate EXCEPT ![tries] = "failed"]
  BY DEF HandshakeRecv, HandshakeFails, Receives, Switched, network, object, history
<1>2. tries \in Tries /\ sockfd # -1 /\ owner[sockfd] = tries /\ up = <<"http">>
  BY <1>1 DEF IInv, Known, Sent
<1>3. sockfd \in Fds /\ fate[tries] \notin {"none", "closed"}
  BY <1>2 DEF IInv, Types, Owned
<1>4. /\ fate' \in [Tries -> Fates]
      /\ fate'[tries] \in {"made", "failed"}
      /\ fate'[tries] = "made" => connected'
      /\ \A c \in Tries : c # tries => fate'[c] = fate[c]
  BY <1>1, <1>2 DEF IInv, Types, Fates
<1>5. Types'
  BY <1>1, <1>4 DEF IInv, Types
<1>6. Owned'
  <2>1. \A c \in Tries : fate'[c] \in {"none", "closed"} <=> fate[c] \in {"none", "closed"}
    BY <1>3, <1>4
  <2>2. \A c \in Tries : fate'[c] = "none" <=> fate[c] = "none"
    BY <1>3, <1>4
  <2> QED
    BY <1>1, <2>1, <2>2 DEF IInv, Owned
<1>7. Known'
  BY <1>1, <1>2, <1>4 DEF IInv, Known
<1>8. Sent'
  <2>1. DOMAIN up = {1} /\ up[1] = "http"
    BY <1>2
  <2>2. connected' /\ sockfd # -1 => answer = "101" \/ reused
    BY <1>1 DEF IInv, Sent
  <2> QED
    BY <1>1, <1>2, <2>1, <2>2 DEF IInv, Sent
<1> QED
  BY <1>5, <1>6, <1>7, <1>8 DEF IInv

\* Appending to what has been sent keeps the request first.
LEMMA Appended ==
  ASSUME IInv, peer \in {"up", "fin"}, connected, sockfd # -1,
         NEW what \in {"frame", "close"}
  PROVE  /\ Append(up, what) \in Seq(Whats)
         /\ Append(up, what) # <<>>
         /\ \A i \in DOMAIN Append(up, what) :
              /\ answer = "101" \/ reused
              /\ Append(up, what)[i] = "http" <=> i = 1
              /\ Append(up, what)[i] = "close" => i = Len(Append(up, what)) /\ what = "close"
<1>1. up \in Seq(Whats) /\ up # <<>> /\ Len(up) >= 1
  BY DEF IInv, Types, Sent
<1>2. \A i \in 1 .. Len(up) : (up[i] = "http" <=> i = 1) /\ up[i] # "close"
  BY <1>1 DEF IInv, Sent
<1>3. answer = "101" \/ reused
  BY DEF IInv, Sent
<1>4. what \in Whats
  BY DEF Whats
<1>5. /\ Append(up, what) \in Seq(Whats) /\ Len(Append(up, what)) = Len(up) + 1
      /\ DOMAIN Append(up, what) = 1 .. Len(up) + 1
      /\ \A i \in 1 .. Len(up) : Append(up, what)[i] = up[i]
      /\ Append(up, what)[Len(up) + 1] = what
  BY <1>1, <1>4
<1> QED
  BY <1>1, <1>2, <1>3, <1>5

LEMMA FrameKeeps ==
  ASSUME IInv, SendFrame
  PROVE  IInv'
<1>1. /\ connected /\ sockfd # -1 /\ peer \in {"up", "fin"} /\ pc = "idle"
      /\ up' = Append(up, "frame")
      /\ UNCHANGED <<owner, tries, peer, answer, object, pc, reused, fate>>
  BY DEF SendFrame, Writes, network
<1>2. Types' /\ Owned'
  BY <1>1, Appended DEF IInv, Types, Owned, object
<1>3. Known'
  BY <1>1 DEF IInv, Known, object
<1>4. Sent'
  BY <1>1, Appended DEF IInv, Sent, object
<1> QED
  BY <1>2, <1>3, <1>4 DEF IInv

LEMMA CloseKeeps ==
  ASSUME IInv, Close \/ Destroy
  PROVE  IInv'
<1>1. CASE /\ ~connected \/ sockfd = -1
           /\ UNCHANGED <<owner, up, fate>>
  <2>1. \A c \in Tries : fate[c] # "made"
    BY <1>1 DEF IInv, Known
  <2>2. connected' \in BOOLEAN
    BY DEF Close, Destroy, Closing, AtEnd, Disconnected, object, IInv, Types
  <2>3. Types' /\ Owned'
    BY <1>1, <2>2, ClosingCases DEF IInv, Types, Owned
  <2>4. Known'
    BY <1>1, <2>1, ClosingCases DEF IInv, Known
  <2>5. Sent'
    BY <1>1, ClosingCases DEF IInv, Sent
  <2> QED
    BY <2>3, <2>4, <2>5 DEF IInv
<1>2. CASE /\ connected /\ sockfd # -1
           /\ owner' = [owner EXCEPT ![sockfd] = Free]
           /\ fate' = [fate EXCEPT ![tries] = "closed"]
           /\ UNCHANGED up \/ (peer \in {"up", "fin"} /\ up' = Append(up, "close"))
  <2>1. sockfd \in Fds /\ tries \in Tries /\ owner[sockfd] = tries
    BY <1>2 DEF IInv, Types, Known
  <2>2. /\ fate' \in [Tries -> Fates]
        /\ \A c \in Tries : fate'[c] = IF c = tries THEN "closed" ELSE fate[c]
    BY <1>2 DEF IInv, Types, Fates
  <2>3. /\ owner' \in [Fds -> Tries \cup {Free, App}]
        /\ \A fd \in Fds : owner'[fd] = IF fd = sockfd THEN Free ELSE owner[fd]
    BY <1>2 DEF IInv, Types
  <2>4. connected' \in BOOLEAN
    BY <1>2 DEF Close, Destroy, Closing, AtEnd, Disconnected
  <2>5. Types'
    BY <1>2, <2>2, <2>3, <2>4, Appended, ClosingCases DEF IInv, Types
  <2>6. Owned'
    <3>1. fate[tries] # "none"
      BY <2>1 DEF IInv, Owned
    <3>2. \A c \in Tries : c # tries =>
            ((\E fd \in Fds : owner'[fd] = c) <=> \E fd \in Fds : owner[fd] = c)
      BY <2>1, <2>3
    <3>3. \A fd \in Fds : owner'[fd] # tries
      BY <2>1, <2>3 DEF IInv, Owned
    <3>4. \A c \in Tries :
            (\E fd \in Fds : owner'[fd] = c) <=> fate'[c] \notin {"none", "closed"}
      BY <2>2, <3>2, <3>3 DEF IInv, Owned
    <3>5. \A c \in Tries : c > tries <=> fate'[c] = "none"
      BY <2>1, <2>2, <3>1 DEF IInv, Owned
    <3>6. \A fd, g \in Fds : owner'[fd] \in Tries /\ owner'[fd] = owner'[g] => fd = g
      BY <2>3 DEF IInv, Owned
    <3> QED
      BY <3>4, <3>5, <3>6, ClosingCases DEF Owned
  <2>7. Known'
    BY <1>2, <2>2, ClosingCases DEF IInv, Known
  <2>8. Sent'
    BY <1>2, ClosingCases, Appended DEF IInv, Sent
  <2> QED
    BY <2>5, <2>6, <2>7, <2>8 DEF IInv
<1> QED
  BY <1>1, <1>2, ClosingCases

-----------------------------------------------------------------------------
(* The theorems.                                                           *)

\* The invariant is inductive, and holds in every reachable state.
THEOREM IInvHolds == Spec => []IInv
<1>1. ASSUME IInv, [Next]_vars
      PROVE  IInv'
  <2>1. CASE QuietAction
    BY <1>1, <2>1, QuietKeeps
  <2>2. CASE AppOpen \/ AppClose
    BY <1>1, <2>2, AppKeeps
  <2>3. CASE NoSocket \/ Refused \/ Asks
    BY <1>1, <2>3, NoSocketKeeps, DialKeeps
  <2>4. CASE HandshakeRecv \/ HandshakeFails
    BY <1>1, <2>4, AnsweredKeeps
  <2>5. CASE SendFrame \/ Close \/ Destroy
    BY <1>1, <2>5, FrameKeeps, CloseKeeps
  <2> QED
    BY <1>1, <2>1, <2>2, <2>3, <2>4, <2>5 DEF Next, Environment, QuietAction
<1> QED
  BY <1>1, InitIInv, PTL DEF Spec

\* While connected_ is set, and while a call waits, sockfd_ is the object's newest
\* socket or -1, never a descriptor it once had and somebody else has now.
THEOREM OwnDescriptorHolds == Spec => []OwnDescriptor
<1>1. IInv => OwnDescriptor
  BY DEF IInv, Known, OwnDescriptor
<1> QED
  BY <1>1, IInvHolds, PTL

\* A descriptor the object has made is closed once, and those it leaves open are
\* what a failed connect(), or a second one, let go of.
THEOREM OnlyTheseLeakHolds == Spec => []OnlyTheseLeak
<1>1. IInv => OnlyTheseLeak
  <2> SUFFICES ASSUME IInv, NEW c \in Tries
               PROVE  /\ \A fd, g \in FdsOf(c) : fd = g
                      /\ FdsOf(c) = {} <=> fate[c] \in {"none", "closed"}
                      /\ pc = "gone" => fate[c] \notin {"trying", "made"}
    BY DEF OnlyTheseLeak
  <2>1. \A fd, g \in FdsOf(c) : fd = g
    BY DEF IInv, Owned, FdsOf
  <2>2. FdsOf(c) = {} <=> fate[c] \in {"none", "closed"}
    BY DEF IInv, Owned, FdsOf
  <2>3. pc = "gone" => fate[c] \notin {"trying", "made"}
    BY DEF IInv, Known
  <2> QED
    BY <2>1, <2>2, <2>3
<1> QED
  BY <1>1, IInvHolds, PTL

\* Up a connection goes the request, then frames if the peer has answered 101 or
\* the object was connected before, and a close frame last.
THEOREM FramesOnlyUpgradedHolds == Spec => []FramesOnlyUpgraded
<1>1. IInv => FramesOnlyUpgraded
  BY DEF IInv, Sent, FramesOnlyUpgraded
<1> QED
  BY <1>1, IInvHolds, PTL

-----------------------------------------------------------------------------
(* FramesInOrder.  As long as recv has returned nothing but whole things   *)
(* there is one item up to which it has come, and Order says what is on    *)
(* its way behind it.                                                      *)

\* The unit that follows unit u in what the peer sends.
Following(u) ==
  IF u.part < PartsOf(u.item) THEN [item |-> u.item, part |-> u.part + 1]
  ELSE [item |-> u.item + 1, part |-> 1]

\* What is on its way follows item k, leaves out nothing up to where it ends, and
\* ends with the last item sent unless a reset has cut it.
Line(k) ==
  /\ \A i \in 1 .. Len(down) :
       /\ down[i] = IF i = 1 THEN [item |-> k + 1, part |-> 1] ELSE Following(down[i - 1])
       /\ down[i].item \in k + 1 .. nsent
  /\ \A i, j \in 1 .. Len(down) : i <= j => down[i].item <= down[j].item
  /\ peer # "rst" /\ answer # "none" =>
       IF Len(down) = 0 THEN k = nsent
       ELSE down[Len(down)] = [item |-> nsent, part |-> PartsOf(nsent)]

\* The response is read by connect() and by nothing else.
Stage(k) ==
  /\ pc = "connect" => k = -1
  /\ k = -1 /\ pc # "connect" => Len(down) = 0 /\ peer # "up"
  /\ answer = "none" => k = -1 /\ Len(down) = 0 /\ nsent = 0

\* What recv_message has returned, when recv has come as far as item k.
Got(k) ==
  /\ \A i, j \in 1 .. Len(got) : i < j => got[i] < got[j]
  /\ \A i \in 1 .. Len(got) : got[i] \in 1 .. k
  /\ ~merged => Len(got) = IF k = -1 THEN 0 ELSE k

OTypes == down \in Seq(Unit) /\ got \in Seq(Nat) /\ nsent \in Nat

\* recv has come as far as item k.
Ordered(k) == k \in -1 .. nsent /\ Line(k) /\ Stage(k) /\ Got(k)

Order == OTypes /\ (~torn => \E k \in Int : Ordered(k))

LEMMA Lengths ==
  ASSUME OTypes
  PROVE  /\ Len(down) \in Nat /\ Len(got) \in Nat
         /\ \A i \in 1 .. Len(down) : down[i] \in Unit
         /\ \A i \in 1 .. Len(got) : got[i] \in Nat
BY LenProperties, ElementOfSeq DEF OTypes

\* A connection of which nothing has been read and on which nothing was sent.
LEMMA FreshOrder ==
  ASSUME down = <<>>, got = <<>>, nsent = 0, answer = "none", ~merged,
         peer = "up" => pc = "connect"
  PROVE  Order
<1>1. OTypes /\ Len(down) = 0 /\ Len(got) = 0
  BY DEF OTypes
<1>2. Line(-1) /\ Stage(-1) /\ Got(-1)
  BY <1>1 DEF Line, Stage, Got
<1> QED
  BY <1>1, <1>2 DEF Order, Ordered

LEMMA InitOrder == Init => Order
BY FreshOrder DEF Init

\* Steps that leave the network and what was read alone.
LEMMA StillKeeps ==
  ASSUME Order, UNCHANGED <<network, got, torn, merged>>,
         pc' = "connect" => pc = "connect",
         pc = "connect" /\ pc' # "connect" => Len(down) = 0 /\ peer # "up"
  PROVE  Order'
<1>1. UNCHANGED <<peer, answer, nsent, down, got, torn, merged>>
  BY DEF network
<1>2. OTypes'
  BY <1>1 DEF Order, OTypes
<1>3. ASSUME ~torn', NEW k \in Int, Ordered(k)
      PROVE  Ordered(k)'
  <2>1. Line(k)' /\ Got(k)'
    BY <1>1, <1>3 DEF Ordered, Line, Got
  <2>2. Stage(k)'
    BY <1>1, <1>3 DEF Ordered, Stage
  <2> QED
    BY <1>1, <1>3, <2>1, <2>2 DEF Ordered
<1> QED
  BY <1>1, <1>2, <1>3 DEF Order

LEMMA StillCases ==
  ASSUME Order,
         \/ AppOpen \/ AppClose \/ Construct \/ NoSocket \/ HandshakeFails
         \/ SendFrame \/ SigPipe \/ RecvCall \/ RecvFails \/ Close \/ Destroy
         \/ UNCHANGED vars
  PROVE  Order'
<1>1. CASE AppOpen \/ AppClose \/ UNCHANGED vars
  BY <1>1, StillKeeps DEF AppOpen, AppClose, vars, history
<1>2. CASE Construct \/ NoSocket
  BY <1>2, StillKeeps DEF Construct, NoSocket, history
<1>3. CASE HandshakeFails
  <2>1. Len(down) = 0 /\ peer # "up"
    BY <1>3 DEF HandshakeFails, Over
  <2> QED
    BY <1>3, <2>1, StillKeeps DEF HandshakeFails, history
<1>4. CASE SendFrame \/ SigPipe \/ RecvCall \/ RecvFails
  BY <1>4, StillKeeps DEF SendFrame, SigPipe, RecvCall, RecvFails, history
<1>5. CASE Close \/ Destroy
  <2>1. UNCHANGED <<network, got, torn, merged>>
    BY <1>5 DEF Close, Destroy, Closing, AtEnd, history
  <2>2. pc = "idle" /\ pc' # "connect"
    BY <1>5 DEF Close, Destroy
  <2> QED
    BY <2>1, <2>2, StillKeeps
<1> QED
  BY <1>1, <1>2, <1>3, <1>4, <1>5

-----------------------------------------------------------------------------
(* The peer.                                                               *)

LEMMA ItemIs ==
  /\ \A n \in Nat \ {0} : Item(n) = <<[item |-> n, part |-> 1], [item |-> n, part |-> 2]>>
  /\ Item(0) = <<[item |-> 0, part |-> 1], [item |-> 0, part |-> 2], [item |-> 0, part |-> 3]>>
<1>1. ASSUME NEW n \in Nat \ {0}
      PROVE  Item(n) = <<[item |-> n, part |-> 1], [item |-> n, part |-> 2]>>
  <2>1. PartsOf(n) = 2
    BY DEF PartsOf
  <2> QED
    BY <2>1 DEF Item
<1>2. PartsOf(0) = 3
  BY DEF PartsOf
<1> QED
  BY <1>1, <1>2 DEF Item

LEMMA AnswersKeeps == ASSUME Order, Answers PROVE Order'
<1>1. /\ peer = "up" /\ answer = "none" /\ answer' # "none"
      /\ UNCHANGED <<peer, nsent, got, torn, merged, pc>>
  BY DEF Answers, history
<1>2. /\ Len(down') = 3 /\ down' \in Seq(Unit)
      /\ down'[1] = [item |-> 0, part |-> 1] /\ down'[2] = [item |-> 0, part |-> 2]
      /\ down'[3] = [item |-> 0, part |-> 3]
  <2>1. down' = <<[item |-> 0, part |-> 1], [item |-> 0, part |-> 2], [item |-> 0, part |-> 3]>>
    BY ItemIs DEF Answers
  <2>2. /\ [item |-> 0, part |-> 1] \in Unit /\ [item |-> 0, part |-> 2] \in Unit
        /\ [item |-> 0, part |-> 3] \in Unit
    BY DEF Unit
  <2> QED
    BY <2>1, <2>2
<1>3. OTypes'
  BY <1>1, <1>2 DEF Order, OTypes
<1>4. ASSUME ~torn', NEW k \in Int, Ordered(k)
      PROVE  Ordered(k)'
  <2>1. k = -1 /\ nsent = 0 /\ pc = "connect"
    BY <1>1, <1>4 DEF Ordered, Stage
  <2>2. Got(k)' /\ Stage(k)'
    BY <1>1, <1>4, <2>1 DEF Ordered, Got, Stage
  <2>3. Line(k)'
    <3>1. \A i \in 1 .. 3 : i = 1 \/ i = 2 \/ i = 3
      OBVIOUS
    <3>2. PartsOf(0) = 3
      BY DEF PartsOf
    <3> QED
      BY <1>1, <1>2, <2>1, <3>1, <3>2 DEF Line, Following
  <2> QED
    BY <1>1, <1>4, <2>2, <2>3 DEF Ordered
<1> QED
  BY <1>1, <1>3, <1>4 DEF Order

LEMMA SendsFrameKeeps == ASSUME Order, SendsFrame PROVE Order'
<1> DEFINE n == nsent'
           m == Len(down)
<1>1. /\ peer = "up" /\ answer = "101" /\ n = nsent + 1 /\ n \in Nat /\ n # 0 /\ m \in Nat
      /\ UNCHANGED <<peer, answer, got, torn, merged, pc>>
  BY Lengths DEF SendsFrame, history, Order, OTypes
<1>2. /\ down' \in Seq(Unit) /\ Len(down') = m + 2
      /\ \A i \in 1 .. m : down'[i] = down[i]
      /\ down'[m + 1] = [item |-> n, part |-> 1] /\ down'[m + 2] = [item |-> n, part |-> 2]
  <2> DEFINE s == <<[item |-> n, part |-> 1], [item |-> n, part |-> 2]>>
  <2>1. s \in Seq(Unit) /\ Len(s) = 2 /\ s[1] = [item |-> n, part |-> 1] /\ s[2] = [item |-> n, part |-> 2]
    BY <1>1 DEF Unit
  <2>2. down' = down \o s /\ down \in Seq(Unit)
    BY <1>1, ItemIs DEF SendsFrame, Order, OTypes
  <2> HIDE DEF s, m, n
  <2>3. /\ down' \in Seq(Unit) /\ Len(down') = Len(down) + Len(s)
        /\ \A i \in 1 .. Len(down) + Len(s) :
             down'[i] = IF i <= Len(down) THEN down[i] ELSE s[i - Len(down)]
    BY <2>1, <2>2, ConcatProperties
  <2>4. /\ Len(down') = m + 2
        /\ \A i \in 1 .. m + 2 : down'[i] = IF i <= m THEN down[i] ELSE s[i - m]
    BY <2>1, <2>3 DEF m
  <2>5. (m + 1) - m = 1 /\ (m + 2) - m = 2 /\ m + 1 \in 1 .. m + 2 /\ m + 2 \in 1 .. m + 2
    BY <1>1
  <2> QED
    BY <1>1, <2>1, <2>3, <2>4, <2>5
<1> HIDE DEF n, m
<1>3. OTypes'
  BY <1>1, <1>2 DEF Order, OTypes, n
<1>4. ASSUME ~torn', NEW k \in Int, Ordered(k)
      PROVE  Ordered(k)'
  <2>1. k \in -1 .. nsent /\ nsent \in Nat /\ nsent' = n
    BY <1>1, <1>4 DEF Ordered, Order, OTypes, n
  <2>2. Stage(k)'
    BY <1>1, <1>4 DEF Ordered, Stage
  <2>3. Got(k)'
    BY <1>1, <1>4 DEF Ordered, Got
  <2>4. /\ \A i \in 1 .. m : /\ down[i] = IF i = 1 THEN [item |-> k + 1, part |-> 1]
                                          ELSE Following(down[i - 1])
                             /\ down[i].item \in k + 1 .. nsent
        /\ \A i, j \in 1 .. m : i <= j => down[i].item <= down[j].item
        /\ IF m = 0 THEN k = nsent ELSE down[m] = [item |-> nsent, part |-> PartsOf(nsent)]
    BY <1>1, <1>4 DEF Ordered, Line, m
  <2>5. \A i \in 1 .. m + 2 : i \in 1 .. m \/ i = m + 1 \/ i = m + 2
    BY <1>1
  <2>6. [item |-> n, part |-> 2] = Following([item |-> n, part |-> 1]) /\ PartsOf(n) = 2
    BY <1>1 DEF Following, PartsOf
  <2>7. m # 0 => [item |-> n, part |-> 1] = Following(down[m])
    <3>1. SUFFICES ASSUME m # 0
                   PROVE  [item |-> n, part |-> 1] = Following(down[m])
      OBVIOUS
    <3>2. down[m] = [item |-> nsent, part |-> PartsOf(nsent)]
      BY <2>4, <3>1
    <3>3. ~(PartsOf(nsent) < PartsOf(nsent))
      BY DEF PartsOf
    <3> QED
      BY <1>1, <3>2, <3>3 DEF Following
  <2>8. \A i \in 1 .. m + 2 :
          /\ down'[i] = IF i = 1 THEN [item |-> k + 1, part |-> 1] ELSE Following(down'[i - 1])
          /\ down'[i].item \in k + 1 .. n
    <3>1. ASSUME NEW i \in 1 .. m
          PROVE  /\ down'[i] = IF i = 1 THEN [item |-> k + 1, part |-> 1] ELSE Following(down'[i - 1])
                 /\ down'[i].item \in k + 1 .. n
      <4>1. down'[i] = down[i] /\ (i # 1 => i - 1 \in 1 .. m /\ down'[i - 1] = down[i - 1])
        BY <1>1, <1>2
      <4>2. /\ down[i] = IF i = 1 THEN [item |-> k + 1, part |-> 1] ELSE Following(down[i - 1])
            /\ down[i].item \in k + 1 .. nsent
        BY <2>4
      <4>3. down[i].item \in k + 1 .. n
        BY <1>1, <2>1, <4>2
      <4> QED
        BY <4>1, <4>2, <4>3
    <3>2. /\ down'[m + 1] = IF m + 1 = 1 THEN [item |-> k + 1, part |-> 1] ELSE Following(down'[(m + 1) - 1])
          /\ down'[m + 1].item \in k + 1 .. n
      <4>1. CASE m = 0
        <5>1. k + 1 = n /\ m + 1 = 1 /\ n \in k + 1 .. n
          BY <1>1, <2>1, <2>4, <4>1
        <5> QED
          BY <1>2, <5>1
      <4>2. CASE m # 0
        <5>1. (m + 1) - 1 = m /\ m \in 1 .. m /\ m + 1 # 1
          BY <1>1, <4>2
        <5> QED
          BY <1>1, <1>2, <2>1, <2>4, <2>7, <4>2, <5>1
      <4> QED
        BY <4>1, <4>2
    <3>3. /\ down'[m + 2] = Following(down'[(m + 2) - 1]) /\ m + 2 # 1
          /\ down'[m + 2].item \in k + 1 .. n
      <4>1. (m + 2) - 1 = m + 1 /\ m + 2 # 1
        BY <1>1
      <4> QED
        BY <1>1, <1>2, <2>1, <2>6, <4>1
    <3> QED
      BY <2>5, <3>1, <3>2, <3>3
  <2>9. \A i, j \in 1 .. m + 2 : i <= j => down'[i].item <= down'[j].item
    <3>1. \A i \in 1 .. m : down'[i].item \in Int /\ down'[i].item <= n /\ down'[i] = down[i]
      BY <1>1, <1>2, <2>1, <2>4
    <3>2. down'[m + 1].item = n /\ down'[m + 2].item = n
      BY <1>2
    <3> QED
      BY <1>1, <2>4, <2>5, <3>1, <3>2
  <2>10. Line(k)'
    BY <1>1, <1>2, <2>1, <2>6, <2>8, <2>9 DEF Line
  <2> QED
    BY <1>1, <2>1, <2>2, <2>3, <2>10 DEF Ordered
<1> QED
  BY <1>1, <1>3, <1>4 DEF Order

LEMMA LeavesKeeps == ASSUME Order, Leaves PROVE Order'
<1>1. /\ peer = "up" /\ peer' = "fin"
      /\ UNCHANGED <<answer, nsent, down, got, torn, merged, pc>>
  BY DEF Leaves, history
<1>2. OTypes'
  BY <1>1 DEF Order, OTypes
<1>3. ASSUME ~torn', NEW k \in Int, Ordered(k)
      PROVE  Ordered(k)'
  <2>1. Line(k)'
    BY <1>1, <1>3 DEF Ordered, Line
  <2>2. Stage(k)' /\ Got(k)'
    BY <1>1, <1>3 DEF Ordered, Stage, Got
  <2> QED
    BY <1>1, <1>3, <2>1, <2>2 DEF Ordered
<1> QED
  BY <1>1, <1>2, <1>3 DEF Order

\* A part of what is on its way.
LEMMA Parts ==
  ASSUME OTypes, NEW n \in 1 .. Len(down) + 1, NEW m \in 0 .. Len(down)
  PROVE  /\ SubSeq(down, n, m) \in Seq(Unit)
         /\ Len(SubSeq(down, n, m)) = IF n <= m THEN m - n + 1 ELSE 0
         /\ \A i \in 1 .. m - n + 1 : SubSeq(down, n, m)[i] = down[n + i - 1]
<1>1. \A i \in n .. m : down[i] \in Unit
  BY Lengths
<1>2. n \in Int /\ m \in Int
  BY Lengths
<1> QED
  BY <1>1, <1>2, SubSeqProperties

LEMMA ResetsKeeps == ASSUME Order, Resets PROVE Order'
<1>1. /\ peer # "none" /\ peer' = "rst"
      /\ UNCHANGED <<answer, nsent, got, torn, merged, pc>>
  BY DEF Resets, history
<1>2. PICK n \in 0 .. Len(down) : down' = SubSeq(down, 1, n)
  BY DEF Resets
<1>3. /\ down' \in Seq(Unit) /\ Len(down') = n /\ n \in Nat /\ n <= Len(down) /\ Len(down) \in Nat
      /\ \A i \in 1 .. n : down'[i] = down[i]
  BY <1>2, Lengths, Parts DEF Order
<1>4. OTypes'
  BY <1>1, <1>3 DEF Order, OTypes
<1>5. ASSUME ~torn', NEW k \in Int, Ordered(k)
      PROVE  Ordered(k)'
  <2>1. \A i \in 1 .. n : i \in 1 .. Len(down) /\ (i # 1 => i - 1 \in 1 .. n)
    BY <1>3
  <2>2. Line(k)'
    BY <1>1, <1>3, <1>5, <2>1 DEF Ordered, Line
  <2>3. Stage(k)' /\ Got(k)'
    BY <1>1, <1>3, <1>5 DEF Ordered, Stage, Got
  <2> QED
    BY <1>1, <1>5, <2>2, <2>3 DEF Ordered
<1> QED
  BY <1>1, <1>4, <1>5 DEF Order

-----------------------------------------------------------------------------
(* The object.                                                             *)

LEMMA DialsKeep == ASSUME Order, Refused \/ Asks PROVE Order'
<1>1. /\ down' = <<>> /\ got' = <<>> /\ nsent' = 0 /\ answer' = "none" /\ ~merged'
      /\ peer' = "up" => pc' = "connect"
  BY DEF Refused, Asks, Dial
<1>2. OTypes' /\ Len(down') = 0 /\ Len(got') = 0
  BY <1>1 DEF OTypes
<1>3. Line(-1)' /\ Stage(-1)' /\ Got(-1)'
  BY <1>1, <1>2 DEF Line, Stage, Got
<1> QED
  BY <1>1, <1>2, <1>3 DEF Order, Ordered

\* A recv that returns whole things has come as far as the item of the last unit
\* it has returned, and one further if it has returned one.
LEMMA ReceivesWhole ==
  ASSUME OTypes, NEW k \in Int, Ordered(k), NEW n \in 1 .. Len(down), Receives(n), ~torn',
         NEW to \in Int, down[n].item = to
  PROVE  /\ down' \in Seq(Unit) /\ Len(down') = Len(down) - n
         /\ to \in k + 1 .. nsent /\ to \in Nat /\ Line(to)'
         /\ down[1] = [item |-> k + 1, part |-> 1]
         /\ down[n].part = PartsOf(to)
         /\ ~merged' => ~merged /\ to = k + 1
<1> DEFINE m == Len(down)
<1>1. /\ down' = SubSeq(down, n + 1, m)
      /\ ~torn /\ down[n].part = PartsOf(to)
      /\ ~merged' => ~merged /\ down[1].item = to
      /\ UNCHANGED <<peer, answer, nsent>>
  BY DEF Receives
<1>2. m \in Nat /\ n \in Nat /\ n >= 1 /\ n <= m /\ nsent \in Nat /\ n \in 1 .. m /\ 1 \in 1 .. m
  BY Lengths DEF OTypes
<1>3. /\ down' \in Seq(Unit) /\ Len(down') = m - n
      /\ \A i \in 1 .. m - n : down'[i] = down[n + i]
  <2>1. n + 1 \in 1 .. m + 1 /\ m \in 0 .. m /\ m - (n + 1) + 1 = m - n
        /\ \A i \in 1 .. m - n : (n + 1) + i - 1 = n + i
    BY <1>2
  <2>2. /\ SubSeq(down, n + 1, m) \in Seq(Unit)
        /\ Len(SubSeq(down, n + 1, m)) = IF n + 1 <= m THEN m - (n + 1) + 1 ELSE 0
        /\ \A i \in 1 .. m - (n + 1) + 1 : SubSeq(down, n + 1, m)[i] = down[(n + 1) + i - 1]
    BY <2>1, Parts
  <2>3. (IF n + 1 <= m THEN m - (n + 1) + 1 ELSE 0) = m - n
    BY <1>2
  <2>4. \A i \in 1 .. m - n : down'[i] = down[(n + 1) + i - 1]
    BY <1>1, <2>1, <2>2
  <2> QED
    BY <1>1, <2>1, <2>2, <2>3, <2>4
<1>4. /\ \A i \in 1 .. m : /\ down[i] = IF i = 1 THEN [item |-> k + 1, part |-> 1]
                                        ELSE Following(down[i - 1])
                           /\ down[i].item \in k + 1 .. nsent
      /\ \A i, j \in 1 .. m : i <= j => down[i].item <= down[j].item
      /\ peer # "rst" /\ answer # "none" =>
           down[m] = [item |-> nsent, part |-> PartsOf(nsent)]
      /\ k \in -1 .. nsent
  BY <1>2 DEF Ordered, Line
<1> HIDE DEF m
<1>5. to \in k + 1 .. nsent /\ to \in Nat /\ down[n] \in Unit
  BY <1>2, <1>4, Lengths DEF m
<1>6. down[1] = [item |-> k + 1, part |-> 1]
  BY <1>2, <1>4
<1>7. ~merged' => ~merged /\ to = k + 1
  BY <1>1, <1>6
<1>8. \A i \in 1 .. m - n :
        /\ down'[i] = IF i = 1 THEN [item |-> to + 1, part |-> 1] ELSE Following(down'[i - 1])
        /\ down'[i].item \in to + 1 .. nsent
  <2> SUFFICES ASSUME NEW i \in 1 .. m - n
               PROVE  /\ down'[i] = IF i = 1 THEN [item |-> to + 1, part |-> 1]
                                    ELSE Following(down'[i - 1])
                      /\ down'[i].item \in to + 1 .. nsent
    OBVIOUS
  <2>1. /\ n + i \in 1 .. m /\ n + i # 1 /\ (n + i) - 1 = n + (i - 1) /\ n + 1 \in 1 .. m /\ n + 1 # 1
        /\ (n + 1) - 1 = n /\ n + 1 <= n + i
        /\ 1 \in 1 .. m - n /\ i # 1 => i - 1 \in 1 .. m - n
    BY <1>2
  <2>2. down[n + 1] = [item |-> to + 1, part |-> 1]
    <3>1. down[n + 1] = Following(down[n])
      BY <1>4, <2>1
    <3>2. ~(down[n].part < PartsOf(down[n].item))
      BY <1>1, <1>5 DEF PartsOf
    <3> QED
      BY <1>5, <3>1, <3>2 DEF Following
  <2>3. down'[i] = down[n + i] /\ down[n + i].item \in k + 1 .. nsent
    BY <1>3, <1>4, <2>1
  <2>4. down[n + i].item >= to + 1
    <3>1. down[n + 1].item <= down[n + i].item
      BY <1>4, <2>1
    <3>2. down[n + 1].item = to + 1 /\ down[n + i].item \in Int
      BY <2>2, <2>3
    <3> QED
      BY <3>1, <3>2
  <2>5. down[n + i].item \in to + 1 .. nsent
    BY <1>2, <1>4, <1>5, <2>3, <2>4
  <2>6. CASE i = 1
    BY <2>2, <2>3, <2>5, <2>6
  <2>7. CASE i # 1
    <3>1. down'[i - 1] = down[n + (i - 1)] /\ down[n + i] = Following(down[(n + i) - 1])
      BY <1>3, <1>4, <2>1, <2>7
    <3> QED
      BY <2>1, <2>3, <2>5, <2>7, <3>1
  <2> QED
    BY <2>6, <2>7
<1>9. \A i, j \in 1 .. m - n : i <= j => down'[i].item <= down'[j].item
  <2>1. \A i \in 1 .. m - n : n + i \in 1 .. m
    BY <1>2
  <2>2. \A i, j \in 1 .. m - n : i <= j => n + i <= n + j
    BY <1>2
  <2> QED
    BY <1>3, <1>4, <2>1, <2>2
<1>10. peer' # "rst" /\ answer' # "none" =>
         IF m - n = 0 THEN to = nsent
         ELSE down'[m - n] = [item |-> nsent, part |-> PartsOf(nsent)]
  <2>1. CASE m - n = 0
    <3>1. m = n
      BY <1>2, <2>1
    <3> QED
      BY <1>1, <1>4, <1>5, <2>1, <3>1
  <2>2. CASE m - n # 0
    <3>1. m - n \in 1 .. m - n /\ n + (m - n) = m
      BY <1>2, <2>2
    <3> QED
      BY <1>1, <1>3, <1>4, <2>2, <3>1
  <2> QED
    BY <2>1, <2>2
<1>11. Line(to)'
  BY <1>1, <1>3, <1>8, <1>9, <1>10 DEF Line
<1> QED
  BY <1>1, <1>3, <1>5, <1>6, <1>7, <1>11 DEF m

LEMMA HandshakeRecvKeeps == ASSUME Order, HandshakeRecv PROVE Order'
<1>1. PICK n \in 1 .. Len(down) : Receives(n)
  BY DEF HandshakeRecv
<1>2. /\ pc = "connect" /\ pc' = "idle" /\ UNCHANGED <<got, peer, answer, nsent>>
      /\ down' = SubSeq(down, n + 1, Len(down)) /\ (torn => torn')
  BY <1>1 DEF HandshakeRecv, Receives
<1>3. OTypes'
  <2>1. n + 1 \in 1 .. Len(down) + 1 /\ Len(down) \in 0 .. Len(down)
    BY Lengths DEF Order
  <2>2. down' \in Seq(Unit)
    BY <1>2, <2>1, Parts DEF Order
  <2> QED
    BY <1>2, <2>2 DEF Order, OTypes
<1>4. ASSUME ~torn', NEW k \in Int, Ordered(k)
      PROVE  \E l \in Int : Ordered(l)'
  <2>0. PICK to \in Int : down[n].item = to
    BY Lengths DEF Order, Unit
  <2>1. /\ Len(down') = Len(down) - n
        /\ to \in k + 1 .. nsent /\ to \in Nat /\ Line(to)'
        /\ ~merged' => ~merged /\ to = k + 1
    BY <1>1, <1>4, <2>0, ReceivesWhole DEF Order
  <2>2. k = -1 /\ answer # "none"
    <3>1. n \in 1 .. Len(down) /\ Len(down) \in Nat
      BY Lengths DEF Order
    <3> QED
      BY <1>2, <1>4, <3>1 DEF Ordered, Stage
  <2>3. Stage(to)'
    BY <1>2, <2>1, <2>2 DEF Stage
  <2>4. Got(to)'
    BY <1>2, <1>4, <2>1, <2>2 DEF Ordered, Got
  <2>5. to \in -1 .. nsent' /\ to \in Int
    BY <1>2, <2>1, <2>2
  <2> QED
    BY <2>1, <2>3, <2>4, <2>5 DEF Ordered
<1> QED
  BY <1>2, <1>3, <1>4 DEF Order

LEMMA RecvMessageKeeps == ASSUME Order, RecvMessage PROVE Order'
<1>1. PICK n \in 1 .. Len(down) : Receives(n) /\ \E f \in Parsed(n) : got' = got \o f
  BY DEF RecvMessage
<1>2. PICK f \in Parsed(n) : got' = got \o f
  BY <1>1
<1>3. /\ pc = "recv" /\ pc' = "idle" /\ UNCHANGED <<peer, answer, nsent>>
      /\ down' = SubSeq(down, n + 1, Len(down)) /\ (torn => torn')
  BY <1>1 DEF RecvMessage, Receives
<1>4. /\ n \in Nat /\ Len(down) \in Nat /\ n >= 1 /\ n <= Len(down) /\ 1 \in 1 .. Len(down)
      /\ down[1] \in Unit
  BY Lengths DEF Order
<1>5. OTypes'
  <2>1. n + 1 \in 1 .. Len(down) + 1 /\ Len(down) \in 0 .. Len(down)
    BY <1>4
  <2>2. down' \in Seq(Unit)
    BY <1>3, <2>1, Parts DEF Order
  <2>3. f \in Seq(Nat)
    <3>1. f = <<>> \/ f = <<0>> \/ f = <<down[1].item>>
      BY <1>2 DEF Parsed, Garbage
    <3>2. down[1].item \in Nat
      BY <1>4 DEF Unit
    <3>3. <<>> \in Seq(Nat) /\ <<0>> \in Seq(Nat)
      OBVIOUS
    <3>4. <<down[1].item>> \in Seq(Nat)
      BY <3>2
    <3> QED
      BY <3>1, <3>3, <3>4
  <2>4. got' \in Seq(Nat)
    BY <1>2, <2>3, ConcatProperties DEF Order, OTypes
  <2> QED
    BY <1>3, <2>2, <2>4 DEF Order, OTypes
<1>6. ASSUME ~torn', NEW k \in Int, Ordered(k)
      PROVE  \E l \in Int : Ordered(l)'
  <2>0. PICK to \in Int : down[n].item = to
    BY Lengths DEF Order, Unit
  <2>1. /\ to \in k + 1 .. nsent /\ to \in Nat /\ Line(to)'
        /\ down[1] = [item |-> k + 1, part |-> 1] /\ down[n].part = PartsOf(to)
        /\ ~merged' => ~merged /\ to = k + 1
    BY <1>1, <1>6, <2>0, ReceivesWhole DEF Order
  <2>2. k \in Nat
    BY <1>3, <1>4, <1>6 DEF Ordered, Stage
  <2>3. answer # "none"
    BY <1>4, <1>6 DEF Ordered, Stage
  <2>4. f = <<k + 1>>
    <3>1. n # 1
      <4>1. PartsOf(to) # 1
        BY DEF PartsOf
      <4> QED
        BY <2>1, <4>1
    <3>2. down[1].part = 1 /\ down[1].item = k + 1 /\ k + 1 # 0 /\ n > 1
      BY <1>4, <2>1, <2>2, <3>1
    <3> QED
      BY <1>2, <3>2 DEF Parsed
  <2>5. /\ got \in Seq(Nat) /\ Len(got) \in Nat /\ k + 1 \in Nat
        /\ \A i \in 1 .. Len(got) : got[i] \in Nat
    BY Lengths, <2>2 DEF Order, OTypes
  <2>6. /\ Len(got') = Len(got) + 1 /\ got'[Len(got) + 1] = k + 1
        /\ \A i \in 1 .. Len(got) : got'[i] = got[i]
    <3>1. got' = Append(got, k + 1)
      BY <1>2, <2>4, <2>5, AppendIsConcat
    <3> QED
      BY <2>5, <3>1, AppendProperties
  <2>7. Stage(to)'
    BY <1>3, <2>1, <2>2, <2>3 DEF Stage
  <2>8. Got(to)'
    <3>1. /\ \A i, j \in 1 .. Len(got) : i < j => got[i] < got[j]
          /\ \A i \in 1 .. Len(got) : got[i] \in 1 .. k
          /\ ~merged => Len(got) = k
      BY <1>6, <2>2 DEF Ordered, Got
    <3>2. \A i \in 1 .. Len(got) + 1 : i \in 1 .. Len(got) \/ i = Len(got) + 1
      BY <2>5
    <3>3. \A i, j \in 1 .. Len(got) + 1 : i < j => i \in 1 .. Len(got)
      BY <2>5
    <3>4. \A i, j \in 1 .. Len(got) + 1 : i < j => got'[i] < got'[j]
      <4> SUFFICES ASSUME NEW i \in 1 .. Len(got) + 1, NEW j \in 1 .. Len(got) + 1, i < j
                   PROVE  got'[i] < got'[j]
        OBVIOUS
      <4>1. i \in 1 .. Len(got) /\ got'[i] = got[i]
        BY <2>6, <3>3
      <4>2. CASE j \in 1 .. Len(got)
        BY <2>6, <3>1, <4>1, <4>2
      <4>3. CASE j = Len(got) + 1
        BY <2>2, <2>6, <3>1, <4>1, <4>3
      <4> QED
        BY <3>2, <4>2, <4>3
    <3>5. \A i \in 1 .. Len(got) + 1 : got'[i] \in 1 .. to
      BY <2>1, <2>2, <2>6, <3>1, <3>2
    <3>6. ~merged' => Len(got) + 1 = to /\ to # -1
      BY <2>1, <2>2, <3>1
    <3> QED
      BY <2>1, <2>6, <3>4, <3>5, <3>6 DEF Got
  <2>9. to \in -1 .. nsent' /\ to \in Int
    BY <1>3, <2>1, <2>2
  <2> QED
    BY <2>1, <2>7, <2>8, <2>9 DEF Ordered
<1> QED
  BY <1>3, <1>5, <1>6 DEF Order

-----------------------------------------------------------------------------
\* For any number of frames, however the network divides them: as long as every
\* recv returns whole things, recv_message() returns the peer's frames in order,
\* each once, and none that was not sent; and it misses none while recv returns
\* one thing at a time.
THEOREM FramesInOrderHolds == Spec => []FramesInOrder
<1>1. Order /\ [Next]_vars => Order'
  <2> SUFFICES ASSUME Order, [Next]_vars PROVE Order'
    OBVIOUS
  <2>1. CASE Answers \/ SendsFrame \/ Leaves \/ Resets
    BY <2>1, AnswersKeeps, SendsFrameKeeps, LeavesKeeps, ResetsKeeps
  <2>2. CASE Refused \/ Asks
    BY <2>2, DialsKeep
  <2>3. CASE HandshakeRecv \/ RecvMessage
    BY <2>3, HandshakeRecvKeeps, RecvMessageKeeps
  <2> QED
    BY <2>1, <2>2, <2>3, StillCases DEF Next, Environment
<1>2. Order => FramesInOrder
  <2> SUFFICES ASSUME OTypes, ~torn, NEW k \in Int, Ordered(k)
               PROVE  /\ \A i, j \in DOMAIN got : i < j => got[i] < got[j]
                      /\ \A i \in DOMAIN got : got[i] \in 1 .. nsent
                      /\ ~merged /\ down = <<>> /\ peer # "rst" => Len(got) = nsent
    BY DEF Order, FramesInOrder
  <2>1. DOMAIN got = 1 .. Len(got) /\ Len(got) \in Nat /\ nsent \in Nat /\ k \in -1 .. nsent
    BY LenProperties DEF OTypes, Ordered
  <2>2. /\ \A i, j \in 1 .. Len(got) : i < j => got[i] < got[j]
        /\ \A i \in 1 .. Len(got) : got[i] \in 1 .. k
        /\ ~merged => Len(got) = IF k = -1 THEN 0 ELSE k
    BY DEF Ordered, Got
  <2>3. \A i \in 1 .. Len(got) : got[i] \in 1 .. nsent
    <3>1. 1 .. k \subseteq 1 .. nsent
      BY <2>1
    <3> QED
      BY <2>2, <3>1
  <2>4. down = <<>> /\ peer # "rst" => IF answer = "none" THEN k = -1 /\ nsent = 0 ELSE k = nsent
    BY DEF Ordered, Line, Stage
  <2>5. ~merged /\ down = <<>> /\ peer # "rst" => Len(got) = nsent
    <3>1. CASE k = -1
      BY <2>1, <2>2, <2>4, <3>1
    <3>2. CASE k # -1
      BY <2>1, <2>2, <2>4, <3>2
    <3> QED
      BY <3>1, <3>2
  <2> QED
    BY <2>1, <2>2, <2>3, <2>5
<1> QED
  BY <1>1, <1>2, InitOrder, PTL DEF Spec

=============================================================================
