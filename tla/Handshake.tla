----------------------------- MODULE Handshake -----------------------------
(***************************************************************************)
(* perform_handshake, twice: the member of WebSocketServer that run()      *)
(* calls, and the function of src/handshake.cpp, which nothing calls and   *)
(* which checks more of the request.  They read the same way, so that one  *)
(* run of their loop is followed here, and the two answers side by side.   *)
(*                                                                         *)
(* Server leaves the request's contents out and has an action for each     *)
(* step of the loop; this module leaves the server's other business out.   *)
(***************************************************************************)
EXTENDS Http, Integers

CONSTANTS
  HsChunk,    \* 2048: the most one recv takes
  HsLimit     \* 32*1024: the size rbuf may reach

ASSUME HandshakeAssumption == HsChunk \in Nat \ {0} /\ HsLimit \in Nat

VARIABLES
  wire,      \* what the client has sent or will send, and recv has not taken
  peer,      \* the client's end
  rbuf,
  answers    \* of the two, once they have returned

hvars == <<wire, peer, rbuf, answers>>

\* What a call returns and what it has sent: nothing, the 400, or the 101 with
\* the accept value of a key.
Answer(ret, sent, key) == [ret |-> ret, sent |-> sent, key |-> key]

Silent == Answer(FALSE, "nothing", <<>>)
None   == [member |-> Silent, standalone |-> Silent]

\* The client is going to send text.
HInit(text) ==
  /\ wire = text /\ peer = "up" /\ rbuf = <<>> /\ answers = <<>>

Waits == answers = <<>>

\* The client shuts down or resets; what has not been read may be lost.
Leaves ==
  /\ Waits /\ peer = "up" /\ peer' = "gone"
  /\ wire' \in {wire, <<>>}
  /\ UNCHANGED <<rbuf, answers>>

\* recv returns 0 or -1.
Gone ==
  /\ Waits /\ wire = <<>> /\ peer = "gone"
  /\ answers' = None
  /\ UNCHANGED <<wire, peer, rbuf>>

\* recv returns what has arrived, and rbuf grows by it.
Receive ==
  /\ Waits
  /\ \E n \in 1 .. (IF Len(wire) < HsChunk THEN Len(wire) ELSE HsChunk) :
       /\ rbuf' = rbuf \o SubSeq(wire, 1, n)
       /\ wire' = SubSeq(wire, n + 1, Len(wire))
  /\ UNCHANGED peer

KeyName == <<"sec-websocket-key">>

Has(r, name) == <<name>> \in DOMAIN r.headers

\* What the member asks of a request.
Upgrades(r) ==
  _lc(r.method) = <<"get">> /\ _lc(r.version) = <<"http/1.1">> /\ KeyName \in DOMAIN r.headers

_is_valid_upgrade(r) ==
  /\ _lc(r.method) = <<"get">> /\ _lc(r.version) = <<"http/1.1">>
  /\ Has(r, "upgrade") /\ _token_has(r.headers[<<"upgrade">>], <<"websocket">>)
  /\ Has(r, "connection") /\ _token_has(r.headers[<<"connection">>], <<"upgrade">>)
  /\ Has(r, "sec-websocket-version")
  /\ _trim(r.headers[<<"sec-websocket-version">>]) = <<"13">>
  /\ KeyName \in DOMAIN r.headers

\* The 101, if send takes it.
Switch(r, sends) ==
  IF sends THEN Answer(TRUE, "101", r.headers[KeyName]) ELSE Silent

\* The member refuses without a word.
Member(reqs, sends) ==
  IF \E r \in reqs : Upgrades(r)
  THEN Switch(CHOOSE r \in reqs : TRUE, sends) ELSE Silent

\* The other answers 400, and does not look whether that is sent.
Standalone(reqs, sends) ==
  IF \E r \in reqs : _is_valid_upgrade(r)
  THEN Switch(CHOOSE r \in reqs : TRUE, sends)
  ELSE Answer(FALSE, IF sends THEN "400" ELSE "nothing", <<>>)

\* The blank line is not there yet.
ReadsOn ==
  /\ Receive
  /\ Len(rbuf') <= HsLimit /\ BlankLines(rbuf') = {}
  /\ UNCHANGED answers

\* The size is looked at before the blank line.
TooLong == Receive /\ Len(rbuf') > HsLimit /\ answers' = None

\* send fails only when the client is gone.
Decides ==
  /\ Receive
  /\ Len(rbuf') <= HsLimit /\ BlankLines(rbuf') # {}
  /\ \E sends \in {TRUE, peer = "up"} :
       LET reqs == parse_http_request(rbuf')
       IN  answers' = [member |-> Member(reqs, sends), standalone |-> Standalone(reqs, sends)]

HNext == Leaves \/ Gone \/ ReadsOn \/ TooLong \/ Decides

=============================================================================
