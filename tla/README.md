# A verification project for handshake-cpp

TLA+ models of handshake-cpp, a small C++17 WebSocket library: a server that
runs one thread over `select` (`src/server_impl.cpp`), a client class
(`src/webclient.cpp`), a demo client (`src/client.cpp`), the frame codec both
use (`src/frame.cpp`), and the HTTP, SHA-1 and Base64 helpers of the opening
handshake (`include/webserver/`). Paths here are relative to the repository;
`PROJECT.json` maps every definition to the lines it models.

## Inventory

| Component | Its state | Operations | Interacts with |
|---|---|---|---|
| `WebSocketServer` (`server_impl.cpp`, `server.hpp`) | `lfd_`, `fdmax_`, `master_`, `backlog_`, `max_payload_`, the maps `handshaken_`, `frag_buffer_`, `frag_opcode_` by descriptor; in a call the `select` set, the request read so far | setters, `run`, `perform_handshake`, `handle_frame`, `cleanup_client` | the kernel's descriptors, accept queue and sockets; the application through `on_open`, `on_message`, `on_close` and the stop flag; its owner, who may call `run()` again |
| Frame codec (`frame.cpp`, `frame.hpp`) | none | `parse_frame`, `build_frame` and the builders on top of it | called by server and clients on whatever one `recv` returned |
| `WebSocketClient` (`webclient.cpp`) | `sockfd_`, `connected_` | `connect`, sends, `recv_message`, `close` | one blocking socket |
| Demo client (`client.cpp`) | a script | send, one `recv` per reply | the server |
| Handshake helpers (`http.hpp`, `sha1.hpp`, `base64.hpp`, `handshake.cpp`) | none | parse the request, compute the accept value; `handshake.cpp` has a stricter check of the request that nothing calls | `perform_handshake` |
| Server program (`server.cpp`) | none | one call of `run()` with a flag nothing sets and the default limits | its callbacks only print |
| Echo client example (`examples/echo_client.cpp`) | none | constructor, one send, one receive, destructor | `WebSocketClient` |
| `log.cpp` | none | output | |

What is hard in this code, and what makes each part correct:

* **Server.** One thread serves all connections with blocking calls, so one peer
  can stop all. State is keyed by descriptor number, and numbers are handed out
  again the moment they are closed, in the middle of a pass over the set
  `select` reported. TCP cuts and joins frames at will while `handle_frame`
  takes one `recv` for one frame. Sends fail, block or raise SIGPIPE. Correct
  means: the tables agree with the kernel's; nothing of one connection reaches
  another; callbacks come in order, `on_close` once and last; messages are what
  was sent; a stop is honoured; descriptors come back.
* **Codec.** Three forms of length, an optional key, one special case above
  64 KB. Correct means: accepted bytes are an encoding of the frame returned,
  a built frame parses to itself whatever follows, no prefix of it parses, and
  more bytes never change an answer.
* **Client.** Failure paths that leave the socket open, a second `connect()` that
  overwrites an open one, a number that is another's after `close()`, responses
  and frames taken from single `recv`s. Correct means: it writes to, waits on
  and closes its own newest socket only; frames go to a peer that has switched
  protocols; what is received is in order; what leaks is known.
* **Demo.** Client and server block on each other; replies merge, split, or are
  lost to a reset. Correct means: what is printed answers what was sent, and
  both get to their ends.
* **Helpers.** One request can be spelt in many ways and comes in any segments;
  padding and the last group of Base64 have a branch for each remainder. Correct
  means: spelling and segments make no difference, nobody is upgraded that did
  not ask, and the digest's blocks and the Base64 text can be undone.

`PROJECT.json` lists these hazards line by line, with the properties that cover
each or the reason none does.

## Modules

| Module | What it is |
|---|---|
| `Framing` | What crosses a connection and what `parse_frame` makes of it, with bytes abstracted to units that remember connection, item and position |
| `Server` | `WebSocketServer` with the clients, the network and the rest of the process around it |
| `EchoService` | What the server promises, connection by connection: no descriptors, no shared maps, no loop |
| `ServerInvariants` | The invariants that relate the server's tables to the kernel's |
| `ServerProperties` | Refinement of `EchoService`, isolation, progress, and the statements of the documentation the code does not meet |
| `ServerProofs` | TLAPS proofs of the invariants |
| `ServerRefinement` | TLAPS proof that `Server` implements `EchoService`, step by step |
| `ServerDelivery` | TLAPS proof that no byte is delivered twice or out of its place |
| `Restart`, `RestartProofs` | Several calls of `run()` on one object, and proofs for any number of them |
| `EchoSession` | The programs `server.cpp` and `client.cpp` against each other: `Server` with one client that follows a script, and the way back |
| `EchoSessionProofs` | TLAPS proofs that the demo is a run of the server, of what the client prints and of where it can hang |
| `FrameCodec` | `frame.cpp` byte by byte, and what another implementation may send |
| `FrameCodecProperties` | What parser and builders promise, over a buffer that fills in any segments |
| `FrameCodecProofs` | TLAPS proofs of those promises for all frames, keys and bytes: what is parsed can be written again; what is written can be parsed |
| `WebClient`, `WebClientProofs` | `WebSocketClient` among the descriptors of its process, and proofs |
| `Http` | `http.hpp`: lines, fields, headers, token lists |
| `Handshake` | Both `perform_handshake`s, the server's member and the unused one of `handshake.cpp`, side by side on one request |
| `Sha1`, `Base64` | `sha1.hpp` and `base64.hpp` |
| `Upgrade` | Clients that mean something and spell it somehow; what `Handshake`, `Sha1` and `Base64` make of it |
| `UpgradeProofs` | TLAPS proofs that every key is padded for SHA-1 as the standard has it, and that Base64 can be undone |
| `MCServer`, `MCRestart`, `MCSession`, `MCFrameCodec`, `MCUpgrade` | Constant values for TLC |

```
Framing <- Server <- ServerInvariants <- ServerProperties <- EchoSession
                         ^      ^        |    |
                         |      Restart  |    +-- INSTANCE EchoService
                 ServerProofs   ^        |
                         ^      |        |
                         +-- ServerRefinement <- ServerDelivery
                                                 ^
                                                 RestartProofs (EXTENDS Restart too)
                                                 EchoSessionProofs (EXTENDS EchoSession too)
FrameCodec <- FrameCodecProperties <- FrameCodecProofs
WebClient <- WebClientProofs
Http <- Handshake <- Upgrade <- UpgradeProofs
                        +-- EXTENDS Base64, INSTANCE Sha1
```

A definition named `X_Something` and commented *Slip* is a plausible mistake in
`X`; it is used by no specification. It serves to show that a property would
notice the mistake.

### How `Server` corresponds to the code

* The thread's place is `pc`: `"loop"` before `select`, `"scan"` in the pass over
  the descriptors it reported, `"hs"` blocked in the `recv` of
  `perform_handshake`, `"send"` blocked in a `send`. Everything between two
  such places is one step, since nothing else touches the server's members;
  clients, network, application and the stop flag interleave with the steps.
* `Run` is socket, bind and listen with their failures; `Select`, `SelectFails`,
  `Stop` the loop; `Accept` lines 65-74; `HandshakeEof`, `HandshakeRecv`,
  `Opened`, `NotOpened` the handshake; `FrameEof`, `ProtocolError`,
  `PayloadTooBig`, `WholeMessage`, `FirstFragment`, `Continuation`, `Ping`,
  `CloseOrUnknown` the ways through `handle_frame`, up to its `send`;
  `Replied`, `Closed`, `SigPipe` what follows. `CleanupClient` is part of every
  step that ends a connection. The order of a callback and the send behind it is
  kept; what `handle_frame` does to its buffers after a send is done with the
  call of it, as nobody looks at them in between.
* `std::map`s are total functions: `operator[]` creates the default, so an erased
  key and a default value cannot be told apart.
* `owner` is the kernel's descriptor table. `NextFds` gives the lowest free
  number, as POSIX has it; the application opens and closes descriptors of its
  own at any time.
* `inp` is what a `recv` can return now and `todo` what the client has still to
  hand over; `Deliver` moves any number of units, so frames arrive whole, cut
  or joined. `recv` takes at most `RecvMax` (4096) or `HsChunk` (2048).
* `parse_frame` in the middle of a frame reads payload for a header: `HeadersAt`
  lets it find any header there. The request's fields are abstracted to whether
  lines 128-133 accept it; `Handshake` has the fields.
* `cst` is the client's end: `fin` after it shut down, `rst` after a reset, `pipe`
  when the next `send` raises SIGPIPE. `unread` counts replies the client has not
  read; with `SendCap` of them `send` blocks.
* The maximum is an `int` that is compared as a `size_t`, so a negative one is no
  maximum. The setters may be called while `run()` is on another thread, and a
  frame is measured against either value.
* `heard`, `said` and `seen` are history variables; no guard reads them. Of each
  connection, `heard` keeps the frames `handle_frame` has read (past the check of
  the maximum or not) and `said` the callbacks made and the replies written, in
  the order of the code.

### How the others correspond

* **`Restart`** takes `Server`'s steps as they are and adds `Again`: the owner of
  an object whose `run()` has returned calls it once more. `master_` and the maps
  are what the last call left, and the next `Run` sets `lfd_` and `fdmax_`. The
  number of a closed listening socket is still in `master_`; once the
  application has got it, `SelectForeign` and `ServeForeign` treat it as the code
  does, as a client that has not shaken hands. What `recv` returns for it is
  taken to be no upgrade request.
* **`EchoSession`** is `Server` with one client whose sends and `recv`s come from
  `Script`, line by line of `client.cpp`'s `main`. `replies` is
  what the server has written (`CarryReply`, part of each of its steps); the way
  back is two units per reply, and a `recv` of the client takes any number of them. A
  server that closes with bytes unread resets the connection, and the reset may
  overtake replies. `cuts` and `merged` record what TCP did, so that properties
  can say when they hold.
* **`WebClient`** has one action for each way through `connect()`: `NoSocket`,
  `Refused` (also when the peer is gone before the request), `Asks`, then
  `HandshakeRecv` or `HandshakeFails` when its one `recv` returns. `SendFrame` is
  the three senders, `SigPipe` the same call after a reset; `RecvCall`,
  `RecvMessage`, `RecvFails` are `recv_message`; `Close` and `Destroy` share
  `Closing`. Each socket is a connection with a number of its own, so that
  `owner` tells whose a descriptor is. `fate` records what became of each.
* **`Handshake`** follows the loop that reads the request, which both functions
  have, and gives both their answers when it ends. Text is a sequence of
  lexemes: the characters the parser looks for, and one lexeme for each word
  between them; `lc` gives a word's lower case.
* **`Sha1`** keeps `h0` to `h4`, the buffer and the count as the code does;
  **`Base64`** is the loop over groups of three and its two tails.

## Runs

Lengths in `Server` are counted in units: a header is 2, `ParseLimit` (65536 in
the code) is 2 or 3, `RecvMax` is 4. What matters is on which side of each limit a
thing falls, and the inputs have lengths on every side. Deadlock is not checked
where the program may end: `run()` returns, a session ends, an object is
destroyed, a buffer is full, a handshake has its answer.

| Run | Instance | Shows |
|---|---|---|
| `life` | 2 clients, 3 descriptors of which the application may take 1, one frame each or two of one alone (a message, a fragment, a continuation, a close), requests accepted and refused | `TypeOK`, `FdTables`, `ReadSetFresh`, `ThreadState`, `Accounted` in every state; messages, whole and reassembled, meet `DeliveredOnce` and `ImplementsEcho` although numbers are handed from one connection to the other. Two connections and the listener fill the table, so `accept` also fails for want of a descriptor |
| `framing` | 1 client, every opcode, lengths around every limit, 2 frames, maxima by default, negative and between two lengths, requests whole, split, refused, too long | `ImplementsEcho`, `DeliveredOnce`, `InventedRefused` |
| `progress` | 2 patient clients, 3 descriptors, one unread reply blocks | `StopEnds`, `Served`, `Reclaimed` |
| `restart` | 2 calls of `run()`, 2 clients, 3 descriptors of which the application may take 1, a first and a last fragment: of two clients one each, or both of one alone | `Accounted`, `KeptInMaster`, `WatchedUnlessKept`, `OnlyListenersNumbers`; `ImplementsEcho` and `DeliveredOnce` across the calls, also where a later call finishes a message an earlier one began |
| `session` | both programs to their ends, any merging, 4 cuts | `EchoMatches`, `CleanSession`, `HangsOnlyOnFragments`, `EndsOrHangs` |
| `webclient` | 3 connections of one object, 3 descriptors of which the application may take 1, 2 frames each way | `OwnDescriptor`, `FramesOnlyUpgraded`, `OnlyTheseLeak`, `FramesInOrder` |
| `upgrade` | requests in three spellings, with lists, tabs, bare LFs, doubled and lacking fields, in segments of up to 6 lexemes and with room for 55; keys of every length from 0 to 64 | `Understood`, `Padded`, `AcceptMatches`, `Base64Decodes` |
| `codec` | buffers up to 19 bytes that start with any of 36 pairs of fixed bytes, in each form of length, masked and not, with lengths on both sides of 65536; 9 frames with payloads of 0 to 65536 bytes, 18 encodings of another peer, with the code's limits | `Reencodes`, `Settles`, `BuiltIsParsed`, `RepliesAreParsed`, `PeersAreParsed` |

Two connections suffice to have one's descriptor taken by the other, one blocked
behind the other, and one queued while no descriptor is free; the proofs below
cover any number. Symmetry of the two is used where no liveness is checked.
Two frames are the fewest with a message after another, with a message in
fragments, and with something in the middle of one. In `life` and `restart` either
two clients send one frame each or a client sends two while it is the only one there
has been (`SecondFrameAlone` of `MCServer`, the constraint of both, which check safety
only): one connection that finds another's fragments
needs the first, a message in fragments the second, and two clients with two
frames each are beyond TLC's time. The theorems have no such bound. Two calls of `run()` are the fewest in which one inherits. Four
cuts of a session are enough to split several of its frames and replies; the
properties only tell none from some. Three connections of one client
object let one fail, one be let go of and one be closed. Sixty-five lengths of key
are all remainders of SHA-1's 64-byte block, and the 6 lexemes of a segment split
the blank line at each of its places.

`ImplementsEcho` is the refinement: `phase`, `part`, `owed` of a connection are
read off the tables behind its descriptor and off the reply the thread is
blocked on; `heard` and `said` are the same in both. It says that a message delivered is
put together of the fragments heard on that connection, in order, since its
first one; that each frame has the answer it should, 1009 above the limit and
1000 or 1002 as due, one at a time; that `on_open` comes after the 101, a message
before its echo, and `on_close` exactly once and last. `EchoService` hears what
`parse_frame` returned, so it says nothing of frames lost before that.

`DeliveredOnce` needs no abstract specification: bytes delivered were sent on
that connection in a frame, and none is delivered twice. `InventedRefused` is
about the zeros `parse_frame` puts in place of an oversize payload.

`Padded`, `Base64Decodes` and `Reencodes` check algorithms by undoing them, not by
repeating them; `AcceptMatches` compares with the example RFC 6455 and
`tests/test_handshake.cpp` give. `Understood` compares what was meant with what
was answered, and does not look at the text in between.

### Fairness

`PatientSpec` has weak fairness of `ServerStep`, the server's own steps: the
thread is always runnable and `select`, `recv` and `send` return when they can.
`Accept` and the frame steps are taken in the order of the pass, so no
fairness between descriptors is needed. It has also weak fairness of what
patient clients do: send the request they connected for, have the network
deliver it, read replies. The code does not enforce that: without it, under
`ImpatientSpec`, `stop_blocked` shows `StopEnds` violated. `SelectFails`, `Reset`,
`Finish`, the setters and the application are never fair.

`SSpec` has weak fairness of the server's program, of the client's program and of
the network: both processes are scheduled, and what was sent arrives. Nothing is
assumed of how it arrives.

### Disagreements found

| Run | Violated | Documentation |
|---|---|---|
| `fragments_over_limit` | `MessagesWithinLimit`: the maximum is compared with single frames (`server_impl.cpp:162`, `204`) | `README.md:13` |
| `one_recv` | `WithinLimitServed`: a frame in two segments is a protocol error (`server_impl.cpp:154`) | `README.md:12-13` |
| `stop_blocked` | `StopEnds`: half a request keeps `run()` from returning (`server_impl.cpp:123`) | `tests/test_oversize_payload.cpp:73-74` |
| `session_hangs` | `SessionEnds`: `client.cpp` sends two fragments back to back; if one `recv` returns both, the server drops the second and both programs wait for ever (`client.cpp:108`, `server_impl.cpp:154`) | `README.md:11`, `README.md:15` |

Other differences met while modelling, which the models contain and no run of
its own shows:

* A pong is answered with close code 1002 (`server_impl.cpp:241`), though
  `README.md:10` lists pongs among the opcodes supported.
* Above 64 KB `parse_frame` returns zeros for the payload (`frame.cpp:42`). With a
  maximum above 65536, or a negative one, they are delivered as the message;
  `InventedRefused` excepts just that.
* `send_ping` sets `f.mask` (`webclient.cpp:98`) and `build_frame` does not look at
  it: all frames of the client go unmasked, where RFC 6455 wants a key. The
  server does not insist.
* The server's `perform_handshake` asks for GET, HTTP/1.1 and a key and not for
  `Upgrade`, `Connection` or the version, as the unused one of `handshake.cpp` does;
  `README.md:9` says "Complete WebSocket handshake (RFC 6455)". `Upgrade`
  checks each against what it does ask.
* `parse_frame` ignores the three reserved bits of the first byte, which
  `Reencodes` therefore excepts.
* A reply to a peer that has closed and reset raises SIGPIPE and ends the process
  (`SigPipe`), server and client alike.

## Proofs

The proofs hold for every value of the constants that meets the assumptions: any
number of connections, descriptors, calls of `run()`, any limits, any bytes.

**`ServerProofs`** proves `TypeCorrect`, `TablesAgree`, `PassIsFresh` and
`ThreadIsPlaced` (`TypeOK`, `FdTables`, `ReadSetFresh`, `ThreadState`) from
`InvHolds`: their conjunction `Inv` is inductive, while the last three are not by
themselves.

* Accepting a connection keeps `FdTables` because the number it gets is free;
  it keeps `ReadSetFresh` because a free number is not in `master`, hence, by
  `ThreadState`, not in `readfds`.
* The application closes and opens descriptors without looking at the server.
  By `FdTables` none of them is in `master` while the loop runs, and the maps
  hold nothing for a descriptor that is no connection's; so what the
  application gets, and what is accepted under that number after it, starts
  clean.
* `CleanupClient` closes the descriptor whose turn it is. That it is not still to
  be visited, and that it is a connection's and not the listener's, is
  `ThreadState`; that the erases leave nothing behind is `FdTables`.
* What the thread is blocked on is still the connection it was blocked on when
  the call returns, since all others act between, is `ThreadState` again.

`AllAccounted` (`Accounted`) then follows from `Inv` and itself: what `accept`
takes out of the queue is there once and behind no descriptor, what
`CleanupClient` closes is the only descriptor of its connection, and leaving the
loop resets what is queued and nothing else.

The types come first (one lemma `Type...` for each action), then the three others
(`Others...`), which may assume `Inv` before the step and `TypeOK` after it. The
lemmas about steps take as little of `FdTables` as they need, `Attended`, which
survives further calls of `run()` too, so that `RestartProofs` can cite them.

**`ServerRefinement`** proves `EchoImplemented`, that is `ImplementsEcho`: the
initial state is one of the service's, and every step is a step of the service at
one connection, or none.

* The service's variables are functions of the server's: `Phase`, `Part` and `Owed`
  read them off the descriptor behind a connection. `Behind` says there is at most
  one (from `Accounted`), `ViewAt` and `ViewOff` what a connection looks like with
  one and without, `ViewKept` and `Focus` that a step which touches one
  descriptor's entries changes the view of one connection only. This is where
  sharing of the maps and reuse of numbers is dealt with.
* One lemma `...Step` for each action of the service says what has to be shown of
  the views; one lemma `Echo...` for each action of the server shows it.
  `EchoContinuation` has the most cases: a continuation of something, of nothing,
  the last one and not.
* The tables do not say what `send` will be followed by. `Talk` does (`TalkHolds`): a
  connection waiting for its 101 is not upgraded and one waiting for a reply is; a
  close frame ends the connection and no other reply does; nothing has been said to
  a connection not yet accepted. Without it the step after a `send` could be an
  answer the service does not give.

`InventedIsRefused` (`InventedRefused`) follows: `Zero` is no byte that was sent
(`FramingAssumption`), so a payload with it comes from `resize`, is longer than
`ParseLimit`, and is above any maximum up to that.

**`ServerDelivery`** proves `ByteDeliveredOnce` (`DeliveredOnce`), for any number of
frames, however they are cut and joined. That what was delivered is in order and
without repetition is not inductive: it says nothing of what may be
delivered next. `Delivery` (`DeliveryHolds`) follows the bytes on their way:

* The `Flow` of a connection is the part of its request that is being read, what
  its socket holds and what the client has still to hand over. It is in the order
  of sending (`Flows`); `recv` splits it at its front (`FlowRead`, `FrontTaken`),
  sending adds to its end.
* What has been delivered, or waits in `frag_buffer`, comes before everything in
  `Flow` (`SpentFirst`), and no two messages, nor a message and the fragments, have
  a byte in common (`Apart`). A frame read now lies between the two, so it can be
  appended to the fragments or delivered by itself (`FrameConveyed`), and
  what replaces fragments drops them for good.
* That the HTTP request is never delivered needs more: up to the 101 there is
  one request in the flow and nothing else, and its end is the end of the flow
  (`Requesting`, `Answering`, `RequestIsAll`); after it there are frames only
  (`Upgraded`).

TLC checked `Delivery` on the instances of `life` and `framing` before it was proved.

**`RestartProofs`**. `Inv` does not survive a second call: `master_` then holds
numbers that are nobody's or the application's. What does survive is `RInv`. It
weakens the tables to `KeptInMaster` (every open connection is in `master_`, and
the maps hold nothing for others) and says of the rest of `master_` only where it
comes from (`Remembered`: a number in `master_` is a connection's, or a listening
socket has had it). `Placed` has the thread, and that between calls all open
connections are kept ones; from it `WatchedUnlessKept` follows for a call that
has just set `fdmax_`, and is kept up by `Accept`. `Server`'s steps fall into four kinds:
those outside the tables (`Outside`), the application's, those that serve
a connection and those that close one; each kind has one lemma.
`OnlyListenersNumbers` is an action property: a step that closes what is not a
connection's closes what `Remembered` says. Theorems `RInvHolds`,
`KeptInMasterHolds`, `WatchedUnlessKeptHolds`, `OnlyListenersNumbersHolds`.

`RInv` gives `Attended` (with `RSound`, where a process that SIGPIPE has ended stands),
which is all the step lemmas of `ServerProofs`,
`ServerRefinement` and `ServerDelivery` need of the tables. So `Accounted`, `Talk`
and `Delivery` are kept by `Server`'s steps here as well; that calling `run()` again
and serving a descriptor of the application's touch no connection is
`RestartUnseen`. Theorems `AccountedOverRuns`, `EchoOverRuns` and
`DeliveredOnceOverRuns`: what an earlier call left open, half a message included,
is to each connection what it was.

**`EchoSessionProofs`** proves the safety properties of the demo, for frames of any
lengths within the limits, any `RecvMax`, and any way TCP merges what is sent.

* `DemoIsServer` (`SSpec => Spec`): a run of the demo is a run of `Server`, so every
  theorem about `Server` holds in it. The server's environment may send frames only on
  an upgraded connection; that `main()` does so is not plain, since it only looks at
  whether its first `recv` returned something. `Demo` says it (`DemoHolds`): the
  client is past that `recv` only when there has been a reply, and the server writes
  nothing to a connection before the 101 that upgrades it.
* `HangsOnlyOnFragments`, `EchoMatches` and `CleanSession` are not inductive: they say
  nothing of what is on its way. `Lockstep` (`LockstepHolds`) does, for runs in
  which TCP has cut nothing: the server has dealt with the first `h` items the client
  has sent; the rest, one item or none, or both fragments, is `Delivery`'s `Flow`; the
  replies written are those to `h` items, the last of them perhaps still in `send`;
  the first fragment is held just when `h` is four; and the client has read and
  printed what its place in the script says (`Reader`). The one other state is `Stuck`, where
  one `recv` returned both fragments and the second is lost.
* The server's part is about sequences. A `recv` of `handle_frame` that ends with the
  last byte of a frame returned one item, or both fragments (`OneWhole`,
  `TwoWhole`, `WholeFrames`); `parse_frame` makes of it the frame the client sent
  (`FrameAtFront`); and the reply is the one expected for it (`FrameExchange`). In the
  handshake any number of `recv`s may take the request apart, as `Flow` is the same
  before and after each (`RequestRead`, `HandshakeExchange`).
* The client's part is counting: it reads when exactly one reply is missing
  (`ReplyAwaited`), so whatever a `recv` returns that cuts no reply is that reply
  (`OneReply`), and where both wait with everything dealt with it would be there
  to read, so they are `Stuck` (`WaitsStuck`).

TLC checked `Demo` and `Lockstep` on the instance of `session` before they were proved,
and found that `CleanSession` needs nothing about merging: the run that hangs does not end.

**`WebClientProofs`** proves `OwnDescriptorHolds`, `OnlyTheseLeakHolds` and
`FramesOnlyUpgradedHolds` from `IInvHolds`. None of the three is inductive:
`IInv` is `Types`, `Owned` (a connection has at most one descriptor, and has one
just when its fate is not to be closed), `Known` (only the newest connection is
`trying` or `made`, and it is the one behind `sockfd_`) and `Sent` (what went up
the newest connection, in which order). That `close()` closes its own socket is
`Known` before the step; that nothing else leaks is `Owned` after it.

It also proves `FramesInOrderHolds`, for any number of frames however
the network divides them. The invariant is `Order`: as long as no `recv` has
returned part of something there is an item `k` up to which `recv` has come. What
is on its way starts with the first part of item `k + 1`, leaves out nothing, and
ends with the last item sent unless a reset has cut it (`Line`); the response is
read by `connect()` and by nothing else (`Stage`); what `recv_message()` has
returned is increasing, at most `k`, and all of it while nothing came together
(`Got`). A `recv` of `n` units moves `k` to the item of the last of them
(`ReceivesWhole`).

**`FrameCodecProofs`** proves, from `BytesArrive` (what has arrived are bytes),

* `SettlesHolds`: the header's fields are functions of the bytes the checks have
  made sure of, and so is everything read from offset `off` on (`HeaderAgrees`,
  `PartAgrees`, `Settled`);
* `ReencodesHolds`: `htobe64` undoes `be64toh` (`BytesOfValue8`), so length field
  and extended length are what another peer writes for that length
  (`LengthReencoded`); masking twice restores the payload (`MaskedTwice`); and
  the parts of the buffer lie next to one another (`Joined`, `Reencoded`).

Its second half proves the other direction. `Layout` says where header,
extended length, key and body of an encoding stand, `LayoutOf` that they stand
there in every buffer that begins with it; `Value2Restores` and `Value8Restores`
read back the length, so that `HeaderRead` finds each field; then
`EncodingParsed` is the frame itself. `PartUnparsed` needs no look at the bytes:
if a part parsed, by `Settled` the whole would parse to the same frame and end
where the part does, at the latest, by `Reencoded`, while it ends at its own
last byte. `BuiltEncoded` shows that `build_frame` writes the shortest of the
encodings, without a key. Theorems `PeersAreParsedHolds`, `BuiltIsParsedHolds` and
`RepliesAreParsedHolds` hold for all frames of up to 65536 bytes, all forms, all
keys, and whatever bytes follow.

**`UpgradeProofs`** proves of the helpers of the handshake, for all bytes,

* `Base64DecodesHolds`: the letters of `T` differ, so each gives its six bits back
  (`SextetOf`), and four of them the 24 bits they were taken from (`SextetsOfQuad`).
  `WholesAre` and `RestIs` say which group, and which place in it, a byte comes from;
  `GroupDecoded` undoes a group, the last one and its `=` included, and `BytesDecode`
  the whole text;
* `PaddedHolds`: `Holding` relates a hash object to the message it was given, and
  `update()` keeps it: the blocks already compressed are the first 64 bytes of it, the
  next 64, and so on, the buffer is the rest and shorter than a block, and the count is
  its length in bits (`UpdateHolds`). So it does not matter how the message is
  divided. `FinalizeIs` has the two cases of the padding, a rest of up to 55 bytes
  that needs one block more and a longer one that needs two, and `FinalizePads` puts
  blocks and padding together. `FinalizePads` is for every message of fewer than 2^28
  bytes, of which `Padded` names those the handshake hashes.

Assumed of the constants: `FramingAssumption`, `ServerAssumption`,
`RestartAssumption`, `WebClientAssumption`, `SegmentsAssumption` and
`SamplesAssumption` say what kind of value each is; `XorAssumption`, that `xor`
maps bytes to bytes and undoes itself, is all that is used of `^`, and TLC checks
it for Bitwise's operator over all pairs of bytes. `SessionAssumption` says that
the demo's request is acceptable, what opcodes and `fin` bits its six frames have,
that all are within `ParseLimit` and the request within `HsLimit`, and that the
model's bounds leave room for the script: its six replies never fill the client's
receive buffer. `UpgradeAssumption` says that keys are bytes and, with `GUID`, fewer
than 2^28 of them, which the 32 KiB of `rbuf` justify; the count of bits then fits the
four bytes `Bytes8` has for it. `HandshakeAssumption` names what its module takes for
granted; nothing is proved from it.

Only model-checked: what a request means (`Understood`), the compression function of
SHA-1 (`AcceptMatches`), and progress. The first folds over a request's lexemes and the
second over 80 rounds, which would need induction over data, and the prover has none;
`AcceptMatches` is about one key, too. `StopEnds`, `Served`, `Reclaimed` and
`EndsOrHangs` are out of its reach, as liveness under fairness and ENABLED are. What
the demo does once TCP has cut a frame or a reply is seen in the runs only. No module
that is proved about declares a RECURSIVE operator.

## Not modelled

* `install/`: the installed headers of GoogleTest and GoogleMock, third-party code
  that no program of the repository runs. They are about 26,000 of the
  repository's 27,600 lines; its own code, some 1,360 lines with tests and
  examples, is what the modules map.
* `log.cpp`, and what the callbacks of `server.cpp` print.
* A client that sends frames before it has read the 101: `perform_handshake` drops
  what its last `recv` returned behind the blank line (`server_impl.cpp:119-128`).
  RFC 6455 does not allow it, neither client of the repository does it, and `Server`'s
  clients send no frame before they are upgraded.
* In `Restart`, a foreign descriptor that delivers a WebSocket request, or one that
  keeps `recv` waiting.
* Copies of a `WebSocketClient`, which would close one number twice, and a `send` of
  the client that blocks.
* Descriptors of `FD_SETSIZE` and above, for which `FD_SET` writes outside `master_`,
  and a failed allocation (a header may announce up to 2^64 - 1 bytes, and nothing
  catches what `resize` throws then): both are undefined or fatal, and nothing
  in the repository says what should follow.
* SHA-1 of messages of 2^28 bytes and more, whose length in bits is beyond TLC's
  integers.
* The order of `echo_client.cpp`'s four calls; `WebClient` lets them come in any.

## Plan

Done: the server, its abstract specification and invariants, several calls of
`run()`; the codec in both directions; the client class; the demo; the opening
handshake and its helpers; the proofs that the server implements its
specification and delivers each byte once, in one call of `run()` and in many; the
proofs of what the demo prints and where it hangs, and of padding and Base64. Left:

1. **Refused descriptors.** `FD_SETSIZE` as a bound of its own, if the code comes to
   check it.
