----------------------------- MODULE MCUpgrade -----------------------------
(* Constant values for model checking Upgrade with TLC.                    *)
EXTENDS Upgrade

\* The first spelling is the one of webclient.cpp and client.cpp.
Spellings ==
  ("get" :> <<"GET", "get", "Get">>) @@
  ("post" :> <<"POST", "post", "Post">>) @@
  ("http/1.1" :> <<"HTTP/1.1", "http/1.1", "Http/1.1">>) @@
  ("http/1.0" :> <<"HTTP/1.0", "http/1.0", "Http/1.0">>) @@
  ("upgrade" :> <<"Upgrade", "upgrade", "UPGRADE">>) @@
  ("websocket" :> <<"websocket", "WebSocket", "WEBSOCKET">>) @@
  ("connection" :> <<"Connection", "connection", "CONNECTION">>) @@
  ("keep-alive" :> <<"keep-alive", "Keep-Alive", "KEEP-ALIVE">>) @@
  ("sec-websocket-key" :>
     <<"Sec-WebSocket-Key", "sec-websocket-key", "SEC-WEBSOCKET-KEY">>) @@
  ("sec-websocket-version" :>
     <<"Sec-WebSocket-Version", "sec-websocket-version", "SEC-WEBSOCKET-VERSION">>)

Spelled == UNION {Range(Spellings[w]) : w \in DOMAIN Spellings}

LowerCase ==
  [x \in Spelled |-> CHOOSE w \in DOMAIN Spellings : x \in Range(Spellings[w])]
    @@ ("KEY" :> "key")

\* "258EAFA5-E914-47DA-95CA-C5AB0DC85B11"
GuidBytes ==
  << 50, 53, 56, 69, 65, 70, 65, 53, 45, 69, 57, 49, 52, 45, 52, 55, 68, 65,
     45, 57, 53, 67, 65, 45, 67, 53, 65, 66, 48, 68, 67, 56, 53, 66, 49, 49 >>

\* "dGhlIHNhbXBsZSBub25jZQ==", which webclient.cpp and client.cpp send, and
\* "s3pPLMBiTxaQ9kYGzzhZRbK+xOo=".
SampleKey ==
  << 100, 71, 104, 108, 73, 72, 78, 104, 98, 88, 66, 115,
     90, 83, 66, 117, 98, 50, 53, 106, 90, 81, 61, 61 >>
SampleAccept ==
  <<"s","3","p","P","L","M","B","i","T","x","a","Q","9","k","Y","G","z","z",
    "h","Z","R","b","K","+","x","O","o","=">>

-----------------------------------------------------------------------------
F(name, list) == [name |-> name, list |-> list]

Upgr == F("upgrade", <<"websocket">>)
Conn == F("connection", <<"upgrade">>)
TheKey == F("sec-websocket-key", <<"KEY">>)
Vers == F("sec-websocket-version", <<"13">>)
Lists == <<F("connection", <<"keep-alive", "upgrade">>), TheKey, Vers,
           F("upgrade", <<"h2c", "websocket">>)>>

Host == <<"Host", ":", SP, "h", ":", "8080">>
Junk == <<"no", SP, "colon", SP, "here">>

\* The request of the two clients of the repository.
Clients ==
  [line |-> <<"get", "/", "http/1.1">>, fields |-> <<Upgr, Conn, TheKey, Vers>>, shown |-> 4,
   nonce |-> SampleKey, letters |-> 1, tight |-> <<>>, blank |-> <<SP>>,
   eol |-> <<CR, LF>>, other |-> <<Host>>, rest |-> <<>>]

Means(line, fields) ==
  [Clients EXCEPT !.line = line, !.fields = fields, !.shown = Len(fields), !.nonce = <<255, 0>>]

FieldSets ==
  { <<Conn, TheKey, Vers>>, <<Upgr, TheKey, Vers>>, <<Upgr, Conn, Vers>>, <<Upgr, Conn, TheKey>>,
    <<TheKey>>, <<>>, <<Vers, TheKey, Conn, Upgr>>, Lists,
    <<F("upgrade", <<"h2c">>), Conn, TheKey, Vers>>,
    <<Upgr, F("connection", <<"keep-alive">>), TheKey, Vers>>,
    <<Upgr, Conn, TheKey, F("sec-websocket-version", <<"8">>)>>,
    <<Upgr, Conn, F("sec-websocket-key", <<>>), Vers>>,
    <<Upgr, Conn, F("sec-websocket-key", <<"OLD">>), Vers, TheKey>>,
    <<Upgr, Conn, TheKey, Vers, F("sec-websocket-version", <<"8">>)>> }

FirstLines ==
  { <<"post", "/", "http/1.1">>, <<"get", "/", "http/1.0">>, <<"get", "/">>,
    <<"get", "/", "http/1.1", "more">>, <<"http/1.1">> }

Meanings ==
  {Means(Clients.line, fields) : fields \in FieldSets}
  \cup {Means(line, Clients.fields) : line \in FirstLines}
  \cup {[Means(Clients.line, Clients.fields) EXCEPT !.shown = n] : n \in 0 .. 3}

\* A few ways to spell each of them, all ways to spell one, and keys of all the
\* lengths between two multiples of a block.
Asks ==
  {[m EXCEPT !.letters = l, !.eol = eol, !.rest = IF l = 1 THEN <<>> ELSE <<"more">>] :
     m \in Meanings \cup {Clients}, l \in {1, 2}, eol \in {<<CR, LF>>, <<LF>>}}
  \cup {[Means(Clients.line, Lists) EXCEPT !.letters = l, !.tight = t, !.blank = b,
                                           !.other = o, !.rest = r] :
          l \in 1 .. 3, t \in {<<>>, <<TAB>>}, b \in {<<>>, <<SP>>, <<SP, TAB>>},
          o \in {<<>>, <<Host, Junk>>}, r \in {<<>>, <<"a", "b", "c", "d">>}}
  \cup {[Clients EXCEPT !.nonce = [i \in 1 .. n |-> (91 * i + 164) % 256]] : n \in 0 .. 64}

=============================================================================
