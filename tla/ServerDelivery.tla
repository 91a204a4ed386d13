---------------------------- MODULE ServerDelivery ----------------------------
(***************************************************************************)
(* The proof that the server delivers no byte twice, none out of its place *)
(* and none that the client did not send.                                  *)
(***************************************************************************)
EXTENDS ServerRefinement

-----------------------------------------------------------------------------
(* Sequences of units in the order they were sent.                         *)

Ordered(s) == \A i, j \in DOMAIN s : i < j => Before(s[i], s[j])

Precede(A, B) == \A a \in A, b \in B : Before(a, b)

LEMMA BeforeIsOrder ==
  /\ \A u, v, w \in Unit : Before(u, v) /\ Before(v, w) => Before(u, w)
  /\ \A u \in Unit : ~Before(u, u)
<1>1. \A u \in Unit : u.item \in Nat /\ u.pos \in Nat
  BY DEF Unit
<1> QED
  BY <1>1 DEF Before

LEMMA OrderedConcat ==
  ASSUME NEW s \in Seq(Unit), NEW t \in Seq(Unit)
  PROVE  Ordered(s \o t) <=> Ordered(s) /\ Ordered(t) /\ Precede(Range(s), Range(t))
<1> PICK m \in Nat, n \in Nat : m = Len(s) /\ n = Len(t)
  BY LenProperties
<1> PICK st : st = s \o t
  OBVIOUS
<1>1. /\ DOMAIN s = 1 .. m /\ DOMAIN t = 1 .. n /\ DOMAIN st = 1 .. m + n
      /\ \A i \in 1 .. m : st[i] = s[i]
      /\ \A i \in 1 .. n : st[m + i] = t[i]
      /\ \A i \in m + 1 .. m + n : i - m \in 1 .. n /\ st[i] = t[i - m]
  BY ConcatProperties, LenProperties
<1>2. ASSUME Ordered(st) PROVE Ordered(s) /\ Ordered(t) /\ Precede(Range(s), Range(t))
  <2>1. \A i, j \in 1 .. m : i < j => Before(s[i], s[j])
    <3> SUFFICES ASSUME NEW i \in 1 .. m, NEW j \in 1 .. m, i < j PROVE Before(s[i], s[j])
      OBVIOUS
    <3>1. i \in DOMAIN st /\ j \in DOMAIN st /\ st[i] = s[i] /\ st[j] = s[j]
      BY <1>1
    <3>2. Before(st[i], st[j])
      BY <1>2, <3>1 DEF Ordered
    <3> QED
      BY <3>1, <3>2 DEF Before
  <2>2. \A i, j \in 1 .. n : i < j => Before(t[i], t[j])
    <3> SUFFICES ASSUME NEW i \in 1 .. n, NEW j \in 1 .. n, i < j PROVE Before(t[i], t[j])
      OBVIOUS
    <3>1. m + i \in DOMAIN st /\ m + j \in DOMAIN st /\ m + i < m + j
      BY <1>1
    <3> QED
      BY <1>1, <1>2, <3>1 DEF Ordered
  <2>3. \A i \in 1 .. m, j \in 1 .. n : Before(s[i], t[j])
    <3> SUFFICES ASSUME NEW i \in 1 .. m, NEW j \in 1 .. n PROVE Before(s[i], t[j])
      OBVIOUS
    <3>1. i \in DOMAIN st /\ m + j \in DOMAIN st /\ i < m + j
      BY <1>1
    <3> QED
      BY <1>1, <1>2, <3>1 DEF Ordered
  <2> QED
    BY <1>1, <2>1, <2>2, <2>3 DEF Ordered, Precede, Range
<1>3. ASSUME Ordered(s), Ordered(t), Precede(Range(s), Range(t)) PROVE Ordered(st)
  <2> SUFFICES ASSUME NEW i \in 1 .. m + n, NEW j \in 1 .. m + n, i < j
               PROVE  Before(st[i], st[j])
    BY <1>1 DEF Ordered
  <2>1. CASE j <= m
    <3>1. i \in DOMAIN s /\ j \in DOMAIN s /\ st[i] = s[i] /\ st[j] = s[j]
      BY <1>1, <2>1
    <3>2. Before(s[i], s[j])
      BY <1>3, <3>1 DEF Ordered
    <3> QED
      BY <3>1, <3>2 DEF Before
  <2>2. CASE i <= m /\ j > m
    <3>1. st[i] \in Range(s) /\ st[j] \in Range(t)
      BY <1>1, <2>2 DEF Range
    <3> QED
      BY <1>3, <3>1 DEF Precede
  <2>3. CASE i > m
    <3>1. /\ i - m \in DOMAIN t /\ j - m \in DOMAIN t /\ i - m < j - m
          /\ st[i] = t[i - m] /\ st[j] = t[j - m]
      BY <1>1, <2>3
    <3>2. Before(t[i - m], t[j - m])
      BY <1>3, <3>1 DEF Ordered
    <3> QED
      BY <3>1, <3>2 DEF Before
  <2> QED
    BY <2>1, <2>2, <2>3
<1> QED
  BY <1>2, <1>3

LEMMA UnitsAssociate == \A s, t, u \in Seq(Unit) : (s \o t) \o u = s \o (t \o u)
<1> SUFFICES ASSUME NEW s \in Seq(Unit), NEW t \in Seq(Unit), NEW u \in Seq(Unit)
             PROVE  (s \o t) \o u = s \o (t \o u)
  OBVIOUS
<1> QED
  BY ConcatAssociative

\* What recv takes and what it leaves are the two ends of what was there.
LEMMA TakeDrop ==
  ASSUME NEW s \in Seq(Unit), NEW n \in Nat
  PROVE  s = Take(s, n) \o Drop(s, n)
<1>1. Len(s) \in Nat
  BY LenProperties
<1>2. CASE Len(s) < n
  <2>1. Take(s, n) = s
    BY <1>2, SubSeqFull DEF Take
  <2>2. Drop(s, n) = <<>>
    BY <1>1, <1>2, SubSeqEmpty DEF Drop
  <2> QED
    BY <2>1, <2>2, ConcatEmptySeq
<1>3. CASE ~(Len(s) < n)
  <2>1. 1 \in 1 .. Len(s) + 1 /\ n \in 1 - 1 .. Len(s) /\ Len(s) \in n .. Len(s)
    BY <1>1, <1>3
  <2>2. SubSeq(s, 1, n) \o SubSeq(s, n + 1, Len(s)) = SubSeq(s, 1, Len(s))
    BY <2>1, ConcatAdjacentSubSeq
  <2> QED
    BY <1>3, <2>2, SubSeqFull DEF Take, Drop
<1> QED
  BY <1>2, <1>3

\* The units of an item are put on the wire in their order.
LEMMA WireOrdered ==
  ASSUME NEW c \in Conns, NEW n \in Nat, NEW kind \in Kinds \cup Requests
  PROVE  /\ Ordered(Wire(c, n, kind))
         /\ \A u \in Range(Wire(c, n, kind)) :
              /\ u.conn = c /\ u.item = n /\ u.kind = kind
              /\ u.pos \in 1 .. HeaderLen + kind.len
<1>1. kind.len \in Nat
  BY FramingAssumption DEF FrameKind, RequestKind
<1>2. \A i \in DOMAIN Wire(c, n, kind) :
        /\ i \in 1 .. HeaderLen + kind.len
        /\ Wire(c, n, kind)[i] = [conn |-> c, item |-> n, pos |-> i, kind |-> kind]
  BY DEF Wire
<1> QED
  BY <1>1, <1>2 DEF Ordered, Range, Before

\* A payload is what stands in the buffer behind the header, or zeros.
LEMMA PayloadInOrder ==
  ASSUME NEW c, NEW buf \in Seq(Unit), Ordered(buf),
         \A u \in Range(buf) : u.conn = c /\ u.item > 0,
         NEW h \in Kinds, Complete(buf, h)
  PROVE  InOrder(c, Payload(buf, h)) /\ Range(Payload(buf, h)) \ {Zero} \subseteq Range(buf)
<1>1. h.len \in Nat /\ ParseLimit \in Nat /\ Len(buf) \in Nat /\ DOMAIN buf = 1 .. Len(buf)
  BY FramingAssumption, LenProperties DEF FrameKind
<1>2. CASE h.len > ParseLimit
  <2>1. \A p \in DOMAIN Payload(buf, h) : Payload(buf, h)[p] = Zero
    BY <1>2 DEF Payload
  <2> QED
    BY <2>1 DEF InOrder, Range
<1>3. CASE ~(h.len > ParseLimit)
  <2>1. Len(buf) >= HeaderLen + h.len
    BY <1>3 DEF Complete
  <2> PICK d : d = Payload(buf, h)
    OBVIOUS
  <2>2. \A i \in HeaderLen + 1 .. HeaderLen + h.len : buf[i] \in Unit
    BY <1>1, <2>1 DEF HeaderLen
  <2>3. /\ DOMAIN d = 1 .. h.len
        /\ \A p \in 1 .. h.len : d[p] = buf[HeaderLen + p] /\ HeaderLen + p \in DOMAIN buf
    <3>1. d = SubSeq(buf, HeaderLen + 1, HeaderLen + h.len)
      BY <1>3 DEF Payload
    <3>2. /\ d \in Seq(Unit) /\ Len(d) = h.len
          /\ \A p \in 1 .. h.len : d[p] = buf[HeaderLen + 1 + p - 1]
      BY <1>1, <2>2, <3>1, SubSeqProperties DEF HeaderLen
    <3>3. \A p \in 1 .. h.len : HeaderLen + 1 + p - 1 = HeaderLen + p /\ HeaderLen + p \in 1 .. Len(buf)
      BY <1>1, <2>1 DEF HeaderLen
    <3> QED
      BY <1>1, <3>2, <3>3, LenProperties
  <2>4. \A p \in 1 .. h.len : d[p] \in Range(buf)
    BY <2>3 DEF Range
  <2>5. \A p, q \in 1 .. h.len : p < q => Before(d[p], d[q])
    <3> SUFFICES ASSUME NEW p \in 1 .. h.len, NEW q \in 1 .. h.len, p < q
                 PROVE  Before(d[p], d[q])
      OBVIOUS
    <3>1. HeaderLen + p < HeaderLen + q
      BY DEF HeaderLen
    <3>2. Before(buf[HeaderLen + p], buf[HeaderLen + q])
      BY <2>3, <3>1 DEF Ordered
    <3> QED
      BY <2>3, <3>2 DEF Before
  <2> QED
    BY <2>3, <2>4, <2>5 DEF InOrder, Range
<1> QED
  BY <1>2, <1>3

\* Data in order stay so when later data are appended.
LEMMA InOrderConcat ==
  ASSUME NEW c, NEW a \in Seq(Byte), NEW b \in Seq(Byte), InOrder(c, a), InOrder(c, b),
         Precede(Range(a) \ {Zero}, Range(b) \ {Zero})
  PROVE  InOrder(c, a \o b)
<1> PICK m \in Nat, n \in Nat : m = Len(a) /\ n = Len(b)
  BY LenProperties
<1> PICK ab : ab = a \o b
  OBVIOUS
<1>1. /\ DOMAIN a = 1 .. m /\ DOMAIN b = 1 .. n /\ DOMAIN ab = 1 .. m + n
      /\ \A p \in 1 .. m : ab[p] = a[p]
      /\ \A p \in m + 1 .. m + n : p - m \in 1 .. n /\ ab[p] = b[p - m]
  BY ConcatProperties, LenProperties
<1> SUFFICES ASSUME NEW p \in 1 .. m + n, ab[p] # Zero
             PROVE  /\ ab[p].conn = c /\ ab[p].item > 0
                    /\ \A q \in 1 .. m + n : p < q /\ ab[q] # Zero => Before(ab[p], ab[q])
  BY <1>1 DEF InOrder
<1>2. CASE p <= m
  <2>1. /\ p \in DOMAIN a /\ ab[p] = a[p] /\ a[p] \in Range(a) \ {Zero}
    <3>1. p \in 1 .. m /\ p \in DOMAIN a /\ ab[p] = a[p]
      BY <1>1, <1>2
    <3> QED
      BY <3>1 DEF Range
  <2>2. /\ ab[p].conn = c /\ ab[p].item > 0
        /\ \A q \in DOMAIN a : p < q /\ a[q] # Zero => Before(ab[p], a[q])
    BY <2>1 DEF InOrder
  <2>3. ASSUME NEW q \in 1 .. m + n, p < q, ab[q] # Zero PROVE Before(ab[p], ab[q])
    <3>1. CASE q <= m
      <4>1. q \in DOMAIN a /\ ab[q] = a[q]
        BY <1>1, <3>1
      <4> QED
        BY <2>2, <2>3, <4>1
    <3>2. CASE q > m
      <4>1. ab[q] \in Range(b) \ {Zero}
        <5>1. q - m \in DOMAIN b /\ ab[q] = b[q - m]
          BY <1>1, <3>2
        <5> QED
          BY <2>3, <5>1 DEF Range
      <4> QED
        BY <2>1, <4>1 DEF Precede
    <3> QED
      BY <3>1, <3>2
  <2> QED
    BY <2>2, <2>3
<1>3. CASE p > m
  <2>1. p - m \in DOMAIN b /\ ab[p] = b[p - m]
    BY <1>1, <1>3
  <2>2. /\ ab[p].conn = c /\ ab[p].item > 0
        /\ \A q \in DOMAIN b : p - m < q /\ b[q] # Zero => Before(ab[p], b[q])
    BY <2>1 DEF InOrder
  <2>3. ASSUME NEW q \in 1 .. m + n, p < q, ab[q] # Zero PROVE Before(ab[p], ab[q])
    <3>1. q - m \in DOMAIN b /\ ab[q] = b[q - m] /\ p - m < q - m
      BY <1>1, <1>3, <2>3
    <3> QED
      BY <2>2, <2>3, <3>1
  <2> QED
    BY <2>2, <2>3
<1> QED
  BY <1>2, <1>3

-----------------------------------------------------------------------------
(* What a connection carries.                                              *)

\* What perform_handshake has read of c's request.
Reading(c) == IF pc = "hs" /\ owner[cur] = c THEN rbuf ELSE <<>>

\* What the server has still to make something of, in the order it was sent.
Flow(c) == Reading(c) \o (inp[c] \o todo[c])

\* What has been delivered, or is held to be.
Spent(c) ==
  UNION ({Range(said[c][i].data) : i \in Messages(c)} \cup {Range(frag_buffer[fd]) : fd \in FdsOf(c)})

Flows(c) == Ordered(Flow(c)) /\ \A u \in Range(Flow(c)) : u.conn = c /\ u.item < sent[c]

\* A byte of a frame of c's, and all that is still to come was sent after it.
Settled(c, u) ==
  /\ u.conn = c /\ 0 < u.item /\ u.item < sent[c]
  /\ \A v \in Range(Flow(c)) : Before(u, v)

SpentFirst(c) == \A u \in Spent(c) \ {Zero} : Settled(c, u)

\* No two of the messages and the fragments held share a byte.
Apart(c) ==
  /\ \A i, j \in Messages(c) :
       IF i = j THEN InOrder(c, said[c][i].data)
       ELSE Range(said[c][i].data) \cap Range(said[c][j].data) \subseteq {Zero}
  /\ \A fd \in FdsOf(c) :
       /\ InOrder(c, frag_buffer[fd])
       /\ \A i \in Messages(c) : Range(frag_buffer[fd]) \cap Range(said[c][i].data) \subseteq {Zero}

\* Until c is upgraded there is nothing on its way but one request.
Requesting(c) ==
  cst[c] # "closed" /\ (\A fd \in FdsOf(c) : ~handshaken[fd]) =>
    /\ sent[c] <= 1
    /\ \A u, v \in Range(Flow(c)) :
         u.item = 0 /\ u.kind = v.kind /\ u.pos <= HeaderLen + u.kind.len

\* From then on there are frames only.
Upgraded(c) ==
  (\E fd \in FdsOf(c) : handshaken[fd]) =>
     sent[c] >= 1 /\ \A u \in Range(Flow(c)) : u.item > 0

Conveyed(c) == Flows(c) /\ SpentFirst(c) /\ Apart(c) /\ Requesting(c) /\ Upgraded(c)

\* The 101 answers all there was.
Answering ==
  pc \in {"send", "dead"} /\ reply.next = "opened" =>
     sent[owner[cur]] >= 1 /\ Flow(owner[cur]) = <<>>

Between == pc # "hs" => rbuf = <<>>

Delivery == Answering /\ Between /\ \A c \in Conns : Conveyed(c)

LEMMA FlowType ==
  ASSUME TypeOK, NEW c \in Conns
  PROVE  /\ inp[c] \in Seq(Unit) /\ todo[c] \in Seq(Unit) /\ Reading(c) \in Seq(Unit)
         /\ inp[c] \o todo[c] \in Seq(Unit) /\ Flow(c) \in Seq(Unit)
         /\ sent[c] \in Nat
<1>1. inp[c] \in Seq(Unit) /\ todo[c] \in Seq(Unit) /\ Reading(c) \in Seq(Unit) /\ sent[c] \in Nat
  BY ServerAssumption DEF TypeOK, SocketTypes, LocalTypes, Reading
<1>2. inp[c] \o todo[c] \in Seq(Unit)
  BY <1>1, ConcatProperties
<1> QED
  BY <1>1, <1>2, ConcatProperties DEF Flow

LEMMA SpentIs ==
  ASSUME NEW c
  PROVE  /\ \A u : u \in Spent(c) <=> \/ \E i \in Messages(c) : u \in Range(said[c][i].data)
                                      \/ \E fd \in FdsOf(c) : u \in Range(frag_buffer[fd])
         /\ \A u : u \in Spent(c)' <=> \/ \E i \in Messages(c)' : u \in Range(said'[c][i].data)
                                       \/ \E fd \in FdsOf(c)' : u \in Range(frag_buffer'[fd])
  BY DEF Spent

LEMMA SpentType ==
  ASSUME TypeOK, NEW c \in Conns
  PROVE  \A u \in Spent(c) \ {Zero} : u \in Unit
<1>1. /\ said[c] \in Seq(Event)
      /\ \A fd \in Fds : frag_buffer[fd] \in Seq(Byte)
  BY DEF TypeOK, MemberTypes, HistoryTypes
<1>2. ASSUME NEW i \in Messages(c) PROVE Range(said[c][i].data) \subseteq Byte
  <2>1. said[c][i] \in Event
    BY <1>1 DEF Messages
  <2>2. said[c][i].data \in Seq(Byte)
    BY <2>1 DEF Event
  <2> QED
    BY <2>2, RangeOfSeq
<1>3. ASSUME NEW fd \in FdsOf(c) PROVE Range(frag_buffer[fd]) \subseteq Byte
  BY <1>1, RangeOfSeq DEF FdsOf
<1> QED
  BY <1>2, <1>3, SpentIs DEF Byte

\* No message more, none changed.
SameMessages(c) ==
  Messages(c)' = Messages(c) /\ \A i \in Messages(c) : said'[c][i].data = said[c][i].data

LEMMA NoMessage ==
  ASSUME NEW c, said[c] \in Seq(Event), NEW evs \in Seq(Event),
         \A i \in DOMAIN evs : evs[i].ev # "message", said'[c] = said[c] \o evs
  PROVE  SameMessages(c)
<1> PICK m \in Nat, n \in Nat : m = Len(said[c]) /\ n = Len(evs)
  BY LenProperties
<1>1. /\ DOMAIN said[c] = 1 .. m /\ DOMAIN evs = 1 .. n /\ DOMAIN said'[c] = 1 .. m + n
      /\ \A i \in 1 .. m : said'[c][i] = said[c][i]
      /\ \A i \in m + 1 .. m + n : i - m \in DOMAIN evs /\ said'[c][i] = evs[i - m]
  BY ConcatProperties, LenProperties
<1>2. \A i \in m + 1 .. m + n : said'[c][i].ev # "message"
  BY <1>1
<1> QED
  BY <1>1, <1>2 DEF SameMessages, Messages

LEMMA OneMessage ==
  ASSUME NEW c, said[c] \in Seq(Event), NEW op \in Opcodes, NEW d \in Seq(Byte),
         said'[c] = said[c] \o <<OnMessage(op, d)>>
  PROVE  \E k : /\ k \notin Messages(c) /\ Messages(c)' = Messages(c) \cup {k}
                /\ said'[c][k].data = d
                /\ \A i \in Messages(c) : said'[c][i].data = said[c][i].data
<1> PICK m \in Nat : m = Len(said[c])
  BY LenProperties
<1> PICK e : e = OnMessage(op, d)
  OBVIOUS
<1>1. e \in Event /\ e.ev = "message" /\ e.data = d
  BY EventTypes DEF OnMessage, Record
<1>2. <<e>> \in Seq(Event) /\ Len(<<e>>) = 1 /\ <<e>>[1] = e
  BY <1>1
<1>3. /\ DOMAIN said[c] = 1 .. m /\ DOMAIN said'[c] = 1 .. m + 1
      /\ \A i \in 1 .. m : said'[c][i] = said[c][i]
      /\ said'[c][m + 1] = e
  <2>1. said'[c] = said[c] \o <<e>>
    OBVIOUS
  <2> QED
    BY <1>2, <2>1, ConcatProperties, LenProperties
<1> WITNESS m + 1
<1> QED
  BY <1>1, <1>3 DEF Messages

LEMMA ApartKept ==
  ASSUME NEW c, Apart(c), SameMessages(c),
         \A fd \in FdsOf(c)' :
           frag_buffer'[fd] = <<>> \/ (fd \in FdsOf(c) /\ frag_buffer'[fd] = frag_buffer[fd])
  PROVE  Apart(c)'
<1>0. Range(<<>>) = {} /\ InOrder(c, <<>>)
  BY DEF Range, InOrder
<1>1. ASSUME NEW i \in Messages(c)', NEW j \in Messages(c)'
      PROVE  IF i = j THEN InOrder(c, said'[c][i].data)
             ELSE Range(said'[c][i].data) \cap Range(said'[c][j].data) \subseteq {Zero}
  BY DEF SameMessages, Apart
<1>2. ASSUME NEW fd \in FdsOf(c)'
      PROVE  /\ InOrder(c, frag_buffer'[fd])
             /\ \A i \in Messages(c)' : Range(frag_buffer'[fd]) \cap Range(said'[c][i].data) \subseteq {Zero}
  BY <1>0 DEF SameMessages, Apart
<1> QED
  BY <1>1, <1>2 DEF Apart

\* A connection whose flow at most loses its front or all, and which is
\* delivered nothing, has its past in order still.
LEMMA PastKept ==
  ASSUME NEW c, Flows(c), SpentFirst(c), Apart(c),
         sent'[c] = sent[c], Ordered(Flow(c)'), Range(Flow(c)') \subseteq Range(Flow(c)),
         SameMessages(c),
         \A fd \in FdsOf(c)' :
           frag_buffer'[fd] = <<>> \/ (fd \in FdsOf(c) /\ frag_buffer'[fd] = frag_buffer[fd])
  PROVE  Flows(c)' /\ SpentFirst(c)' /\ Apart(c)'
<1>0. Range(<<>>) = {} /\ InOrder(c, <<>>)
  BY DEF Range, InOrder
<1>1. Flows(c)'
  BY DEF Flows
<1>2. Spent(c)' \subseteq Spent(c)
  BY <1>0 DEF Spent, SameMessages
<1>3. SpentFirst(c)'
  BY <1>2 DEF SpentFirst, Settled
<1>4. Apart(c)'
  BY ApartKept
<1> QED
  BY <1>1, <1>3, <1>4

\* Nor does its place before or after the upgrade change.
LEMMA Kept ==
  ASSUME NEW c, Conveyed(c),
         sent'[c] = sent[c], Ordered(Flow(c)'), Range(Flow(c)') \subseteq Range(Flow(c)),
         SameMessages(c),
         \A fd \in FdsOf(c)' :
           frag_buffer'[fd] = <<>> \/ (fd \in FdsOf(c) /\ frag_buffer'[fd] = frag_buffer[fd]),
         \A fd \in FdsOf(c)' : handshaken'[fd] => fd \in FdsOf(c) /\ handshaken[fd],
         cst'[c] # "closed" =>
           /\ cst[c] # "closed"
           /\ \A fd \in FdsOf(c) : handshaken[fd] => fd \in FdsOf(c)' /\ handshaken'[fd]
  PROVE  Conveyed(c)'
<1>1. Flows(c)' /\ SpentFirst(c)' /\ Apart(c)'
  BY PastKept DEF Conveyed
<1>2. Requesting(c)'
  BY DEF Conveyed, Requesting
<1>3. Upgraded(c)'
  BY DEF Conveyed, Upgraded
<1> QED
  BY <1>1, <1>2, <1>3 DEF Conveyed

-----------------------------------------------------------------------------
(* A frame takes its payload from the front of the flow.                   *)

\* What becomes of a flow whose front, buf, is taken.
LEMMA FrontTaken ==
  ASSUME TypeOK, NEW c \in Conns, Flows(c), SpentFirst(c),
         NEW buf \in Seq(Unit), NEW rest \in Seq(Unit),
         Flow(c) = buf \o rest, Flow(c)' = rest
  PROVE  /\ Ordered(buf) /\ Ordered(Flow(c)')
         /\ Range(buf) \subseteq Range(Flow(c)) /\ Range(Flow(c)') \subseteq Range(Flow(c))
         /\ Precede(Range(buf), Range(Flow(c)'))
         /\ Precede(Spent(c) \ {Zero}, Range(buf))
<1>1. Ordered(buf) /\ Ordered(rest) /\ Precede(Range(buf), Range(rest))
  BY OrderedConcat DEF Flows
<1>2. Range(Flow(c)) = Range(buf) \cup Range(rest)
  BY RangeConcatenation
<1>3. Precede(Spent(c) \ {Zero}, Range(buf))
  BY <1>2 DEF Precede, SpentFirst, Settled
<1> QED
  BY <1>1, <1>2, <1>3

\* A piece is the payload of the frame at the front, or that behind the
\* fragments held.
IsPiece(p, fd, d) == p = d \/ p = frag_buffer[fd] \o d

\* A piece is in order, shares no byte with what was delivered, and was sent
\* before all that is to come.
LEMMA PieceFits ==
  ASSUME TypeOK, NEW c \in Conns, NEW fd \in Fds, FdsOf(c) = {fd}, Conveyed(c),
         NEW buf \in Seq(Unit), NEW rest \in Seq(Unit),
         Flow(c) = buf \o rest, Flow(c)' = rest, sent'[c] = sent[c],
         \A u \in Range(buf) : u.item > 0,
         NEW h \in Kinds, Complete(buf, h),
         NEW d, d = Payload(buf, h), NEW p, IsPiece(p, fd, d)
  PROVE  /\ p \in Seq(Byte) /\ InOrder(c, p)
         /\ \A u \in Range(p) \ {Zero} : Settled(c, u)'
         /\ \A i \in Messages(c) : Range(p) \cap Range(said[c][i].data) \subseteq {Zero}
         /\ Range(d) \cap Range(frag_buffer[fd]) \subseteq {Zero}
<1>1. /\ Ordered(buf) /\ Range(buf) \subseteq Range(Flow(c))
      /\ Range(Flow(c)') \subseteq Range(Flow(c))
      /\ Precede(Range(buf), Range(Flow(c)')) /\ Precede(Spent(c) \ {Zero}, Range(buf))
  BY FrontTaken DEF Conveyed
<1>2. \A u \in Range(buf) : u \in Unit /\ u.conn = c /\ u.item > 0 /\ u.item < sent[c]
  BY <1>1, RangeOfSeq DEF Conveyed, Flows
<1>3. d \in Seq(Byte) /\ InOrder(c, d) /\ Range(d) \ {Zero} \subseteq Range(buf)
  BY <1>1, <1>2, ParsedType, PayloadInOrder
<1> PICK held \in Seq(Byte) : held = frag_buffer[fd]
  BY DEF TypeOK, MemberTypes
<1>4. /\ InOrder(c, held) /\ Range(held) \subseteq Spent(c)
      /\ \A i \in Messages(c) : /\ Range(held) \cap Range(said[c][i].data) \subseteq {Zero}
                                /\ Range(said[c][i].data) \subseteq Spent(c)
  <2>1. Range(frag_buffer[fd]) \subseteq Spent(c)
    BY SpentIs
  <2>2. \A i \in Messages(c) : Range(said[c][i].data) \subseteq Spent(c)
    BY SpentIs
  <2>3. InOrder(c, frag_buffer[fd])
    BY DEF Conveyed, Apart
  <2>4. \A i \in Messages(c) : Range(frag_buffer[fd]) \cap Range(said[c][i].data) \subseteq {Zero}
    BY DEF Conveyed, Apart
  <2> QED
    BY <2>1, <2>2, <2>3, <2>4
<1>5. Precede(Range(held) \ {Zero}, Range(d) \ {Zero})
  BY <1>1, <1>3, <1>4 DEF Precede
<1>6. Range(d) \cap Spent(c) \subseteq {Zero}
  <2> SUFFICES ASSUME NEW u \in Range(d), u \in Spent(c), u # Zero PROVE FALSE
    OBVIOUS
  <2>1. u \in Range(buf) /\ u \in Unit /\ u \in Spent(c) \ {Zero}
    BY <1>2, <1>3
  <2>2. Before(u, u)
    BY <1>1, <2>1 DEF Precede
  <2> QED
    BY <2>1, <2>2, BeforeIsOrder
<1>7. p \in Seq(Byte) /\ InOrder(c, p) /\ Range(p) \subseteq Range(held) \cup Range(d)
  <2>1. CASE p = d
    BY <1>3, <2>1
  <2>2. CASE p = held \o d
    <3>1. held \o d \in Seq(Byte) /\ InOrder(c, held \o d)
      BY <1>3, <1>4, <1>5, InOrderConcat, ConcatProperties
    <3>2. Range(held \o d) = Range(held) \cup Range(d)
      BY <1>3, RangeConcatenation
    <3> QED
      BY <2>2, <3>1, <3>2
  <2> QED
    BY <2>1, <2>2 DEF IsPiece
<1>8. ASSUME NEW u \in Range(p) \ {Zero} PROVE Settled(c, u)'
  <2>1. CASE u \in Range(held)
    BY <1>1, <1>4, <1>8, <2>1 DEF Conveyed, SpentFirst, Settled
  <2>2. CASE u \in Range(d)
    <3>1. u \in Range(buf) /\ u.conn = c /\ 0 < u.item /\ u.item < sent[c]
      BY <1>2, <1>3, <1>8, <2>2
    <3> QED
      BY <1>1, <3>1 DEF Settled, Precede
  <2> QED
    BY <1>7, <1>8, <2>1, <2>2
<1>9. \A i \in Messages(c) : Range(p) \cap Range(said[c][i].data) \subseteq {Zero}
  BY <1>4, <1>6, <1>7
<1> QED
  BY <1>4, <1>6, <1>7, <1>8, <1>9

\* What a frame may do to c, behind fd: nothing but take its bytes off the flow
\* and drop or keep the fragments, ...
Dropped(c, fd) ==
  SameMessages(c) /\ (frag_buffer'[fd] = frag_buffer[fd] \/ frag_buffer'[fd] = <<>>)

\* ... hold a piece in the place of the fragments, ...
Holding(c, fd, p) == SameMessages(c) /\ frag_buffer'[fd] = p

\* ... or deliver one, and with the fragments in it no longer hold them.
Delivers(c, fd, d, p) ==
  /\ \E op \in Opcodes : said'[c] = said[c] \o <<OnMessage(op, p)>>
  /\ frag_buffer'[fd] = <<>> \/ (frag_buffer'[fd] = frag_buffer[fd] /\ p = d)

LEMMA FrameConveyed ==
  ASSUME TypeOK, NEW c \in Conns, NEW fd \in Fds, FdsOf(c) = {fd}, Conveyed(c),
         NEW buf \in Seq(Unit), NEW rest \in Seq(Unit),
         Flow(c) = buf \o rest, Flow(c)' = rest, sent'[c] = sent[c],
         cst'[c] = cst[c], handshaken[fd], handshaken'[fd], FdsOf(c)' = {fd},
         NEW h \in Kinds,
         \/ Dropped(c, fd)
         \/ /\ Complete(buf, h)
            /\ \E p : /\ IsPiece(p, fd, Payload(buf, h))
                      /\ Holding(c, fd, p) \/ Delivers(c, fd, Payload(buf, h), p)
  PROVE  Conveyed(c)'
<1>1. /\ Ordered(Flow(c)') /\ Range(Flow(c)') \subseteq Range(Flow(c))
      /\ Range(buf) \subseteq Range(Flow(c))
  BY FrontTaken DEF Conveyed
<1>2. CASE Dropped(c, fd)
  BY <1>1, <1>2, Kept DEF Dropped
<1>3. Flows(c)' /\ Requesting(c)' /\ Upgraded(c)'
  BY <1>1 DEF Conveyed, Flows, Requesting, Upgraded
<1>4. ASSUME Complete(buf, h), NEW d, d = Payload(buf, h), NEW p, IsPiece(p, fd, d),
             Holding(c, fd, p) \/ Delivers(c, fd, d, p)
      PROVE  SpentFirst(c)' /\ Apart(c)'
  <2>1. \A u \in Range(buf) : u.item > 0
    BY <1>1 DEF Conveyed, Upgraded
  <2>2. /\ p \in Seq(Byte) /\ InOrder(c, p)
        /\ \A u \in Range(p) \ {Zero} : Settled(c, u)'
        /\ \A i \in Messages(c) : Range(p) \cap Range(said[c][i].data) \subseteq {Zero}
        /\ Range(d) \cap Range(frag_buffer[fd]) \subseteq {Zero}
    BY <1>4, <2>1, PieceFits
  <2>3. \A u \in Spent(c) \ {Zero} : Settled(c, u)'
    BY <1>1 DEF Conveyed, SpentFirst, Settled
  <2>4. Range(<<>>) = {} /\ InOrder(c, <<>>)
    BY DEF Range, InOrder
  <2>5. CASE Holding(c, fd, p)
    <3>1. Spent(c)' \subseteq Spent(c) \cup Range(p)
      BY <2>5, SpentIs DEF Holding, SameMessages
    <3>2. Apart(c)'
      BY <2>2, <2>5 DEF Conveyed, Apart, Holding, SameMessages
    <3> QED
      BY <2>2, <2>3, <3>1, <3>2 DEF SpentFirst
  <2>6. CASE Delivers(c, fd, d, p)
    <3>1. said[c] \in Seq(Event)
      BY DEF TypeOK, HistoryTypes
    <3>2. PICK k : /\ k \notin Messages(c) /\ Messages(c)' = Messages(c) \cup {k}
                   /\ said'[c][k].data = p
                   /\ \A i \in Messages(c) : said'[c][i].data = said[c][i].data
      BY <2>2, <2>6, <3>1, OneMessage DEF Delivers
    <3>3. Spent(c)' \subseteq Spent(c) \cup Range(p)
      BY <2>4, <2>6, <3>2, SpentIs DEF Delivers
    <3>4. ASSUME NEW i \in Messages(c)', NEW j \in Messages(c)'
          PROVE  IF i = j THEN InOrder(c, said'[c][i].data)
                 ELSE Range(said'[c][i].data) \cap Range(said'[c][j].data) \subseteq {Zero}
      BY <2>2, <3>2 DEF Conveyed, Apart
    <3>5. /\ InOrder(c, frag_buffer'[fd])
          /\ \A i \in Messages(c)' : Range(frag_buffer'[fd]) \cap Range(said'[c][i].data) \subseteq {Zero}
      BY <2>2, <2>4, <2>6, <3>2 DEF Conveyed, Apart, Delivers
    <3>6. Apart(c)'
      BY <3>4, <3>5 DEF Apart
    <3> QED
      BY <2>2, <2>3, <3>3, <3>6 DEF SpentFirst
  <2> QED
    BY <1>4, <2>5, <2>6
<1> QED
  BY <1>2, <1>3, <1>4 DEF Conveyed

-----------------------------------------------------------------------------
(* Steps that take nothing from the flow.                                  *)

LEMMA FlowTypes ==
  ASSUME TypeOK, TypeOK', NEW c \in Conns
  PROVE  /\ inp'[c] \in Seq(Unit) /\ todo'[c] \in Seq(Unit) /\ Reading(c)' \in Seq(Unit)
         /\ inp'[c] \o todo'[c] \in Seq(Unit) /\ Flow(c)' \in Seq(Unit)
         /\ pc # "hs" => Flow(c) = inp[c] \o todo[c]
         /\ pc' # "hs" => Flow(c)' = inp'[c] \o todo'[c]
<1>1. /\ inp'[c] \in Seq(Unit) /\ todo'[c] \in Seq(Unit) /\ Reading(c)' \in Seq(Unit)
  BY DEF TypeOK, SocketTypes, LocalTypes, Reading
<1>2. inp'[c] \o todo'[c] \in Seq(Unit)
  BY <1>1, ConcatProperties
<1>3. Flow(c)' \in Seq(Unit)
  BY <1>1, <1>2, ConcatProperties DEF Flow
<1>4. inp[c] \o todo[c] \in Seq(Unit)
  BY FlowType
<1>5. pc # "hs" => Flow(c) = inp[c] \o todo[c]
  BY <1>4, ConcatEmptySeq DEF Flow, Reading
<1>6. pc' # "hs" => Flow(c)' = inp'[c] \o todo'[c]
  BY <1>2, ConcatEmptySeq DEF Flow, Reading
<1> QED
  BY <1>1, <1>2, <1>3, <1>5, <1>6

\* A connection nothing happens to.
LEMMA Untouched ==
  ASSUME NEW c \in Conns, Conveyed(c),
         inp'[c] = inp[c], todo'[c] = todo[c], sent'[c] = sent[c], said'[c] = said[c],
         Reading(c)' = Reading(c), FdsOf(c)' = FdsOf(c),
         \A fd \in FdsOf(c) : frag_buffer'[fd] = frag_buffer[fd] /\ handshaken'[fd] = handshaken[fd],
         cst'[c] = "closed" <=> cst[c] = "closed"
  PROVE  Conveyed(c)' /\ Flow(c)' = Flow(c)
<1>1. Flow(c)' = Flow(c)
  BY DEF Flow
<1>2. SameMessages(c)
  BY DEF SameMessages, Messages
<1>3. Ordered(Flow(c)') /\ Range(Flow(c)') \subseteq Range(Flow(c))
  BY <1>1 DEF Conveyed, Flows
<1>4. Conveyed(c)'
  BY <1>2, <1>3, Kept
<1> QED
  BY <1>1, <1>4

\* What is being read of a request is, where the thread stays.
LEMMA ReadingKept ==
  ASSUME Attended, NEW c \in Conns, FdsOf(c)' = FdsOf(c), UNCHANGED rbuf,
         pc' = "hs" <=> pc = "hs", pc = "hs" => UNCHANGED cur
  PROVE  Reading(c)' = Reading(c)
<1>1. pc = "hs" => cur \in Fds
  BY DEF Attended
<1> QED
  BY <1>1 DEF Reading, FdsOf

\* The 101 still answers all there was.
LEMMA AnsweringKept ==
  ASSUME Attended, Answering,
         pc' \in {"send", "dead"} => pc \in {"send", "dead"} /\ UNCHANGED <<cur, reply>>,
         NEW c, pc \in {"send", "dead"} => c = owner[cur] /\ c = owner'[cur],
         sent'[c] = sent[c], Flow(c) = <<>> => Flow(c)' = <<>>
  PROVE  Answering'
  BY DEF Answering

\* Steps of others than the server's thread, and those in which it only moves.
LEMMA IdleDelivery ==
  ASSUME Sound, Delivery,
         UNCHANGED <<inp, todo, sent, said, frag_buffer, handshaken, rbuf>>,
         \A c \in Conns : FdsOf(c)' = FdsOf(c) /\ (cst'[c] = "closed" <=> cst[c] = "closed"),
         pc' = "hs" <=> pc = "hs", pc = "hs" => UNCHANGED cur,
         pc' \in {"send", "dead"} => pc \in {"send", "dead"} /\ UNCHANGED <<cur, reply>>
  PROVE  Delivery'
<1>1. ASSUME NEW c \in Conns PROVE Conveyed(c)' /\ Flow(c)' = Flow(c)
  <2>1. Reading(c)' = Reading(c)
    BY ReadingKept DEF Sound
  <2> QED
    BY <2>1, Untouched DEF Delivery
<1>2. Between'
  BY DEF Delivery, Between
<1>3. Answering'
  <2> SUFFICES ASSUME pc' \in {"send", "dead"} PROVE Answering'
    BY DEF Answering
  <2>1. /\ pc \in {"send", "dead"} /\ UNCHANGED <<cur, reply>>
        /\ cur \in Fds /\ owner[cur] \in Conns
    BY DEF Sound, Attended
  <2>2. owner'[cur] = owner[cur]
    BY <2>1 DEF FdsOf
  <2> QED
    BY <1>1, <2>1, <2>2, AnsweringKept DEF Sound, Delivery
<1> QED
  BY <1>1, <1>2, <1>3 DEF Delivery

\* Of two stretches of a flow, parts of each are in order too.
LEMMA PartsOrdered ==
  ASSUME NEW s \in Seq(Unit), NEW t \in Seq(Unit), NEW u \in Seq(Unit), NEW v \in Seq(Unit),
         Ordered(s \o t), u = s \/ u = <<>>, Ordered(v), Range(v) \subseteq Range(t)
  PROVE  Ordered(u \o v) /\ Range(u \o v) \subseteq Range(s \o t)
<1>1. /\ Ordered(s) /\ Ordered(t) /\ Precede(Range(s), Range(t))
      /\ Range(s \o t) = Range(s) \cup Range(t) /\ Range(u \o v) = Range(u) \cup Range(v)
  BY OrderedConcat, RangeConcatenation
<1>2. Ordered(<<>>) /\ Range(<<>>) = {}
  BY DEF Ordered, Range
<1>3. Ordered(u) /\ Range(u) \subseteq Range(s)
  BY <1>1, <1>2
<1>4. Precede(Range(u), Range(v))
  BY <1>1, <1>3 DEF Precede
<1> QED
  BY <1>1, <1>3, <1>4, OrderedConcat

\* A flow of which whole stretches are thrown away.
LEMMA FlowLost ==
  ASSUME TypeOK, TypeOK', NEW c \in Conns, Flows(c),
         Reading(c)' \in {Reading(c), <<>>}, inp'[c] \in {inp[c], <<>>}, todo'[c] \in {todo[c], <<>>}
  PROVE  /\ Ordered(Flow(c)') /\ Range(Flow(c)') \subseteq Range(Flow(c))
         /\ Flow(c) = <<>> => Flow(c)' = <<>>
<1>1. /\ inp[c] \in Seq(Unit) /\ todo[c] \in Seq(Unit) /\ Reading(c) \in Seq(Unit)
      /\ inp[c] \o todo[c] \in Seq(Unit)
      /\ inp'[c] \in Seq(Unit) /\ todo'[c] \in Seq(Unit) /\ Reading(c)' \in Seq(Unit)
      /\ inp'[c] \o todo'[c] \in Seq(Unit)
  BY FlowType, FlowTypes
<1>2. Ordered(<<>>) /\ Range(<<>>) = {}
  BY DEF Ordered, Range
<1>3. PICK q \in Seq(Unit), t \in Seq(Unit), r \in Seq(Unit), v \in Seq(Unit) :
        /\ q = Reading(c) /\ t = inp[c] \o todo[c] /\ Flow(c) = q \o t
        /\ r = Reading(c)' /\ v = inp'[c] \o todo'[c] /\ Flow(c)' = r \o v
  BY <1>1 DEF Flow
<1>4. Ordered(q \o t) /\ (r = q \/ r = <<>>)
  BY <1>3 DEF Flows
<1>5. Ordered(v) /\ Range(v) \subseteq Range(t)
  <2>1. Ordered(inp[c] \o todo[c])
    BY <1>3, <1>4, OrderedConcat
  <2>2. Ordered(todo[c])
    BY <1>1, <2>1, OrderedConcat
  <2>3. Ordered(todo'[c]) /\ Range(todo'[c]) \subseteq Range(todo[c])
    BY <1>2, <2>2
  <2> QED
    BY <1>1, <1>3, <2>1, <2>3, PartsOrdered
<1>6. Ordered(Flow(c)') /\ Range(Flow(c)') \subseteq Range(Flow(c))
  <2>1. Ordered(r \o v) /\ Range(r \o v) \subseteq Range(q \o t)
    BY <1>4, <1>5, PartsOrdered
  <2> QED
    BY <1>3, <2>1
<1>7. ASSUME Flow(c) = <<>> PROVE Flow(c)' = <<>>
  <2>1. Reading(c) = <<>> /\ inp[c] = <<>> /\ todo[c] = <<>>
    BY <1>1, <1>7, ConcatEqualIffEmpty DEF Flow
  <2> QED
    BY <1>1, <2>1, ConcatEqualIffEmpty DEF Flow
<1> QED
  BY <1>6, <1>7

-----------------------------------------------------------------------------
(* The clients, the application and the thread between two calls.          *)

LEMMA DeliveryApplication ==
  ASSUME Sound, Delivery, Application \/ Run \/ \E others : SelectAlso(others)
  PROVE  Delivery'
<1>0. /\ owner \in [Fds -> Conns \cup {Free, App, Listener}]
      /\ {Free, App, Listener} \cap Conns = {}
  BY ServerAssumption DEF Sound, Attended, TypeOK, SocketTypes
<1>1. /\ UNCHANGED <<inp, todo, sent, said, frag_buffer, handshaken, rbuf, cst, cur, reply>>
      /\ UNCHANGED pc \/ (pc \notin {"hs", "send", "dead"} /\ pc' \notin {"hs", "send", "dead"})
  BY DEF Application, SetBacklog, SetMaxPayload, SetStop, AppOpen, AppClose, Run, SelectAlso,
         sockets, maps, locals, history
<1>2. \/ UNCHANGED owner
      \/ \E fd \in Fds, o \in {Free, App, Listener} :
           owner[fd] \in {Free, App} /\ owner' = [owner EXCEPT ![fd] = o]
  BY DEF Application, SetBacklog, SetMaxPayload, SetStop, AppOpen, AppClose, Run, SelectAlso,
         sockets, NextFds, FreeFds
<1>3. \A c \in Conns : FdsOf(c)' = FdsOf(c)
  BY <1>0, <1>2, FdsOfKept DEF FdsOf
<1> QED
  BY <1>1, <1>3, IdleDelivery

\* The client's next item comes after all it sent before; before its request
\* there was nothing.
LEMMA DeliverySendItem ==
  ASSUME Sound, Delivery, TypeOK', NEW c \in Conns,
         NEW kind \in Kinds \cup Requests, SendItem(c, kind),
         \/ sent[c] = 0
         \/ \E fd \in FdsOf(c) : handshaken[fd]
  PROVE  Delivery'
<1>0. TypeOK
  BY DEF Sound, Attended
<1>1. /\ UNCHANGED <<owner, cst, inp, said, frag_buffer, handshaken, pc, cur, rbuf, reply>>
      /\ todo[c] = <<>> /\ todo'[c] = Wire(c, sent[c], kind) /\ sent'[c] = sent[c] + 1
      /\ \A d \in Conns \ {c} : todo'[d] = todo[d] /\ sent'[d] = sent[d]
  BY <1>0 DEF SendItem, maps, locals, history, TypeOK, SocketTypes
<1>2. \A d \in Conns : Reading(d)' = Reading(d) /\ FdsOf(d)' = FdsOf(d)
  BY <1>1 DEF Reading, FdsOf
<1>3. \A d \in Conns \ {c} : Conveyed(d)' /\ Flow(d)' = Flow(d)
  BY <1>1, <1>2, Untouched DEF Delivery
<1>4. PICK s \in Seq(Unit), w \in Seq(Unit) :
        s = Flow(c) /\ w = Wire(c, sent[c], kind) /\ Flow(c)' = s \o w
  <2>1. /\ Reading(c) \in Seq(Unit) /\ inp[c] \in Seq(Unit) /\ todo'[c] \in Seq(Unit)
        /\ inp[c] \o <<>> = inp[c]
    BY <1>0, FlowType, FlowTypes, ConcatEmptySeq
  <2>2. PICK q \in Seq(Unit), i \in Seq(Unit), w \in Seq(Unit) :
          /\ w = Wire(c, sent[c], kind) /\ q \o i = Flow(c) /\ Flow(c)' = q \o (i \o w)
    BY <1>1, <1>2, <2>1 DEF Flow
  <2>3. q \o (i \o w) = (q \o i) \o w /\ q \o i \in Seq(Unit)
    BY UnitsAssociate, ConcatProperties
  <2> QED
    BY <2>2, <2>3
<1>5. /\ sent[c] \in Nat /\ Ordered(s) /\ \A u \in Range(s) : u.conn = c /\ u.item < sent[c]
      /\ \A u \in Range(s) : u \in Unit /\ u.item \in Nat
  <2>1. sent[c] \in Nat /\ Flows(c)
    BY <1>0, FlowType DEF Delivery, Conveyed
  <2>2. \A u \in Range(s) : u \in Unit
    BY RangeOfSeq
  <2> QED
    BY <1>4, <2>1, <2>2 DEF Flows, Unit
<1>6. /\ Ordered(w)
      /\ \A u \in Range(w) : /\ u.conn = c /\ u.item = sent[c] /\ u.kind = kind
                             /\ u.pos \in 1 .. HeaderLen + kind.len
  BY <1>4, <1>5, WireOrdered
<1>7. Range(Flow(c)') = Range(s) \cup Range(w) /\ Precede(Range(s), Range(w))
  BY <1>4, <1>5, <1>6, RangeConcatenation DEF Precede, Before
<1>8. Flows(c)'
  <2>1. Ordered(Flow(c)')
    BY <1>4, <1>5, <1>6, <1>7, OrderedConcat
  <2> QED
    BY <1>1, <1>5, <1>6, <1>7, <2>1 DEF Flows
<1>9. SpentFirst(c)'
  <2>1. Spent(c)' = Spent(c)
    BY <1>1, <1>2 DEF Spent, Messages
  <2> SUFFICES ASSUME NEW u \in Spent(c) \ {Zero} PROVE Settled(c, u)'
    BY <2>1 DEF SpentFirst
  <2>2. Settled(c, u)
    BY DEF Delivery, Conveyed, SpentFirst
  <2>3. \A v \in Range(Flow(c)') : Before(u, v)
    BY <1>4, <1>6, <1>7, <2>2 DEF Settled, Before
  <2>4. u.item < sent'[c]
    <3>1. u.item \in Nat /\ u.item < sent[c]
      BY <1>0, <2>2, SpentType DEF Settled, Unit
    <3> QED
      BY <1>1, <1>5, <3>1
  <2> QED
    BY <2>2, <2>3, <2>4 DEF Settled
<1>10. Apart(c)'
  <2>1. SameMessages(c) /\ FdsOf(c)' = FdsOf(c) /\ Apart(c)
    BY <1>1, <1>2 DEF Delivery, Conveyed, SameMessages, Messages
  <2> QED
    BY <1>1, <2>1, ApartKept
<1>11. Requesting(c)' /\ Upgraded(c)'
  <2>1. CASE \E fd \in FdsOf(c) : handshaken[fd]
    BY <1>1, <1>2, <1>4, <1>5, <1>6, <1>7, <2>1 DEF Delivery, Conveyed, Requesting, Upgraded
  <2>2. CASE (\A fd \in FdsOf(c) : ~handshaken[fd]) /\ sent[c] = 0
    <3>1. Range(s) = {}
      BY <1>5, <2>2
    <3>2. \A u \in Range(Flow(c)') : u.item = 0 /\ u.kind = kind /\ u.pos <= HeaderLen + kind.len
      BY <1>6, <1>7, <2>2, <3>1
    <3> QED
      BY <1>1, <1>2, <2>2, <3>2 DEF Requesting, Upgraded
  <2> QED
    BY <2>1, <2>2
<1>12. Answering'
  <2> SUFFICES ASSUME pc \in {"send", "dead"}, reply.next = "opened"
               PROVE  sent'[owner[cur]] >= 1 /\ Flow(owner[cur])' = <<>>
    BY <1>1 DEF Answering
  <2>1. /\ sent[owner[cur]] >= 1 /\ Flow(owner[cur]) = <<>>
        /\ cur \in Fds /\ owner[cur] \in Conns /\ ~handshaken[cur]
    BY DEF Delivery, Answering, Sound, Attended, Talk
  <2>2. FdsOf(owner[cur]) = {cur}
    BY <2>1, Behind DEF Sound
  <2>3. owner[cur] # c
    BY <2>1, <2>2
  <2> QED
    BY <1>1, <1>3, <2>1, <2>3
<1> QED
  BY <1>1, <1>3, <1>8, <1>9, <1>10, <1>11, <1>12 DEF Delivery, Between, Conveyed

\* Steps that move or lose the flow of one connection.
LEMMA FlowMoved ==
  ASSUME Sound, Delivery, NEW c \in Conns,
         UNCHANGED <<owner, sent, said, frag_buffer, handshaken, pc, cur, rbuf, reply>>,
         \A d \in Conns : cst'[d] = "closed" <=> cst[d] = "closed",
         \A d \in Conns \ {c} : inp'[d] = inp[d] /\ todo'[d] = todo[d],
         Ordered(Flow(c)'), Range(Flow(c)') \subseteq Range(Flow(c)),
         Flow(c) = <<>> => Flow(c)' = <<>>
  PROVE  Delivery'
<1>1. \A d \in Conns : Reading(d)' = Reading(d) /\ FdsOf(d)' = FdsOf(d) /\ SameMessages(d)
  BY DEF Reading, FdsOf, SameMessages, Messages
<1>2. \A d \in Conns \ {c} : Conveyed(d)' /\ Flow(d)' = Flow(d)
  BY <1>1, Untouched DEF Delivery
<1>3. Conveyed(c)'
  BY <1>1, Kept DEF Delivery
<1>4. Answering'
  <2>1. pc \in {"send", "dead"} => owner[cur] \in Conns
    BY DEF Sound, Attended
  <2> QED
    BY <1>2, <2>1 DEF Delivery, Answering
<1> QED
  BY <1>2, <1>3, <1>4 DEF Delivery, Between

\* The network moves bytes towards the server and changes nothing of what is
\* on its way.
LEMMA FlowDelivered ==
  ASSUME TypeOK, NEW c \in Conns, Deliver(c)
  PROVE  Flow(c)' = Flow(c)
<1>1. inp'[c] \o todo'[c] = inp[c] \o todo[c]
  <2>1. PICK n \in Nat : /\ inp'[c] = inp[c] \o Take(todo[c], n)
                         /\ todo'[c] = Drop(todo[c], n)
    <3>1. /\ inp \in [Conns -> Seq(Unit)] /\ todo \in [Conns -> Seq(Unit)]
          /\ \A n \in 1 .. Len(todo[c]) : n \in Nat
      BY DEF TypeOK, SocketTypes
    <3> QED
      BY <3>1 DEF Deliver
  <2>2. PICK i \in Seq(Unit), t \in Seq(Unit), a \in Seq(Unit), b \in Seq(Unit) :
          /\ i = inp[c] /\ t = todo[c] /\ a = Take(t, n) /\ b = Drop(t, n) /\ t = a \o b
    <3>1. inp[c] \in Seq(Unit) /\ todo[c] \in Seq(Unit)
      BY FlowType
    <3>2. Take(todo[c], n) \in Seq(Unit) /\ Drop(todo[c], n) \in Seq(Unit)
      BY <3>1, TakeDropType
    <3>3. todo[c] = Take(todo[c], n) \o Drop(todo[c], n)
      BY <3>1, TakeDrop
    <3> QED
      BY <3>1, <3>2, <3>3
  <2>3. (i \o a) \o b = i \o (a \o b)
    BY UnitsAssociate
  <2> QED
    BY <2>1, <2>2, <2>3
<1>2. UNCHANGED <<owner, pc, cur, rbuf>>
  BY DEF Deliver, locals
<1> QED
  BY <1>1, <1>2 DEF Flow, Reading

LEMMA DeliveryDeliver ==
  ASSUME Sound, Delivery, TypeOK', NEW c \in Conns, Deliver(c)
  PROVE  Delivery'
<1>0. TypeOK
  BY DEF Sound, Attended
<1>1. /\ UNCHANGED <<owner, cst, sent, said, frag_buffer, handshaken, pc, cur, rbuf, reply>>
      /\ \A d \in Conns \ {c} : inp'[d] = inp[d] /\ todo'[d] = todo[d]
  BY <1>0 DEF Deliver, maps, locals, history, TypeOK, SocketTypes
<1>2. Flow(c)' = Flow(c)
  BY <1>0, FlowDelivered
<1>3. Ordered(Flow(c)')
  BY <1>2 DEF Delivery, Conveyed, Flows
<1> QED
  BY <1>1, <1>2, <1>3, FlowMoved

\* A reset loses what has not arrived, and perhaps what has.
LEMMA DeliveryReset ==
  ASSUME Sound, Delivery, TypeOK', NEW c \in Conns, Reset(c)
  PROVE  Delivery'
<1>0. TypeOK
  BY DEF Sound, Attended
<1>1. /\ UNCHANGED <<owner, sent, said, frag_buffer, handshaken, pc, cur, rbuf, reply>>
      /\ \A d \in Conns : cst'[d] = "closed" <=> cst[d] = "closed"
      /\ \A d \in Conns \ {c} : inp'[d] = inp[d] /\ todo'[d] = todo[d]
      /\ inp'[c] \in {inp[c], <<>>} /\ todo'[c] = <<>>
  BY <1>0 DEF Reset, maps, locals, history, TypeOK, SocketTypes
<1>2. Reading(c)' = Reading(c)
  BY <1>1 DEF Reading
<1>3. /\ Ordered(Flow(c)') /\ Range(Flow(c)') \subseteq Range(Flow(c))
      /\ Flow(c) = <<>> => Flow(c)' = <<>>
  BY <1>0, <1>1, <1>2, FlowLost DEF Delivery, Conveyed
<1> QED
  BY <1>1, <1>3, FlowMoved

LEMMA DeliveryClient ==
  ASSUME Sound, Delivery, TypeOK', NEW c \in Conns, Client(c)
  PROVE  Delivery'
<1>1. CASE Connect(c) \/ Read(c) \/ Finish(c)
  <2>1. /\ UNCHANGED <<owner, inp, todo, sent, said, frag_buffer, handshaken, pc, cur, rbuf, reply>>
        /\ \A d \in Conns : cst'[d] = "closed" <=> cst[d] = "closed"
    <3>1. cst \in [Conns -> {"new", "up", "fin", "rst", "pipe", "closed"}]
      BY DEF Sound, Attended, TypeOK, SocketTypes
    <3> QED
      BY <1>1, <3>1 DEF Connect, Read, Finish, maps, locals, history
  <2> QED
    BY <2>1, IdleDelivery DEF FdsOf
<1>2. CASE SendRequest(c) \/ SendFrame(c)
  <2>1. PICK kind \in Kinds \cup Requests : SendItem(c, kind)
    BY <1>2 DEF SendRequest, SendFrame
  <2>2. sent[c] = 0 \/ \E fd \in FdsOf(c) : handshaken[fd]
    BY <1>2 DEF SendRequest, SendFrame, FdsOf
  <2> QED
    BY <2>1, <2>2, DeliverySendItem
<1>3. CASE Deliver(c)
  BY <1>3, DeliveryDeliver
<1>4. CASE Reset(c)
  BY <1>4, DeliveryReset
<1> QED
  BY <1>1, <1>2, <1>3, <1>4 DEF Client

LEMMA DeliveryLeave ==
  ASSUME Sound, Delivery, TypeOK', Leave
  PROVE  Delivery'
<1>0. TypeOK
  BY DEF Sound, Attended
<1>1. /\ UNCHANGED <<sent, said, frag_buffer, handshaken, rbuf>>
      /\ pc = "loop" /\ pc' = "stopped"
      /\ \A c \in Conns : /\ inp'[c] \in {inp[c], <<>>} /\ todo'[c] \in {todo[c], <<>>}
                          /\ cst'[c] # "closed" => cst[c] # "closed"
  BY DEF Leave, maps, history
<1>2. \A c \in Conns : FdsOf(c)' = FdsOf(c)
  <2>1. /\ owner \in [Fds -> Conns \cup {Free, App, Listener}]
        /\ {Free, Listener} \cap Conns = {} /\ lfd \in Fds /\ owner[lfd] = Listener
        /\ owner' = [owner EXCEPT ![lfd] = Free]
    BY <1>1, ServerAssumption DEF Sound, Attended, TypeOK, SocketTypes, Running, Leave
  <2> QED
    BY <2>1, FdsOfKept
<1>3. ASSUME NEW c \in Conns PROVE Conveyed(c)'
  <2>1. Reading(c)' = <<>> /\ SameMessages(c)
    BY <1>1 DEF Reading, SameMessages, Messages
  <2>2. Ordered(Flow(c)') /\ Range(Flow(c)') \subseteq Range(Flow(c))
    BY <1>0, <1>1, <2>1, FlowLost DEF Delivery, Conveyed
  <2> QED
    BY <1>1, <1>2, <2>1, <2>2, Kept DEF Delivery
<1> QED
  BY <1>1, <1>3 DEF Delivery, Answering, Between

\* A descriptor has nothing in the maps when a connection is given it.
LEMMA DeliveryAccept ==
  ASSUME Sound, Delivery, Accept
  PROVE  Delivery'
<1>1. /\ UNCHANGED <<cst, inp, todo, sent, said, frag_buffer, rbuf>>
      /\ pc = "scan" /\ pc' \in {"loop", "scan"}
  BY DEF Accept, Visit, Resume, history
<1>2. \A c \in Conns : Reading(c) = <<>> /\ Reading(c)' = <<>> /\ SameMessages(c) /\ Flow(c)' = Flow(c)
  BY <1>1 DEF Reading, SameMessages, Messages, Flow
<1>3. \/ UNCHANGED <<owner, handshaken>>
      \/ \E cfd \in Fds : /\ owner[cfd] = Free
                          /\ owner' = [owner EXCEPT ![cfd] = Head(acceptq)]
                          /\ handshaken' = [handshaken EXCEPT ![cfd] = FALSE]
  BY DEF Accept, NextFds, FreeFds
<1>4. /\ \A fd \in Fds : handshaken'[fd] => handshaken[fd]
      /\ \A fd \in Fds : owner[fd] \in Conns => owner'[fd] = owner[fd] /\ handshaken'[fd] = handshaken[fd]
      /\ \A fd \in Fds : owner'[fd] # owner[fd] => frag_buffer[fd] = <<>> /\ ~handshaken[fd]
  <2>1. /\ owner \in [Fds -> Conns \cup {Free, App, Listener}] /\ Free \notin Conns
        /\ handshaken \in [Fds -> BOOLEAN]
        /\ \A fd \in Fds : owner[fd] \notin Conns => ~handshaken[fd] /\ frag_buffer[fd] = <<>>
    BY ServerAssumption DEF Sound, Attended, TypeOK, SocketTypes, MemberTypes
  <2> QED
    BY <1>3, <2>1
<1>5. ASSUME NEW c \in Conns PROVE Conveyed(c)'
  <2>1. FdsOf(c) \subseteq FdsOf(c)'
    BY <1>4 DEF FdsOf
  <2>2. \A fd \in FdsOf(c)' :
          /\ frag_buffer'[fd] = <<>> \/ (fd \in FdsOf(c) /\ frag_buffer'[fd] = frag_buffer[fd])
          /\ handshaken'[fd] => fd \in FdsOf(c) /\ handshaken[fd]
    BY <1>1, <1>4 DEF FdsOf
  <2>3. \A fd \in FdsOf(c) : handshaken[fd] => fd \in FdsOf(c)' /\ handshaken'[fd]
    BY <1>4, <2>1 DEF FdsOf
  <2>4. Ordered(Flow(c)') /\ Range(Flow(c)') \subseteq Range(Flow(c))
    BY <1>2 DEF Delivery, Conveyed, Flows
  <2> QED
    BY <1>1, <1>2, <2>2, <2>3, <2>4, Kept DEF Delivery
<1> QED
  BY <1>1, <1>5 DEF Delivery, Answering, Between

\* Closing a connection loses the rest of its flow and the fragments held.
LEMMA DeliveryCleanup ==
  ASSUME Sound, Delivery, TypeOK', NEW fd \in Fds, NEW c \in Conns, owner[fd] = c,
         NEW evs \in Seq(Event), \A i \in DOMAIN evs : evs[i].ev # "message",
         CleanupClient(fd, evs), pc' \in {"loop", "scan"}, pc = "hs" => cur = fd, rbuf' = <<>>
  PROVE  Delivery'
<1>0. /\ TypeOK
      /\ owner \in [Fds -> Conns \cup {Free, App, Listener}] /\ Free \notin Conns
      /\ cst \in [Conns -> {"new", "up", "fin", "rst", "pipe", "closed"}]
      /\ inp \in [Conns -> Seq(Unit)] /\ todo \in [Conns -> Seq(Unit)]
      /\ handshaken \in [Fds -> BOOLEAN] /\ frag_buffer \in [Fds -> Seq(Byte)]
      /\ said \in [Conns -> Seq(Event)]
  BY ServerAssumption DEF Sound, Attended, TypeOK, SocketTypes, MemberTypes, HistoryTypes
<1>1. /\ owner' = [owner EXCEPT ![fd] = Free]
      /\ cst' = [cst EXCEPT ![c] = "closed"]
      /\ inp' = [inp EXCEPT ![c] = <<>>]
      /\ todo' = [todo EXCEPT ![c] = <<>>]
      /\ handshaken' = [handshaken EXCEPT ![fd] = FALSE]
      /\ frag_buffer' = [frag_buffer EXCEPT ![fd] = <<>>]
      /\ said' = [said EXCEPT ![c] = @ \o Append(evs, Mark("close"))]
      /\ UNCHANGED sent
  BY DEF CleanupClient, CloseFd, EraseMaps, Store
<1>2. FdsOf(c) = {fd} /\ FdsOf(c)' = {}
  <2>1. FdsOf(c) = {fd}
    BY Behind DEF Sound
  <2> QED
    BY <1>0, <1>1, <2>1 DEF FdsOf
<1>3. ASSUME NEW d \in Conns \ {c} PROVE Conveyed(d)'
  <2>1. FdsOf(d)' = FdsOf(d) /\ fd \notin FdsOf(d)
    BY <1>0, <1>1 DEF FdsOf
  <2>2. \A g \in FdsOf(d) : frag_buffer'[g] = frag_buffer[g] /\ handshaken'[g] = handshaken[g]
    BY <1>0, <1>1, <2>1 DEF FdsOf
  <2>3. Reading(d)' = Reading(d)
    BY DEF Reading
  <2> QED
    BY <1>0, <1>1, <2>1, <2>2, <2>3, Untouched DEF Delivery
<1>4. Conveyed(c)'
  <2>1. SameMessages(c)
    <3>1. PICK more \in Seq(Event) :
            more = Append(evs, Mark("close")) /\ \A i \in DOMAIN more : more[i].ev # "message"
      <4> PICK e \in Event : e = Mark("close") /\ e.ev # "message"
        BY EventTypes DEF Mark, Record
      <4>1. /\ Append(evs, e) \in Seq(Event) /\ Len(Append(evs, e)) = Len(evs) + 1
            /\ \A i \in 1 .. Len(evs) : Append(evs, e)[i] = evs[i]
            /\ Append(evs, e)[Len(evs) + 1] = e
        BY AppendProperties
      <4>2. \A i \in DOMAIN Append(evs, e) : Append(evs, e)[i].ev # "message"
        BY <4>1, LenProperties
      <4> QED
        BY <4>1, <4>2
    <3>2. said'[c] = said[c] \o more /\ said[c] \in Seq(Event)
      BY <1>0, <1>1, <3>1
    <3> QED
      BY <3>1, <3>2, NoMessage
  <2>2. Ordered(Flow(c)') /\ Range(Flow(c)') \subseteq Range(Flow(c))
    <3>1. Reading(c)' = <<>> /\ inp'[c] = <<>> /\ todo'[c] = <<>>
      BY <1>0, <1>1 DEF Reading
    <3> QED
      BY <1>0, <3>1, FlowLost DEF Delivery, Conveyed
  <2> QED
    BY <1>0, <1>1, <1>2, <2>1, <2>2, Kept DEF Delivery
<1> QED
  BY <1>3, <1>4 DEF Delivery, Answering, Between

-----------------------------------------------------------------------------
(* perform_handshake.                                                      *)

\* The flow with what recv takes moved behind what was read before.
LEMMA FlowRead ==
  ASSUME TypeOK, NEW c \in Conns, NEW n \in Nat, NEW q \in Seq(Unit),
         Flow(c) = q \o (inp[c] \o todo[c])
  PROVE  /\ q \o Take(inp[c], n) \in Seq(Unit)
         /\ Drop(inp[c], n) \o todo[c] \in Seq(Unit)
         /\ Flow(c) = (q \o Take(inp[c], n)) \o (Drop(inp[c], n) \o todo[c])
<1>1. PICK i \in Seq(Unit), t \in Seq(Unit) : i = inp[c] /\ t = todo[c]
  BY FlowType
<1>2. PICK a \in Seq(Unit), b \in Seq(Unit) : a = Take(i, n) /\ b = Drop(i, n)
  BY TakeDropType
<1>3. i = a \o b
  BY <1>2, TakeDrop
<1>4. b \o t \in Seq(Unit) /\ q \o a \in Seq(Unit)
  BY ConcatProperties
<1>5. (a \o b) \o t = a \o (b \o t)
  BY UnitsAssociate
<1>6. q \o (a \o (b \o t)) = (q \o a) \o (b \o t)
  <2>1. PICK bt \in Seq(Unit) : bt = b \o t
    BY <1>4
  <2>2. (q \o a) \o bt = q \o (a \o bt)
    BY UnitsAssociate
  <2> QED
    BY <2>1, <2>2
<1> QED
  BY <1>1, <1>2, <1>3, <1>4, <1>5, <1>6

\* The request is the only item, so its end is the end of the flow.
LEMMA RequestIsAll ==
  ASSUME TypeOK, NEW c \in Conns, Flows(c), Requesting(c),
         cst[c] # "closed", \A fd \in FdsOf(c) : ~handshaken[fd],
         NEW buf \in Seq(Unit), NEW rest \in Seq(Unit), Flow(c) = buf \o rest, HasRequest(buf)
  PROVE  rest = <<>> /\ sent[c] >= 1
<1>1. /\ Ordered(buf) /\ Ordered(rest) /\ Precede(Range(buf), Range(rest))
      /\ Range(Flow(c)) = Range(buf) \cup Range(rest)
  BY OrderedConcat, RangeConcatenation DEF Flows
<1>2. PICK u \in Range(buf) : u.pos = HeaderLen + u.kind.len
  <2>1. DOMAIN buf = 1 .. Len(buf)
    BY LenProperties
  <2> QED
    BY <2>1 DEF HasRequest, Range
<1>3. u \in Unit /\ u.item = 0 /\ u.item < sent[c]
  BY <1>1, <1>2, RangeOfSeq DEF Requesting, Flows
<1>4. sent[c] >= 1
  BY <1>3, FlowType
<1>5. ASSUME NEW v \in Range(rest) PROVE FALSE
  <2>1. v \in Unit /\ v.item = 0 /\ u.kind = v.kind /\ v.pos <= HeaderLen + v.kind.len
    BY <1>1, <1>2, <1>5, RangeOfSeq DEF Requesting
  <2>2. Before(u, v)
    BY <1>1, <1>2, <1>5 DEF Precede
  <2>3. u.pos \in Nat /\ v.pos \in Nat /\ u.pos < v.pos
    BY <1>3, <2>1, <2>2 DEF Before, Unit
  <2> QED
    BY <1>2, <2>1, <2>3
<1>6. rest = <<>>
  <2> SUFFICES ASSUME rest # <<>> PROVE FALSE
    OBVIOUS
  <2>1. rest[1] \in Range(rest)
    BY EmptySeq, LenProperties DEF Range
  <2> QED
    BY <1>5, <2>1
<1> QED
  BY <1>4, <1>6

\* What perform_handshake has of the request after a recv, and what it has not.
LEMMA RequestRead ==
  ASSUME Sound, Delivery, NEW fd \in Fds, NEW c, c = owner[fd], InHandshake(fd),
         NEW buf, buf = rbuf \o Take(inp[c], HsChunk)
  PROVE  \E rest \in Seq(Unit) :
           /\ rest = Drop(inp[c], HsChunk) \o todo[c] /\ buf \in Seq(Unit)
           /\ Flow(c) = buf \o rest
           /\ HasRequest(buf) => rest = <<>> /\ sent[c] >= 1
<1>0. TypeOK
  BY DEF Sound, Attended
<1>1. /\ c \in Conns /\ ~handshaken[fd]
      /\ pc = "hs" => cur = fd
      /\ pc # "hs" => pc = "scan" /\ rbuf = <<>>
  BY DEF Sound, Attended, Talk, Delivery, Between, InHandshake, Visit
<1>2. rbuf \in Seq(Unit) /\ HsChunk \in Nat
  BY <1>0, ServerAssumption DEF TypeOK, LocalTypes
<1>3. FdsOf(c) = {fd} /\ cst[c] # "closed"
  BY <1>1, Behind DEF Sound
<1>4. Reading(c) = rbuf
  BY <1>1 DEF Reading
<1>5. Flow(c) = rbuf \o (inp[c] \o todo[c])
  BY <1>4 DEF Flow
<1>6. PICK rest \in Seq(Unit) : /\ rest = Drop(inp[c], HsChunk) \o todo[c] /\ buf \in Seq(Unit)
                                /\ Flow(c) = buf \o rest
  BY <1>0, <1>1, <1>2, <1>5, FlowRead
<1>7. HasRequest(buf) => rest = <<>> /\ sent[c] >= 1
  BY <1>0, <1>1, <1>3, <1>6, RequestIsAll DEF Delivery, Conveyed
<1> QED
  BY <1>6, <1>7

LEMMA DeliveryHandshake ==
  ASSUME Sound, Delivery, TypeOK', NEW fd \in Fds, HandshakeEof(fd) \/ HandshakeRecv(fd)
  PROVE  Delivery'
<1> PICK c : c = owner[fd]
  OBVIOUS
<1>0. TypeOK
  BY DEF Sound, Attended
<1>1. /\ c \in Conns /\ ~handshaken[fd]
      /\ pc = "hs" => cur = fd
      /\ pc # "hs" => pc = "scan" /\ rbuf = <<>>
  BY DEF Sound, Attended, Talk, Delivery, Between, HandshakeEof, HandshakeRecv, InHandshake, Visit
<1>2. CASE HandshakeFails(fd)
  <2>1. <<>> \in Seq(Event) /\ \A i \in DOMAIN <<>> : <<>>[i].ev # "message"
    OBVIOUS
  <2>2. CleanupClient(fd, <<>>) /\ pc' \in {"loop", "scan"} /\ rbuf' = <<>>
    BY <1>2 DEF HandshakeFails, Resume
  <2> QED
    BY <1>1, <2>1, <2>2, DeliveryCleanup
<1>3. CASE ~HandshakeFails(fd)
  <2>1. PICK buf : buf = rbuf \o Take(inp[c], HsChunk)
    OBVIOUS
  <2>2. /\ UNCHANGED <<owner, cst, todo, sent, said, frag_buffer, handshaken>>
        /\ inp' = [inp EXCEPT ![c] = Drop(@, HsChunk)] /\ cur' = fd
        /\ \/ HasRequest(buf) /\ pc' = "send" /\ reply' = Switching /\ rbuf' = <<>>
           \/ pc' = "hs" /\ rbuf' = buf
    BY <1>3, <2>1 DEF HandshakeEof, HandshakeRecv, Consume, Call, maps, history
  <2>3. inp \in [Conns -> Seq(Unit)] /\ rbuf \in Seq(Unit) /\ HsChunk \in Nat
    BY <1>0, ServerAssumption DEF TypeOK, SocketTypes, LocalTypes
  <2>4. FdsOf(c) = {fd} /\ cst[c] # "closed"
    BY <1>1, Behind DEF Sound
  <2>5. PICK rest \in Seq(Unit) : /\ rest = Drop(inp[c], HsChunk) \o todo[c] /\ buf \in Seq(Unit)
                                  /\ Flow(c) = buf \o rest
                                  /\ HasRequest(buf) => rest = <<>> /\ sent[c] >= 1
    BY <2>1, RequestRead DEF HandshakeEof, HandshakeRecv
  <2>6. rest = inp'[c] \o todo'[c]
    BY <1>1, <2>2, <2>3, <2>5
  <2>7. /\ pc' = "send" => Flow(c)' = rest
        /\ pc' = "hs" => Flow(c)' = Flow(c)
    <3>1. pc' = "send" => Flow(c)' = rest
      BY <1>0, <1>1, <2>6, FlowTypes
    <3>2. pc' = "hs" => Reading(c)' = buf
      BY <2>2 DEF Reading
    <3> QED
      BY <2>5, <2>6, <3>1, <3>2 DEF Flow
  <2>8. ASSUME NEW d \in Conns \ {c} PROVE Conveyed(d)'
    <3>1. Reading(d)' = Reading(d)
      BY <1>1, <2>2 DEF Reading
    <3> QED
      BY <1>1, <2>2, <2>3, <3>1, Untouched DEF Delivery, FdsOf
  <2>9. Conveyed(c)'
    <3>1. Ordered(Flow(c)') /\ Range(Flow(c)') \subseteq Range(Flow(c))
      <4>1. Ordered(Flow(c)) /\ Ordered(<<>>) /\ Range(<<>>) = {}
        BY <1>1 DEF Delivery, Conveyed, Flows, Ordered, Range
      <4>2. Flow(c)' = Flow(c) \/ Flow(c)' = <<>>
        BY <2>2, <2>5, <2>7
      <4> QED
        BY <4>1, <4>2
    <3>2. SameMessages(c)
      BY <2>2 DEF SameMessages, Messages
    <3> QED
      BY <1>1, <2>2, <3>1, <3>2, Kept DEF Delivery, FdsOf
  <2>10. Answering'
    <3> SUFFICES ASSUME pc' = "send" PROVE sent'[owner'[cur']] >= 1 /\ Flow(owner[cur])' = <<>>
      BY <2>2 DEF Answering
    <3>1. owner'[cur'] = c /\ HasRequest(buf)
      BY <2>2
    <3> QED
      BY <2>2, <2>5, <2>7, <3>1
  <2> QED
    BY <2>2, <2>8, <2>9, <2>10 DEF Delivery, Between
<1> QED
  BY <1>2, <1>3

-----------------------------------------------------------------------------
(* handle_frame.                                                           *)

\* What handle_frame's recv takes, and what it leaves.
LEMMA FrameFlow ==
  ASSUME Sound, TypeOK', NEW fd \in Fds, NEW h, RecvFrame(fd, h),
         NEW c \in Conns, c = owner[fd], pc' # "hs"
  PROVE  \E buf, rest \in Seq(Unit) :
           buf = FrameBuffer(fd) /\ Flow(c) = buf \o rest /\ Flow(c)' = rest
<1>0. /\ TypeOK /\ inp \in [Conns -> Seq(Unit)] /\ RecvMax \in Nat
  BY ServerAssumption DEF Sound, Attended, TypeOK, SocketTypes
<1>1. /\ UNCHANGED todo /\ pc = "scan" /\ inp' = [inp EXCEPT ![c] = Drop(@, RecvMax)]
  BY DEF RecvFrame, Visit, Consume
<1>2. <<>> \in Seq(Unit) /\ Flow(c) = <<>> \o (inp[c] \o todo[c])
  <2>1. Reading(c) = <<>>
    BY <1>1 DEF Reading
  <2>2. Flow(c) = <<>> \o (inp[c] \o todo[c])
    BY <2>1, Zenon DEF Flow
  <2> QED
    BY <2>2
<1>3. /\ <<>> \o Take(inp[c], RecvMax) \in Seq(Unit)
      /\ Drop(inp[c], RecvMax) \o todo[c] \in Seq(Unit)
      /\ Flow(c) = (<<>> \o Take(inp[c], RecvMax)) \o (Drop(inp[c], RecvMax) \o todo[c])
  BY <1>0, <1>2, FlowRead
<1>4. Take(inp[c], RecvMax) \in Seq(Unit)
  BY <1>0, TakeDropType
<1>5. <<>> \o Take(inp[c], RecvMax) = FrameBuffer(fd)
  BY <1>4, ConcatEmptySeq DEF FrameBuffer
<1>6. Flow(c)' = Drop(inp[c], RecvMax) \o todo[c]
  BY <1>0, <1>1, FlowTypes
<1> QED
  BY <1>3, <1>5, <1>6

LEMMA DeliveryFrame ==
  ASSUME Sound, Delivery, TypeOK', NEW fd \in Fds, NEW h \in Kinds, RecvFrame(fd, h),
         NEW c \in Conns, c = owner[fd],
         pc' \in {"loop", "scan"} \/ (pc' = "send" /\ reply'.next # "opened"),
         \A g \in Fds \ {fd} : frag_buffer'[g] = frag_buffer[g],
         \A d \in Conns \ {c} : said'[d] = said[d],
         \/ Dropped(c, fd)
         \/ /\ Complete(FrameBuffer(fd), h)
            /\ \E p : /\ IsPiece(p, fd, Payload(FrameBuffer(fd), h))
                      /\ \/ Holding(c, fd, p)
                         \/ Delivers(c, fd, Payload(FrameBuffer(fd), h), p)
  PROVE  Delivery'
<1>0. /\ TypeOK /\ inp \in [Conns -> Seq(Unit)] /\ RecvMax \in Nat
  BY ServerAssumption DEF Sound, Attended, TypeOK, SocketTypes
<1>1. /\ UNCHANGED <<owner, cst, todo, sent, handshaken, rbuf>> /\ handshaken[fd]
      /\ pc = "scan" /\ inp' = [inp EXCEPT ![c] = Drop(@, RecvMax)]
  BY DEF RecvFrame, Visit, Consume
<1>2. FdsOf(c) = {fd} /\ \A d \in Conns : FdsOf(d)' = FdsOf(d)
  BY <1>1, Behind DEF Sound, FdsOf
<1>3. \A d \in Conns : Reading(d) = <<>> /\ Reading(d)' = <<>>
  BY <1>1 DEF Reading
<1>4. PICK buf \in Seq(Unit), rest \in Seq(Unit) :
        buf = FrameBuffer(fd) /\ Flow(c) = buf \o rest /\ Flow(c)' = rest
  BY FrameFlow
<1>5. Conveyed(c)'
  <2>1. \/ Dropped(c, fd)
        \/ /\ Complete(buf, h)
           /\ \E p : /\ IsPiece(p, fd, Payload(buf, h))
                     /\ Holding(c, fd, p) \/ Delivers(c, fd, Payload(buf, h), p)
    BY <1>4
  <2>2. Conveyed(c)
    BY DEF Delivery
  <2> QED
    BY <1>0, <1>1, <1>2, <1>4, <2>1, <2>2, FrameConveyed
<1>6. ASSUME NEW d \in Conns \ {c} PROVE Conveyed(d)'
  <2>1. \A g \in FdsOf(d) : g \in Fds \ {fd}
    BY DEF FdsOf
  <2>2. \A g \in FdsOf(d) : frag_buffer'[g] = frag_buffer[g] /\ handshaken'[g] = handshaken[g]
    BY <1>1, <2>1
  <2>3. inp'[d] = inp[d] /\ todo'[d] = todo[d] /\ sent'[d] = sent[d]
    BY <1>0, <1>1
  <2> QED
    BY <1>1, <1>2, <1>3, <2>2, <2>3, Untouched DEF Delivery
<1>7. Answering' /\ Between'
  BY <1>1 DEF Delivery, Answering, Between
<1> QED
  BY <1>5, <1>6, <1>7 DEF Delivery

\* Nothing of the frame is used.
LEMMA DeliveryUnused ==
  ASSUME Sound, Delivery, TypeOK', NEW fd \in Fds, NEW h \in Kinds, RecvFrame(fd, h),
         pc' = "send" /\ reply'.next # "opened", UNCHANGED <<frag_buffer, said>>
  PROVE  Delivery'
<1> PICK c \in Conns : c = owner[fd]
  BY RecvFrameFd
<1>1. Dropped(c, fd)
  BY DEF Dropped, SameMessages, Messages
<1> QED
  BY <1>1, DeliveryFrame

LEMMA DeliveryWhole ==
  ASSUME Sound, Delivery, TypeOK', NEW fd \in Fds, NEW h \in Kinds, WholeMessage(fd, h)
  PROVE  Delivery'
<1> PICK c \in Conns : c = owner[fd]
  BY RecvFrameFd DEF WholeMessage, FrameRead
<1>1. PICK d : d = Payload(FrameBuffer(fd), h)
  OBVIOUS
<1>2. /\ RecvFrame(fd, h) /\ Complete(FrameBuffer(fd), h) /\ UNCHANGED frag_buffer
      /\ Call(fd, Echo(h.op, d)) /\ h.op \in Opcodes
      /\ said' = [said EXCEPT ![c] = @ \o <<OnMessage(h.op, d)>>]
  BY <1>1 DEF WholeMessage, FrameRead, Observe, Parsed, Opcodes
<1>3. pc' = "send" /\ reply'.next # "opened"
  BY <1>2 DEF Call, Echo
<1>4. /\ said'[c] = said[c] \o <<OnMessage(h.op, d)>>
      /\ \A e \in Conns \ {c} : said'[e] = said[e]
  BY <1>2 DEF Sound, Attended, TypeOK, HistoryTypes
<1>5. IsPiece(d, fd, d) /\ Delivers(c, fd, d, d)
  BY <1>2, <1>4 DEF IsPiece, Delivers
<1> QED
  BY <1>1, <1>2, <1>3, <1>4, <1>5, DeliveryFrame

LEMMA DeliveryFirst ==
  ASSUME Sound, Delivery, TypeOK', NEW fd \in Fds, NEW h \in Kinds, FirstFragment(fd, h)
  PROVE  Delivery'
<1> PICK c \in Conns : c = owner[fd]
  BY RecvFrameFd DEF FirstFragment, FrameRead
<1>1. PICK d : d = Payload(FrameBuffer(fd), h)
  OBVIOUS
<1>2. /\ RecvFrame(fd, h) /\ Complete(FrameBuffer(fd), h) /\ UNCHANGED said
      /\ frag_buffer' = [frag_buffer EXCEPT ![fd] = d] /\ pc' \in {"loop", "scan"}
  BY <1>1 DEF FirstFragment, FrameRead, Store, Parsed, Resume
<1>3. frag_buffer'[fd] = d /\ \A g \in Fds \ {fd} : frag_buffer'[g] = frag_buffer[g]
  BY <1>2 DEF Sound, Attended, TypeOK, MemberTypes
<1>4. IsPiece(d, fd, d) /\ Holding(c, fd, d)
  BY <1>2, <1>3 DEF IsPiece, Holding, SameMessages, Messages
<1> QED
  BY <1>1, <1>2, <1>3, <1>4, DeliveryFrame

LEMMA DeliveryContinuation ==
  ASSUME Sound, Delivery, TypeOK', NEW fd \in Fds, NEW h \in Kinds, Continuation(fd, h)
  PROVE  Delivery'
<1> PICK c \in Conns : c = owner[fd]
  BY RecvFrameFd DEF Continuation, FrameRead
<1>1. PICK d, bufv, base : /\ d = Payload(FrameBuffer(fd), h)
                           /\ bufv = frag_buffer[fd] \o d /\ base = frag_opcode[fd]
  OBVIOUS
<1>2. /\ RecvFrame(fd, h) /\ Complete(FrameBuffer(fd), h)
      /\ frag_buffer' = [frag_buffer EXCEPT ![fd] = IF h.fin THEN <<>> ELSE bufv]
      /\ IF h.fin /\ base # "cont"
         THEN Call(fd, Echo(base, bufv)) /\ Observe(fd, <<OnMessage(base, bufv)>>)
         ELSE pc' = Resume(readfds') /\ Observe(fd, <<>>)
  BY <1>1 DEF Continuation, FrameRead, Parsed, Assembled, Store
<1>3. /\ frag_buffer'[fd] = IF h.fin THEN <<>> ELSE bufv
      /\ \A g \in Fds \ {fd} : frag_buffer'[g] = frag_buffer[g]
  BY <1>2 DEF Sound, Attended, TypeOK, MemberTypes
<1>4. base \in Opcodes /\ said \in [Conns -> Seq(Event)]
  BY <1>1 DEF Sound, Attended, TypeOK, MemberTypes, HistoryTypes, Opcodes
<1>5. IsPiece(bufv, fd, d)
  BY <1>1 DEF IsPiece
<1>6. CASE h.fin /\ base # "cont"
  <2>1. /\ said'[c] = said[c] \o <<OnMessage(base, bufv)>>
        /\ \A e \in Conns \ {c} : said'[e] = said[e]
    BY <1>2, <1>4, <1>6 DEF Observe
  <2>2. Delivers(c, fd, d, bufv)
    BY <1>3, <1>4, <1>6, <2>1 DEF Delivers
  <2>3. pc' = "send" /\ reply'.next # "opened"
    BY <1>2, <1>6 DEF Call, Echo
  <2> QED
    BY <1>1, <1>2, <1>3, <1>5, <2>1, <2>2, <2>3, DeliveryFrame
<1>7. CASE ~(h.fin /\ base # "cont")
  <2>1. said[c] \o <<>> = said[c]
    BY <1>4, ConcatEmptySeq
  <2>2. said' = said /\ pc' \in {"loop", "scan"}
    BY <1>2, <1>4, <1>7, <2>1 DEF Observe, Resume
  <2>3. Dropped(c, fd) \/ Holding(c, fd, bufv)
    BY <1>3, <2>2 DEF Dropped, Holding, SameMessages, Messages
  <2> QED
    BY <1>1, <1>2, <1>3, <1>5, <2>2, <2>3, DeliveryFrame
<1> QED
  BY <1>6, <1>7

LEMMA DeliveryHandleFrame ==
  ASSUME Sound, Delivery, TypeOK', NEW fd \in Fds, HandleFrame(fd)
  PROVE  Delivery'
<1>1. CASE FrameEof(fd)
  <2>1. CleanupClient(fd, <<>>) /\ pc = "scan" /\ pc' \in {"loop", "scan"} /\ rbuf' = <<>>
    BY <1>1 DEF FrameEof, Visit, Resume, Delivery, Between
  <2>2. <<>> \in Seq(Event) /\ \A i \in DOMAIN <<>> : <<>>[i].ev # "message"
    OBVIOUS
  <2>3. owner[fd] \in Conns
    BY <1>1 DEF FrameEof, Sound, Attended
  <2> QED
    BY <2>1, <2>2, <2>3, DeliveryCleanup
<1>2. ASSUME NEW h \in Kinds,
             ProtocolError(fd, h) \/ PayloadTooBig(fd, h) \/ Ping(fd, h) \/ CloseOrUnknown(fd, h)
      PROVE  Delivery'
  <2>1. RecvFrame(fd, h) /\ UNCHANGED <<frag_buffer, said>>
    BY <1>2 DEF ProtocolError, PayloadTooBig, Ping, CloseOrUnknown, FrameRead, history
  <2>2. pc' = "send" /\ reply'.next # "opened"
    BY <1>2 DEF ProtocolError, PayloadTooBig, Ping, CloseOrUnknown, Call, CloseWith, Pong
  <2> QED
    BY <2>1, <2>2, DeliveryUnused
<1> QED
  BY <1>1, <1>2, DeliveryWhole, DeliveryFirst, DeliveryContinuation DEF HandleFrame

-----------------------------------------------------------------------------
(* send().                                                                 *)

LEMMA DeliverySend ==
  ASSUME Sound, Delivery, TypeOK', Send
  PROVE  Delivery'
<1>0. /\ TypeOK /\ pc = "send" /\ cur \in Fds /\ owner[cur] \in Conns /\ reply \in Reply
      /\ said \in [Conns -> Seq(Event)] /\ rbuf = <<>>
  BY DEF Sound, Attended, TypeOK, LocalTypes, HistoryTypes, Send, Opened, NotOpened, SigPipe,
         Replied, Closed, SendReturns, Delivery, Between
<1> PICK c \in Conns : c = owner[cur]
  BY <1>0
<1>1. ASSUME NEW e \in {"send", "lost"}
      PROVE  /\ <<Written(e, reply)>> \in Seq(Event)
             /\ \A i \in DOMAIN <<Written(e, reply)>> : <<Written(e, reply)>>[i].ev # "message"
  <2>1. PICK w \in Event : w = Written(e, reply) /\ w.ev = e
    BY <1>0, EventTypes DEF Written, Record
  <2> QED
    BY <2>1
<1>2. CASE NotOpened \/ \E e \in {"send", "lost"} : Closed(e)
  <2>1. PICK e \in {"send", "lost"} : CleanupClient(cur, <<Written(e, reply)>>)
    BY <1>2 DEF NotOpened, Closed
  <2>2. pc' \in {"loop", "scan"} /\ rbuf' = <<>>
    BY <1>0, <1>2 DEF NotOpened, Closed, SendReturns, Resume
  <2> QED
    BY <1>0, <1>1, <2>1, <2>2, DeliveryCleanup
<1>3. CASE SigPipe
  BY <1>3, IdleDelivery DEF SigPipe, sockets, maps, history, FdsOf
<1>4. ASSUME NEW evs \in Seq(Event), \A i \in DOMAIN evs : evs[i].ev # "message",
             Observe(cur, evs), pc' \in {"loop", "scan"},
             UNCHANGED <<owner, todo, inp, sent, frag_buffer, rbuf>>,
             \A d \in Conns : cst'[d] = "closed" <=> cst[d] = "closed",
             \A fd \in Fds \ {cur} : handshaken'[fd] = handshaken[fd],
             \/ handshaken'[cur] = handshaken[cur]
             \/ handshaken'[cur] /\ Answering /\ reply.next = "opened"
      PROVE  Delivery'
  <2>1. /\ \A d \in Conns \ {c} : said'[d] = said[d]
        /\ said'[c] = said[c] \o evs
    BY <1>0, <1>4 DEF Observe
  <2>2. \A d \in Conns : Reading(d)' = Reading(d) /\ FdsOf(d)' = FdsOf(d)
    BY <1>0, <1>4 DEF Reading, FdsOf
  <2>3. ASSUME NEW d \in Conns \ {c} PROVE Conveyed(d)'
    <3>1. \A fd \in FdsOf(d) : fd \in Fds \ {cur}
      BY DEF FdsOf
    <3> QED
      BY <1>4, <2>1, <2>2, <3>1, Untouched DEF Delivery
  <2>4. SameMessages(c) /\ Flow(c)' = Flow(c) /\ Conveyed(c)
    BY <1>0, <1>4, <2>1, <2>2, NoMessage DEF Flow, Delivery
  <2>5. Ordered(Flow(c)')
    BY <2>4 DEF Conveyed, Flows
  <2>6. FdsOf(c) = {cur} /\ cst[c] # "closed"
    BY <1>0, Behind DEF Sound
  <2>7. ASSUME handshaken'[cur] = handshaken[cur] PROVE Conveyed(c)'
    BY <1>4, <2>2, <2>4, <2>5, <2>6, <2>7, Kept
  <2>8. ASSUME handshaken'[cur], Answering, reply.next = "opened" PROVE Conveyed(c)'
    <3>1. Flows(c)' /\ SpentFirst(c)' /\ Apart(c)'
      BY <1>4, <2>2, <2>4, <2>5, PastKept DEF Conveyed
    <3>2. sent[c] >= 1 /\ Flow(c)' = <<>>
      BY <1>0, <2>4, <2>8 DEF Answering
    <3>3. Range(<<>>) = {}
      BY DEF Range
    <3>4. Requesting(c)' /\ Upgraded(c)'
      BY <1>4, <2>2, <2>6, <2>8, <3>2, <3>3 DEF Requesting, Upgraded
    <3> QED
      BY <3>1, <3>4 DEF Conveyed
  <2> QED
    BY <1>0, <1>4, <2>3, <2>7, <2>8 DEF Delivery, Answering, Between
<1>5. CASE Opened
  <2>1. PICK evs \in Seq(Event) : /\ evs = <<Written("send", reply), Mark("open")>>
                                  /\ \A i \in DOMAIN evs : evs[i].ev # "message"
    <3>1. PICK w \in Event, o \in Event : /\ w = Written("send", reply) /\ w.ev = "send"
                                          /\ o = Mark("open") /\ o.ev = "open"
      BY <1>0, EventTypes DEF Written, Mark, Record
    <3>2. <<w, o>> \in Seq(Event) /\ \A i \in DOMAIN <<w, o>> : <<w, o>>[i].ev # "message"
      BY <3>1
    <3> QED
      BY <3>1, <3>2
  <2>2. /\ Observe(cur, evs) /\ pc' \in {"loop", "scan"} /\ reply.next = "opened"
        /\ UNCHANGED <<owner, cst, todo, inp, sent, frag_buffer, rbuf>>
        /\ handshaken' = [handshaken EXCEPT ![cur] = TRUE]
    BY <1>5, <2>1 DEF Opened, SendReturns, Resume
  <2>3. /\ handshaken'[cur]
        /\ \A fd \in Fds \ {cur} : handshaken'[fd] = handshaken[fd]
    BY <1>0, <2>2 DEF TypeOK, MemberTypes
  <2> QED
    BY <1>4, <2>1, <2>2, <2>3 DEF Delivery
<1>6. ASSUME NEW e \in {"send", "lost"}, Replied(e) PROVE Delivery'
  <2>1. /\ Observe(cur, <<Written(e, reply)>>) /\ pc' \in {"loop", "scan"}
        /\ UNCHANGED <<owner, todo, inp, sent, frag_buffer, handshaken, rbuf>>
        /\ cst' = [cst EXCEPT ![c] = IF e = "lost" THEN "pipe" ELSE @]
    BY <1>6 DEF Replied, SendReturns, Resume, maps
  <2>2. \A d \in Conns : cst'[d] = "closed" <=> cst[d] = "closed"
    <3>1. cst \in [Conns -> {"new", "up", "fin", "rst", "pipe", "closed"}] /\ cst[c] # "closed"
      BY <1>0, Behind DEF TypeOK, SocketTypes, Sound
    <3> QED
      BY <2>1, <3>1
  <2> QED
    BY <1>1, <1>4, <2>1, <2>2
<1> QED
  BY <1>2, <1>3, <1>5, <1>6 DEF Send

-----------------------------------------------------------------------------
(* The theorem.                                                            *)

LEMMA DeliveryInit == Init => Delivery
<1> SUFFICES ASSUME Init PROVE Delivery
  OBVIOUS
<1>1. /\ pc = "idle" /\ rbuf = <<>>
      /\ \A c \in Conns : /\ inp[c] = <<>> /\ todo[c] = <<>> /\ sent[c] = 0 /\ said[c] = <<>>
                          /\ FdsOf(c) = {} /\ Reading(c) = <<>>
  BY ServerAssumption DEF Init, FdsOf, Reading
<1>2. \A c \in Conns : Flow(c) = <<>> /\ Messages(c) = {}
  <2>1. <<>> \o <<>> = <<>>
    BY ConcatEmptySeq
  <2>2. \A c \in Conns : Flow(c) = <<>>
    <3> SUFFICES ASSUME NEW c \in Conns PROVE Flow(c) = <<>>
      OBVIOUS
    <3>1. Flow(c) = <<>> \o (<<>> \o <<>>)
      BY <1>1, Zenon DEF Flow
    <3> QED
      BY <2>1, <3>1
  <2>3. \A c \in Conns : Messages(c) = {}
    <3>1. DOMAIN <<>> = {}
      OBVIOUS
    <3> QED
      BY <1>1, <3>1, Zenon DEF Messages
  <2> QED
    BY <2>2, <2>3
<1>3. Range(<<>>) = {} /\ Ordered(<<>>)
  BY DEF Range, Ordered
<1>4. ASSUME NEW c \in Conns PROVE Conveyed(c)
  <2>1. \A u : u \notin Spent(c)
    BY <1>1, <1>2, SpentIs
  <2> QED
    BY <1>1, <1>2, <1>3, <1>4, <2>1 DEF Conveyed, Flows, SpentFirst, Apart, Requesting, Upgraded
<1> QED
  BY <1>1, <1>4 DEF Delivery, Answering, Between

LEMMA DeliveryNext ==
  ASSUME Sound, Delivery, [Next]_vars
  PROVE  Delivery'
<1>0. TypeOK'
  BY TypeNext DEF Sound
<1>1. CASE UNCHANGED vars
  BY <1>1, IdleDelivery DEF vars, sockets, maps, locals, history, FdsOf
<1>2. CASE Run \/ Application \/ \E c \in Conns : Client(c)
  BY <1>0, <1>2, DeliveryApplication, DeliveryClient
<1>3. CASE Select
  BY <1>3, DeliveryApplication DEF Select
<1>4. CASE Leave
  BY <1>0, <1>4, DeliveryLeave
<1>5. CASE Accept
  BY <1>5, DeliveryAccept
<1>6. CASE Send
  BY <1>0, <1>6, DeliverySend
<1>7. ASSUME NEW fd \in Fds, HandshakeEof(fd) \/ HandshakeRecv(fd) \/ HandleFrame(fd)
      PROVE  Delivery'
  BY <1>0, <1>7, DeliveryHandshake, DeliveryHandleFrame
<1> QED
  BY <1>1, <1>2, <1>3, <1>4, <1>5, <1>6, <1>7 DEF Next, ServerStep, Stop, SelectFails

\* Delivery is an invariant, given the others.
THEOREM DeliveryHolds == Spec => []Delivery
<1>1. Init => Delivery
  BY DeliveryInit
<1>2. Inv /\ Accounted /\ Talk /\ Delivery /\ [Next]_vars => Delivery'
  BY InvAttended, DeliveryNext DEF Sound
<1> QED
  BY <1>1, <1>2, InvHolds, AllAccounted, TalkHolds, PTL DEF Spec

\* No byte a client sent is delivered to on_message twice, whatever frames and
\* segments it arrived in, out of its place in a message, under another
\* connection or from the HTTP request.
THEOREM ByteDeliveredOnce == Spec => []DeliveredOnce
<1>1. Delivery => DeliveredOnce
  BY DEF Delivery, Conveyed, Apart, DeliveredOnce
<1> QED
  BY <1>1, DeliveryHolds, PTL

=============================================================================
