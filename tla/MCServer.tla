------------------------------ MODULE MCServer ------------------------------
(***************************************************************************)
(* Constant values for model checking Server with TLC.  A length is a      *)
(* number of units beyond the header; what matters is on which side of     *)
(* MaxPayloads, ParseLimit, RecvMax and HsLimit a thing falls.             *)
(***************************************************************************)
EXTENDS ServerProperties

CONSTANTS c1, c2

One == {c1}
Two == {c1, c2}
AnyOrder == Permutations(Two)

F(op, fin, len) == [op |-> op, fin |-> fin, len |-> len]

GoodRequest  == [op |-> "accepted", len |-> 0]
SplitRequest == [op |-> "accepted", len |-> 1]
BadRequest   == [op |-> "rejected", len |-> 0]
LongRequest  == [op |-> "accepted", len |-> 3]

\* life: connections come, are upgraded or refused, deliver messages whole and in
\* fragments, leave fragments behind and go.
OneRequest   == {GoodRequest}
LifeRequests == {GoodRequest, BadRequest}
LifeKinds    ==
  {F("text", TRUE, 1), F("text", FALSE, 1), F("cont", TRUE, 0), F("close", TRUE, 0)}

\* Bound, the constraint of life and restart: a client that sends two frames is
\* the only one there has been, while two clients send one each.
SecondFrameAlone ==
  \A c \in Two : sent[c] > 2 => \A d \in Two \ {c} : cst[d] = "new"

\* framing: every opcode, payloads on either side of every limit.
FramingRequests == {SplitRequest, LongRequest, BadRequest}
FramingKinds ==
  {F("text", TRUE, 2), F("binary", TRUE, 3), F("binary", FALSE, 1), F("cont", TRUE, 1),
   F("cont", FALSE, 1), F("ping", TRUE, 1), F("pong", TRUE, 0), F("close", TRUE, 0),
   F("reserved", TRUE, 0)}
Maxima == {-1, 1}

\* progress.
ProgressKinds == {F("text", TRUE, 0)}

\* The disagreements.
FragmentKinds == {F("text", FALSE, 2), F("cont", TRUE, 2)}
LongKinds     == {F("binary", TRUE, 3)}

=============================================================================
