----------------------------- MODULE MCSession -----------------------------
(* Constant values for model checking EchoSession with TLC.                *)
EXTENDS EchoSession

One == {client}
Requests1 == {[op |-> "accepted", len |-> 1]}
TheRequest == CHOOSE r \in Requests1 : TRUE

F(op, fin, len) == [op |-> op, fin |-> fin, len |-> len]

Hello == F("text", TRUE, 1)
Bdata == F("binary", TRUE, 2)
Frag1 == F("text", FALSE, 1)
Frag2 == F("cont", TRUE, 1)
Pings == F("ping", TRUE, 1)
Bye   == F("close", TRUE, 0)
AllKinds == {Hello, Bdata, Frag1, Frag2, Pings, Bye}

=============================================================================
