----------------------------- MODULE MCRestart -----------------------------
(* Constant values for model checking Restart with TLC, besides MCServer's. *)
EXTENDS Restart, MCServer

\* A message half assembled when run() returns, and its end.
RestartKinds == {F("text", FALSE, 1), F("cont", TRUE, 0)}

=============================================================================
