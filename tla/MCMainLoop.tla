----------------------------- MODULE MCMainLoop -----------------------------
(* The instance of MainLoop that TLC checks.                               *)
EXTENDS MainLoop

CONSTANTS w1, w2, s1, s2

MCUsers == {Main}
MCWorkers == {w1, w2}
MCSessions == {s1, s2}
MCCalls == {"start", "quit", "command"}
NoDelays == {}
=============================================================================
