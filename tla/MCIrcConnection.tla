-------------------------- MODULE MCIrcConnection --------------------------
(* The instance of IrcConnection that TLC checks.                          *)
EXTENDS IrcConnection, TLC

CONSTANTS main, other, w1, w2, w3, s1, s2

MCUsers == {main}
TwoUsers == {main, other}
MCWorkers == {w1, w2}
ThreeWorkers == {w1, w2, w3}
MCSessions == {s1, s2}
AllCalls == {"start", "quit", "disconnect", "resetSession",
             "setReconnectDelay", "command"}
StartAndQuit == {"start", "quit", "command"}
StartAndDisconnect == {"start", "disconnect"}
StartAndReset == {"start", "resetSession"}
MCDelays == {0, 10}

\* Workers and sessions are interchangeable: only runs of safety properties
\* use it.
Symmetry == Permutations({w1, w2, w3}) \cup Permutations(MCSessions)
=============================================================================
